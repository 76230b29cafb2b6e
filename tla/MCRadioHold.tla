----------------------------- MODULE MCRadioHold -----------------------------
(* Small instances of RadioHold, with what the exceptions so far have broken:  *)
(* a hold's own bookkeeping, or the radio's way back to receive.               *)
EXTENDS RadioHold

VARIABLES
  slipped,  \* history: an exception has left a hold's finally clause
  calm      \* history: no ctrl-C, no failed driver call and no stop()

CalmInit == Init /\ slipped = FALSE /\ calm = TRUE

CalmNext ==
  \/ /\ \/ \E entry \in Commands : Command(entry)
        \/ Loop
        \/ Collect_
        \/ \E c \in Contexts : Step(c) \/ CollectFails(c)
        \/ Land \/ Garble
     /\ UNCHANGED <<slipped, calm>>
  \/ /\ Stop \/ \E c \in Contexts : BusyFails(c)
     /\ calm' = FALSE
     /\ UNCHANGED slipped
  \/ \E c \in Contexts, kind \in Exceptions :
       /\ Interrupt(c, kind)
       /\ slipped' = (slipped \/ where[c] = "exit")
       /\ calm' = (calm /\ kind = "unreadable")

CalmSpec == CalmInit /\ [][CalmNext]_<<vars, slipped, calm>> /\ Fairness

\* "True while foreground code owns the radio" (mesh.py:60), read with
\* `_collect`'s own hold included: the flag is up exactly while a hold is, over
\* every exception that strikes a hold's body, until one leaves a hold's last
\* poll - ctrl-C, a failed driver call, or a received body nothing can decode.
BusyMeansHeld == ~slipped => (busy <=> \E c \in Contexts : where[c] # "out")

\* Receiving is the resting state: with nothing running, a node that is up is
\* in receive and the adapter knows it, whatever bodies it could not decode,
\* until ctrl-C or a failed driver call leaves the radio where it was.
RestsReceiving == calm /\ AtRest => mode = "rx" /\ listening

\* While serve's loop turns and holds still drain, a raised DIO line the adapter
\* listens to is always lowered again: nothing stays in the chip for good, even
\* though edges may fall while `_collect` declines.  An exception in a turn ends
\* the loop, and one in a last poll leaves every later hold an inner one.
Served == serving = "on" /\ ~slipped /\ listening
Drained == Served /\ flags # {} ~> flags = {} \/ ~Served

=============================================================================
