--------------------------- MODULE CatalogCache ---------------------------
(***************************************************************************)
(* What the local copy of the catalogue promises to the screens that read  *)
(* it: while the application is open the copy is one whole catalogue and   *)
(* does not change, and a later opening never shows an older catalogue.    *)
(***************************************************************************)
EXTENDS Naturals

CONSTANT MaxVersion

VARIABLES
  content,  \* version of the copy, 0 when there is none that is whole
  open,     \* the application is open
  shown     \* version of the copy when the application was last opened

vars == <<content, open, shown>>

Init == content = 0 /\ ~open /\ shown = 0

Tear == ~open /\ content' = 0 /\ UNCHANGED <<open, shown>>

Install == /\ ~open /\ content = 0
           /\ content' \in shown..MaxVersion
           /\ UNCHANGED <<open, shown>>

Open == /\ ~open /\ content > 0 /\ content >= shown
        /\ open'
        /\ shown' = content
        /\ UNCHANGED content

Close == open /\ ~open' /\ UNCHANGED <<content, shown>>

Next == Tear \/ Install \/ Open \/ Close

Spec == Init /\ [][Next]_vars
==========================================================================
