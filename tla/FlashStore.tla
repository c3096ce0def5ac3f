-------------------------------- MODULE FlashStore --------------------------------
(***************************************************************************)
(* What the users of the QSPI flash may rely on: a call changes or reads    *)
(* the pages it names, in order, and returns.  When the program or the      *)
(* power stops, the change at hand may still happen, or leave its pages     *)
(* torn, but not after the next call has begun.                             *)
(***************************************************************************)
EXTENDS Naturals, Sequences

CONSTANTS
  Pages,        \* of the flash
  Contents,     \* of a page
  Write(_, _),  \* content of a page that held the first after the second is written
  Torn          \* content of a page whose change was cut off

VARIABLES
  up,      \* the flash is ready for calls
  mem,     \* its contents
  todo,    \* the changes and reads still to do for the call
  busy,    \* there is a call
  orphan,  \* the change that an interrupted call left at work, if any
  result   \* of the last read

storeVars == <<up, mem, todo, busy, orphan, result>>

\* A step of a call reads a page or writes a value to some.
Steps == [pages : SUBSET Pages, val : Contents \cup {"read"}]

Applied(m, s) == [p \in Pages |-> IF p \in s.pages THEN Write(m[p], s.val) ELSE m[p]]
TornBy(m, s)  == [p \in Pages |-> IF p \in s.pages THEN Torn ELSE m[p]]

Changes(s) == {x \in {s[i] : i \in DOMAIN s} : x.val # "read"}
FirstChange(s) == IF s = <<>> THEN {} ELSE Changes(<<Head(s)>>)

Init ==
  /\ up = FALSE /\ busy = FALSE /\ todo = <<>> /\ orphan = {}
  /\ mem \in [Pages -> Contents] /\ result \in Contents

GetReady == ~up /\ up' = TRUE /\ UNCHANGED <<mem, todo, busy, orphan, result>>

Begin ==
  /\ up /\ ~busy /\ busy' = TRUE
  /\ todo' \in Seq(Steps) /\ orphan' = {}
  /\ UNCHANGED <<up, mem, result>>

Perform ==
  /\ todo # <<>> /\ todo' = Tail(todo)
  /\ IF Head(todo).val = "read"
     THEN /\ UNCHANGED mem
          /\ \E p \in Head(todo).pages : result' = mem[p]
     ELSE mem' = Applied(mem, Head(todo)) /\ UNCHANGED result
  /\ UNCHANGED <<up, busy, orphan>>

Return ==
  /\ busy /\ todo = <<>> /\ busy' = FALSE
  /\ UNCHANGED <<up, mem, todo, orphan, result>>

\* The program stops; the change it was at goes on.
Stop ==
  /\ up' = FALSE /\ busy' = FALSE /\ todo' = <<>>
  /\ orphan' \in {{}, orphan, FirstChange(todo)}
  /\ UNCHANGED <<mem, result>>

Late ==
  /\ orphan # {} /\ orphan' = {}
  /\ \E s \in orphan : mem' = Applied(mem, s)
  /\ UNCHANGED <<up, todo, busy, result>>

\* The power goes, and with it the change at work.
LosePower ==
  /\ up' = FALSE /\ busy' = FALSE /\ todo' = <<>> /\ orphan' = {}
  /\ \/ UNCHANGED mem
     \/ \E s \in orphan \cup FirstChange(todo) : mem' = TornBy(mem, s)
  /\ UNCHANGED result

Next == GetReady \/ Begin \/ Perform \/ Return \/ Stop \/ Late \/ LosePower

Safety == Init /\ [][Next]_storeVars

\* Whatever stops programs comes to an end, so that the flash is ready again and
\* again, and every call returns.
Returning == []<>up /\ []<>~busy

Spec == Safety /\ Returning
=============================================================================
