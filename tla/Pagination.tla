------------------------------ MODULE Pagination ------------------------------
(***************************************************************************)
(* `pages` of the generated client: it walks the pages of an operation by  *)
(* a cursor, an offset or a page number, yields a page before it looks for *)
(* the next one, and stops when the server goes round on the spot.         *)
(*                                                                         *)
(* The server has the items 1..total, all different, and answers at most   *)
(* PageSize of them.  Asked for a position past the end it answers none    *)
(* or, when it `clamps`, its last page.  The cursor p stands for the items *)
(* after p; `next` is the cursor the server sends along with a page.       *)
(***************************************************************************)
EXTENDS Naturals, Sequences

CONSTANTS MaxTotal, PageSize, NoPage

ASSUME PaginationAssumption ==
  MaxTotal \in Nat /\ PageSize \in Nat \ {0} /\ NoPage \notin Nat \cup Seq(Nat)

VARIABLES
  style,     (* "cursor", "offset", "page"                            *)
  total, clamps, next,   (* the server                                *)
  position,  (* the position or the cursor of the next request         *)
  page,      (* the items of the page at hand, NoPage while there is none *)
  previous,  (* previousItems                                         *)
  walk,      (* "asking", "yielded", "done", "stuck" (did not advance), "error" *)
  out        (* history: the items that an honest server's pages yielded *)

server == <<style, total, clamps, next>>
walkVars == <<server, position, page, previous, walk, out>>

Least(a, b) == IF a < b THEN a ELSE b
After(p) == [i \in 1..Least(PageSize, total - Least(p, total)) |-> p + i]

\* Where the last page that is not empty starts.
LastStart == IF total = 0 THEN 0 ELSE ((total - 1) \div PageSize) * PageSize

\* The page a server answers a request with.
PageAt(p) ==
  LET start == IF style = "page" THEN (p - 1) * PageSize ELSE p
  IN After(IF style # "cursor" /\ clamps /\ start >= total THEN LastStart ELSE start)

\* An honest server's cursors; another one has one that leads elsewhere.
Honest(n) == [p \in 0..n |-> IF p + PageSize >= n THEN NoPage ELSE p + PageSize]

PagesInit ==
  /\ style \in {"cursor", "offset", "page"} /\ total \in 0..MaxTotal
  /\ clamps \in (IF style = "cursor" THEN {FALSE} ELSE BOOLEAN)
  /\ \/ next = Honest(total)
     \/ style = "cursor" /\ \E p, q \in 0..total : next = [Honest(total) EXCEPT ![p] = q]
  /\ position = (IF style = "page" THEN 1 ELSE 0)
  /\ page = NoPage /\ previous = NoPage /\ walk = "asking" /\ out = <<>>

\* The request fails, which ends the iteration.
AskFails ==
  /\ walk = "asking" /\ walk' = "error"
  /\ UNCHANGED <<server, position, page, previous, out>>

YieldsPage(p) == walk' = "yielded" /\ page' = p /\ out' = (IF next = Honest(total) THEN out \o p ELSE out)

\* The page arrives; one that repeats the page before is not yielded, except by
\* a cursor, where only the cursor is compared.
Asks ==
  /\ walk = "asking"
  /\ IF style # "cursor" /\ PageAt(position) = previous
     THEN walk' = "stuck" /\ UNCHANGED <<page, out>>
     ELSE YieldsPage(PageAt(position))
  /\ UNCHANGED <<server, position, previous>>

\* Faulty: an offset advances by the size of a full page.
AdvanceBySize ==
  IF page = <<>> THEN walk' = "done" /\ UNCHANGED <<position, previous>>
  ELSE /\ walk' = "asking" /\ previous' = page
       /\ position' = position + (IF style = "page" THEN 1 ELSE PageSize + 1)

\* The next offset or page.
Advance ==
  IF page = <<>> THEN walk' = "done" /\ UNCHANGED <<position, previous>>
  ELSE /\ walk' = "asking" /\ previous' = page
       /\ position' = position + (IF style = "page" THEN 1 ELSE Len(page))


\* The next cursor; one that leads to itself is an error.
Follow ==
  CASE next[position] = NoPage -> walk' = "done" /\ UNCHANGED <<position, previous>>
    [] next[position] = position -> walk' = "stuck" /\ UNCHANGED <<position, previous>>
    [] OTHER -> walk' = "asking" /\ position' = next[position] /\ UNCHANGED previous

\* The consumer asks for the next page.
GoesOn ==
  /\ walk = "yielded"
  /\ IF style = "cursor" THEN Follow ELSE Advance
  /\ UNCHANGED <<server, page, out>>

PagesNext == AskFails \/ Asks \/ GoesOn
\* Requests are answered and the consumer goes on.
PagesTimely == Asks \/ GoesOn
PagesSpec == PagesInit /\ [][PagesNext]_walkVars /\ WF_walkVars(PagesTimely)

------------------------------------------------------------------------------
(* Properties. *)

AllItems == [i \in 1..total |-> i]

\* The consumer gets every item once and in order, also from a server that
\* answers its last page for ever.
EveryItemOnce ==
  next = Honest(total) =>
    /\ Len(out) <= total /\ out = SubSeq(AllItems, 1, Len(out))
    /\ walk \in {"done", "stuck"} => out = AllItems

\* The walk ends unless the cursors of the server form a longer circle.
WalkEnds ==
  (\A p \in 0..total : next[p] = NoPage \/ next[p] >= p) => <>(walk \notin {"asking", "yielded"})
==============================================================================
