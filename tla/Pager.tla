------------------------------- MODULE Pager --------------------------------
(***************************************************************************)
(* Paging through a list: the pager below the grid, the offset of the query, *)
(* the API's skip and take, and the number each row is given.                *)
(***************************************************************************)
EXTENDS Integers, FiniteSets

CONSTANTS
  PageSize,     \* ITEMSIZE
  ButtonCount,  \* pageButtonCount
  Window,       \* rows that the pager reaches: 10000
  MaxOffset,    \* PAGINATION_MAX_OFFSET of the API
  Totals        \* bound: sizes of the list

ASSUME PagerAssumption ==
  /\ PageSize \in Nat \ {0} /\ ButtonCount \in Nat \ {0} /\ MaxOffset \in Nat
  /\ Window \in Nat /\ Window >= PageSize /\ Window % PageSize = 0
  /\ Totals \subseteq Nat

VARIABLES
  size,     \* rows of the list, in the database
  current,  \* 1 + filter.offset / ITEMSIZE
  answer    \* what the query of this page has brought, or NoData
pagerVars == <<size, current, answer>>

NoData == [total |-> 0, first |-> 0, count |-> 0]
Lesser(a, b) == IF a <= b THEN a ELSE b
Greater(a, b) == IF a >= b THEN a ELSE b
Offset(p) == (p - 1) * PageSize

\* findAll: where, skip and take; a transaction counts as well.
FindAllRows(p) ==
  LET skip == Offset(p) IN
  [total |-> size, first |-> skip, count |-> Greater(0, Lesser(PageSize, size - skip))]

\* applyOffsetRowData: the numbers of the rows on the screen.
Numbers(a) == a.first + 1 .. a.first + a.count

-----------------------------------------------------------------------------
(* TxAgGridPagination, of the total that the query has brought *)

\* Mutant of TotalPages: the last page, which is not full, is forgotten.
TotalPagesFull(total) == Lesser(total \div PageSize, Window \div PageSize)

TotalPages(total) == Lesser((total + PageSize - 1) \div PageSize, Window \div PageSize)

GroupStart(p) == ((p - 1) \div ButtonCount) * ButtonCount + 1
GroupEnd(p, total) == Lesser(TotalPages(total), GroupStart(p) + ButtonCount - 1)
ButtonsOf(p, total) == GroupStart(p) .. GroupEnd(p, total)

CanMovePage(p, d, total) == p + d >= 1 /\ p + d <= TotalPages(total)
\* A group without a button has no start and no end to compare with.
CanMovePageGroup(p, d, total) ==
  /\ ButtonsOf(p, total) # {}
  /\ IF d > 0 THEN GroupEnd(p, total) < TotalPages(total) ELSE GroupStart(p) > 1
GroupTarget(p, d, total) == Greater(1, Lesser(p + d, TotalPages(total)))

\* Where the buttons that can be clicked lead; the grid shows the pager only for
\* more than a page.
Targets(p, total) ==
  IF total <= PageSize THEN {}
  ELSE ButtonsOf(p, total)
         \cup {p + d : d \in {x \in {-1, 1} : CanMovePage(p, x, total)}}
         \cup {GroupTarget(p, d, total) : d \in {x \in {-ButtonCount, ButtonCount} : CanMovePageGroup(p, x, total)}}

-----------------------------------------------------------------------------
PagerInit == size \in Totals /\ current = 1 /\ answer = NoData

\* A page beyond MaxOffset is refused, and the grid stays empty.
Query ==
  /\ answer' = IF Offset(current) <= MaxOffset THEN FindAllRows(current) ELSE NoData
  /\ UNCHANGED <<size, current>>

\* handleChangePage and onChangePage: another offset is another query.
ChangePage ==
  /\ \E p \in Targets(current, answer.total) : p # current /\ current' = p
  /\ answer' = NoData
  /\ UNCHANGED size

\* Another choice of partner, status or search text: offset 0.
ChangeFilter == size' \in Totals /\ current' = 1 /\ answer' = NoData

\* Rows come and go.
ListGrows == size' \in Totals /\ UNCHANGED <<current, answer>>

PagerNext == Query \/ ChangePage \/ ChangeFilter \/ ListGrows
PagerSpec == PagerInit /\ [][PagerNext]_pagerVars

-----------------------------------------------------------------------------
PagerTypeOK ==
  /\ size \in Totals
  /\ current \in 1 .. Window \div PageSize
  /\ answer \in [total : Nat, first : Nat, count : 0 .. PageSize]

\* As long as the page on the screen is one the list has: the pages number the
\* rows of the window 1, 2, 3 ... with none left out and none twice, the page
\* shows those of its numbers, and from it every other page comes nearer with some
\* button and no button leads outside.
PagerReaches ==
  LET total == answer.total
      last == TotalPages(total)
      rowsOf(p) == Offset(p) + 1 .. Lesser(Offset(p) + PageSize, total)
      distance(p, q) == IF p > q THEN p - q ELSE q - p IN
  (answer # NoData /\ current <= last) =>
    /\ \A n \in 1 .. Lesser(total, Window) : Cardinality({p \in 1 .. last : n \in rowsOf(p)}) = 1
    /\ Numbers(answer) = rowsOf(current)
    /\ total > PageSize =>
         \A p \in 1 .. last \ {current} :
           \E t \in Targets(current, total) : distance(t, p) < distance(current, p)
    /\ Targets(current, total) \subseteq 1 .. last
=============================================================================
