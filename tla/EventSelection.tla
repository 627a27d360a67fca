--------------------------- MODULE EventSelection ---------------------------
(***************************************************************************)
(* The bounded event stream of a report (bundle.py): from the events of a  *)
(* recording at most MaxEvents are kept.  The budget is divided between    *)
(* the semantic kinds and the diagnostic ones (func.), then between the    *)
(* kinds of each class, and every kind is sampled systematically.          *)
(* `raw' is fixed before the one pass over the events; the pass sees them  *)
(* in any order in which the kinds first occur as in `order'.              *)
(***************************************************************************)
EXTENDS Integers, Sequences, FiniteSetsExt

CONSTANTS
  Semantic, Diagnostic,  \* kinds of normalized events, kinds func.*
  MaxEvents,             \* MAX_EVENTS
  MinSpare,              \* MIN_SPARE_EVENTS
  MinKind,               \* MIN_KIND_EVENTS
  Most                   \* bound: events of one kind

ASSUME SelectionAssumption ==
  /\ Semantic \cap Diagnostic = {} /\ IsFiniteSet(Semantic \cup Diagnostic)
  /\ {MaxEvents, MinSpare, MinKind, Most} \subseteq Nat \ {0}

Kind == Semantic \cup Diagnostic

VARIABLES
  raw,     \* raw_kinds: how many events of each kind there are
  order,   \* the kinds in the order in which a Counter lists them
  seen,    \* seen_by_kind
  kept     \* the positions, within its kind, of the chosen events

vars == <<raw, order, seen, kept>>

Init ==
  /\ raw \in [Kind -> 0..Most]
  /\ LET present == {k \in Kind : raw[k] > 0}
     IN order \in {s \in [1..Cardinality(present) -> present] :
                     {s[i] : i \in DOMAIN s} = present}
  /\ seen = [k \in Kind |-> 0]
  /\ kept = [k \in Kind |-> {}]

---------------------------------------------------------------------------
(* _kind_budgets                                                            *)

Place(k) == CHOOSE i \in DOMAIN order : order[i] = k
Earlier(S, k) == {j \in S : Place(j) < Place(k)}
Total(S, f) == MapThenSumSet(LAMBDA k : f[k], S)

\* The kinds S, all of which occur, share `budget': each is first given the floor,
FloorOf(S, budget) == Min({MinKind, budget \div Cardinality(S)})
BaseOf(S, budget) == [k \in S |-> Min({raw[k], FloorOf(S, budget)})]
ResidualOf(S, budget) == [k \in S |-> raw[k] - BaseOf(S, budget)[k]]

\* A mutant of QuotaOf that rounds every share on its own.
QuotaRounded(S, budget, k) ==
  LET base == BaseOf(S, budget)
      residual == ResidualOf(S, budget)
      all == Total(S, residual)
  IN IF FloorOf(S, budget) = 0
       THEN IF Cardinality(Earlier(S, k)) < budget THEN 1 ELSE 0
     ELSE IF all = 0 THEN base[k]
     ELSE base[k] + (residual[k] * (budget - Total(S, base))) \div all

\* then the rest goes to the kinds in proportion to what they have left: the
\* quotas are differences of one rounded-down running total.
QuotaOf(S, budget, k) ==
  LET base == BaseOf(S, budget)
      residual == ResidualOf(S, budget)
      remaining == budget - Total(S, base)
      all == Total(S, residual)
      upTo == Total(Earlier(S, k), residual)
  IN IF FloorOf(S, budget) = 0
       THEN IF Cardinality(Earlier(S, k)) < budget THEN 1 ELSE 0
     ELSE IF all = 0 THEN base[k]
     ELSE base[k] + ((upTo + residual[k]) * remaining) \div all
                  - (upTo * remaining) \div all

---------------------------------------------------------------------------
(* _event_selection                                                         *)

Occurring(S) == {k \in S : raw[k] > 0}
PriorityRaw == Total(Semantic, raw)
SpareRaw == Total(Diagnostic, raw)
Applied == PriorityRaw + SpareRaw > MaxEvents

ReservedSpare == Min({MinSpare, SpareRaw, MaxEvents})
PriorityBudget == Min({PriorityRaw, MaxEvents - ReservedSpare})
Room == MaxEvents - PriorityBudget

Quota(k) ==
  IF k \in Semantic THEN QuotaOf(Occurring(Semantic), PriorityBudget, k)
  ELSE QuotaOf(Occurring(Diagnostic), Min({Room, SpareRaw}), k)

Retain(k) ==
  LET n == seen[k]  q == Quota(k)  total == raw[k]
  IN IF n = 0 THEN q > 0
     ELSE /\ q > 1
          /\ (n * (q - 1)) \div (total - 1) > ((n - 1) * (q - 1)) \div (total - 1)

\* The next event of the pass is of kind k.
Event(k) ==
  /\ seen[k] < raw[k]
  /\ seen[k] = 0 => \A j \in Kind : raw[j] > 0 /\ Place(j) < Place(k) => seen[j] > 0
  /\ seen' = [seen EXCEPT ![k] = @ + 1]
  /\ kept' = IF ~Applied \/ Retain(k) THEN [kept EXCEPT ![k] = @ \cup {seen[k]}] ELSE kept
  /\ UNCHANGED <<raw, order>>

Done == \A k \in Kind : seen[k] = raw[k]

Next == \E k \in Kind : Event(k)

Spec == Init /\ [][Next]_vars

---------------------------------------------------------------------------
(* Properties.                                                              *)

Kept == [k \in Kind |-> Cardinality(kept[k])]

AllPlacesUsed == Total(Kind, Kept) = Min({MaxEvents, PriorityRaw + SpareRaw})

RareKindsWhole ==
  /\ \A k \in Occurring(Semantic) :
       raw[k] <= FloorOf(Occurring(Semantic), PriorityBudget) => Kept[k] = raw[k]
  /\ \A k \in Occurring(Diagnostic) :
       raw[k] <= FloorOf(Occurring(Diagnostic), Room) => Kept[k] = raw[k]

ReserveKept ==
  Total(Semantic, Kept) < PriorityRaw =>
    Total(Diagnostic, Kept) = Min({MinSpare, SpareRaw, MaxEvents})

\* The first and the last event, and no gap longer than needed.
EvenSample(k) ==
  /\ {0, raw[k] - 1} \subseteq kept[k]
  /\ \A n \in kept[k] \ {raw[k] - 1} :
       \E x \in kept[k] : n < x /\ (x - n - 1) * (Kept[k] - 1) < raw[k] - 1

\* The places of the report are shared out fairly and to the last one: there are
\* MaxEvents of them or one for every event; a kind with no more events than an
\* equal share, and no more than MinKind, loses none; a semantic event is
\* dropped only while the diagnostic ones have just their reserve; and what is
\* kept of a kind spans the whole recording evenly.
SelectionIsFair ==
  Done => /\ AllPlacesUsed
          /\ Applied => RareKindsWhole /\ ReserveKept
          /\ \A k \in Kind : Kept[k] > 1 => EvenSample(k)
=============================================================================
