------------------------- MODULE CompletionProofs -------------------------
(***************************************************************************)
(* Proofs about Completion, for any side tasks, gates, holders of the main *)
(* roles and number of calls under way.                                    *)
(*                                                                         *)
(* The argument goes by rows: every operation maps the rows of the dropbox *)
(* to rows that are sound (Rows) and related to the old ones (Evolves,     *)
(* Grows); what holds of the snapshot, of a call under way and of the end  *)
(* of a session follows from that and from the phase never going back.     *)
(***************************************************************************)
EXTENDS Completion, FiniteSetTheorems, WellFoundedInduction, TLAPS

(***************************************************************************)
(* The top of the appendix.                                                *)
(***************************************************************************)
LEMMA LeastNat ==
    ASSUME NEW S \in SUBSET Nat, S # {}
    PROVE  \E m \in S : \A n \in S : m <= n
<1> DEFINE R == {ss \in Nat \X Nat : ss[1] < ss[2]}
<1>1. IsWellFoundedOn(R, Nat)
  BY NatLessThanWellFounded DEF OpToRel
<1>2. PICK m \in S : \A n \in S : ~ (<<n, m>> \in R)
  <2> HIDE DEF R
  <2> QED
    BY <1>1, WFMin
<1>3. \A n \in S : n < m => <<n, m>> \in R
  OBVIOUS
<1>4. \A n \in S : ~(n < m)
  BY <1>2, <1>3
<1> QED
  BY <1>4

Bounded(ds) == \E n \in Nat : \A d \in Drops : ds[d].position <= n

\* The least upper bound of the positions is 0 or one of them.
LEMMA TopIsMax ==
    ASSUME NEW ds, \A d \in Drops : ds[d].position \in Nat, Bounded(ds)
    PROVE  Top(ds) \in Nat /\ \A d \in Drops : ds[d].position <= Top(ds)
<1> DEFINE U == {n \in Nat : \A d \in Drops : ds[d].position <= n}
           P == {0} \cup {ds[d].position : d \in Drops}
<1>1. U \in SUBSET Nat /\ U # {}
  BY DEF Bounded
<1>2. PICK m \in U : \A n \in U : m <= n
  <2> HIDE DEF U
  <2> QED
    BY <1>1, LeastNat
<1>3. m \in P
  <2>1. SUFFICES ASSUME m \notin P
                 PROVE  FALSE
    OBVIOUS
  <2>2. m \in Nat /\ m > 0
    BY <2>1
  <2>3. \A d \in Drops : ds[d].position <= m - 1
    BY <1>2, <2>1, <2>2
  <2>4. m - 1 \in U
    BY <2>2, <2>3
  <2> QED
    BY <1>2, <2>2, <2>4
<1>4. \E n \in P : \A d \in Drops : ds[d].position <= n
  BY <1>2, <1>3
<1>5. Top(ds) \in P /\ \A d \in Drops : ds[d].position <= Top(ds)
  BY <1>4 DEF Top
<1> QED
  BY <1>5

\* The place of d among the items that are ready.
LEMMA RankType ==
    ASSUME NEW S \in SUBSET Drops, NEW d \in S
    PROVE  /\ Cardinality({e \in S : e <= d}) \in Nat \ {0}
           /\ Cardinality({e \in S : e <= d}) <= Cardinality(Drops)
<1> DEFINE T == {e \in S : e <= d}
<1>1. T \subseteq Drops /\ d \in T
  <2>1. S \subseteq Drops /\ d \in Nat
    BY DropsAssumption
  <2>2. d <= d
    BY <2>1
  <2> QED
    BY <2>1, <2>2
<1>2. IsFiniteSet(T) /\ Cardinality(T) <= Cardinality(Drops)
  BY <1>1, DropsAssumption, FS_Subset
<1>3. Cardinality(T) \in Nat /\ T # {}
  BY <1>1, <1>2, FS_CardinalityType
<1>4. Cardinality(T) # 0
  BY <1>2, <1>3, FS_EmptySet
<1> QED
  BY <1>2, <1>3, <1>4

(***************************************************************************)
(* Rows of the dropbox.                                                    *)
(***************************************************************************)
Settled == Evaluable \cup {"evaluated"}

\* A verdict is about the proposal the row holds, a proposal that can be approved
\* had its review, and an approval says so of both.
Sound(x) ==
    /\ \A s \in Slots : x.verdict[s] # None => x.status \in Settled /\ x.verdict[s].over = x.proposal
    /\ x.status \in {"reviewing", "proposed"} => x.proposal > 0
    /\ x.status = "proposed" => x.reviewed \/ x.skip
    /\ x.disposition = "approved" =>
          /\ x.proposal > 0 /\ x.status = "evaluated" /\ (x.reviewed \/ x.skip)
          /\ \A s \in Slots : x.verdict[s] = [says |-> "approve", over |-> x.proposal]
    /\ x.status = "evaluated" => x.position > 0

Rows(ds) == ds \in [Drops -> Drop] /\ Bounded(ds) /\ \A d \in Drops : Sound(ds[d])

\* What no operation undoes in a row.
Evolves(x, y) ==
    /\ x.disposition # None => y.disposition = x.disposition /\ y.verdict = x.verdict
    /\ x.status # "absent" => y.status # "absent"
    /\ x.status \in Settled => y.status \in Settled
    /\ x.position > 0 => y.position = x.position

Grows(ds, es) ==
    \A d \in Drops : ds[d].position = 0 /\ es[d].position > 0 =>
        \A e \in Drops : ds[e].position < es[d].position

LEMMA ReconcileRows ==
    ASSUME NEW ds, Rows(ds)
    PROVE  /\ Rows(Reconcile(ds))
           /\ Grows(ds, Reconcile(ds))
           /\ \A d \in Drops :
                 /\ Reconcile(ds)[d] = [ds[d] EXCEPT !.position = Reconcile(ds)[d].position]
                 /\ Evolves(ds[d], Reconcile(ds)[d])
                 /\ ds[d].status \in Evaluable => Reconcile(ds)[d].position > 0
<1> DEFINE ready   == {d \in Drops : ds[d].status \in Evaluable /\ ds[d].position = 0}
           rank(d) == Cardinality({e \in ready : e <= d})
           es      == Reconcile(ds)
<1>1. ds \in [Drops -> Drop]
  BY DEF Rows
<1>2. Top(ds) \in Nat /\ \A d \in Drops : ds[d].position <= Top(ds)
  <2>1. \A d \in Drops : ds[d].position \in Nat
    BY <1>1 DEF Drop
  <2> QED
    BY <2>1, TopIsMax DEF Rows
<1>3. \A d \in ready : rank(d) \in Nat \ {0} /\ rank(d) <= Cardinality(Drops)
  <2>1. ready \in SUBSET Drops
    OBVIOUS
  <2> HIDE DEF ready
  <2> QED
    BY <2>1, RankType
<1>4. \A d \in Drops : es[d] = IF d \in ready
                               THEN [ds[d] EXCEPT !.position = Top(ds) + rank(d)] ELSE ds[d]
  BY DEF Reconcile
<1>5. es = [d \in Drops |-> es[d]]
  BY DEF Reconcile
<1>6. Cardinality(Drops) \in Nat
  BY DropsAssumption, FS_CardinalityType
<1> HIDE DEF rank, es
<1>7. \A d \in Drops :
         /\ es[d] \in Drop
         /\ es[d] = [ds[d] EXCEPT !.position = es[d].position]
         /\ es[d].position <= Top(ds) + Cardinality(Drops)
         /\ d \notin ready => es[d] = ds[d]
         /\ d \in ready => es[d].position > Top(ds)
  <2> SUFFICES ASSUME NEW d \in Drops
               PROVE  /\ es[d] \in Drop
                      /\ es[d] = [ds[d] EXCEPT !.position = es[d].position]
                      /\ es[d].position <= Top(ds) + Cardinality(Drops)
                      /\ d \notin ready => es[d] = ds[d]
                      /\ d \in ready => es[d].position > Top(ds)
    OBVIOUS
  <2>1. ds[d] \in Drop
    BY <1>1
  <2>2. CASE d \in ready
    <3>1. rank(d) \in Nat \ {0} /\ rank(d) <= Cardinality(Drops)
      BY <1>3, <2>2
    <3>2. es[d] = [ds[d] EXCEPT !.position = Top(ds) + rank(d)]
      BY <1>4, <2>2
    <3> HIDE DEF ready
    <3> QED
      BY <1>2, <1>6, <2>1, <2>2, <3>1, <3>2 DEF Drop
  <2>3. CASE d \notin ready
    <3>1. es[d] = ds[d]
      BY <1>4, <2>3
    <3> HIDE DEF ready
    <3> QED
      BY <1>2, <1>6, <2>1, <2>3, <3>1 DEF Drop
  <2> QED
    BY <2>2, <2>3
<1>8. es \in [Drops -> Drop] /\ Bounded(es)
  <2>1. Top(ds) + Cardinality(Drops) \in Nat
    BY <1>2, <1>6
  <2> HIDE DEF ready
  <2> QED
    BY <1>5, <1>7, <2>1 DEF Bounded
<1>9. \A d \in Drops : Sound(es[d])
  <2> SUFFICES ASSUME NEW d \in Drops
               PROVE  Sound(es[d])
    OBVIOUS
  <2>1. Sound(ds[d]) /\ ds[d] \in Drop
    BY DEF Rows
  <2>2. es[d] = [ds[d] EXCEPT !.position = es[d].position]
    BY <1>7
  <2>3. ds[d].status = "evaluated" => es[d] = ds[d]
    BY <1>7 DEF Evaluable
  <2> QED
    BY <2>1, <2>2, <2>3 DEF Sound, Drop
<1>10. Grows(ds, es)
  <2> SUFFICES ASSUME NEW d \in Drops, ds[d].position = 0, es[d].position > 0, NEW e \in Drops
               PROVE  ds[e].position < es[d].position
    BY DEF Grows
  <2>1. es[d].position > Top(ds)
    <3>1. es[d] # ds[d]
      OBVIOUS
    <3> QED
      BY <1>7, <3>1
  <2>2. ds[e].position <= Top(ds) /\ ds[e].position \in Nat /\ es[d].position \in Nat
    BY <1>1, <1>2, <1>8 DEF Drop
  <2> QED
    BY <1>2, <2>1, <2>2
<1>11. \A d \in Drops : Evolves(ds[d], es[d]) /\ (ds[d].status \in Evaluable => es[d].position > 0)
  <2> SUFFICES ASSUME NEW d \in Drops
               PROVE  Evolves(ds[d], es[d]) /\ (ds[d].status \in Evaluable => es[d].position > 0)
    OBVIOUS
  <2>1. ds[d] \in Drop /\ es[d] \in Drop /\ es[d] = [ds[d] EXCEPT !.position = es[d].position]
    BY <1>1, <1>7
  <2>2. d \in ready => es[d].position > Top(ds)
    BY <1>7
  <2>3. d \notin ready => es[d] = ds[d]
    BY <1>7
  <2> QED
    BY <1>2, <2>1, <2>2, <2>3 DEF Evolves, Drop
<1> QED
  BY <1>7, <1>8, <1>9, <1>10, <1>11 DEF Rows, es

Step(ds, es) ==
    Rows(es) /\ Grows(ds, es) /\ \A d \in Drops : Evolves(ds[d], es[d])

\* A change of rows that leaves the appendix alone, followed by a reconcile or not.
LEMMA ChangeRows ==
    ASSUME NEW ds, Rows(ds), NEW es \in [Drops -> Drop],
           \A d \in Drops : /\ Sound(es[d]) /\ Evolves(ds[d], es[d])
                            /\ es[d].position = ds[d].position
    PROVE  /\ Step(ds, es) /\ Step(ds, Reconcile(es)) /\ Step(ds, ReconcileIfOpen(es))
           /\ \A d \in Drops : Reconcile(es)[d].status = es[d].status
                               /\ ReconcileIfOpen(es)[d].status = es[d].status
<1>1. Rows(es) /\ Grows(ds, es)
  BY DEF Rows, Bounded, Grows, Drop
<1> DEFINE fs == Reconcile(es)
<1>2. /\ Rows(fs) /\ Grows(es, fs)
      /\ \A d \in Drops : fs[d] = [es[d] EXCEPT !.position = fs[d].position] /\ Evolves(es[d], fs[d])
  BY <1>1, ReconcileRows
<1> HIDE DEF fs
<1>3. Grows(ds, fs)
  BY <1>2 DEF Grows
<1>4. \A d \in Drops : Evolves(ds[d], fs[d])
  <2> SUFFICES ASSUME NEW d \in Drops
               PROVE  Evolves(ds[d], fs[d])
    OBVIOUS
  <2>1. Evolves(ds[d], es[d]) /\ Evolves(es[d], fs[d]) /\ es[d].position = ds[d].position
    BY <1>2
  <2> QED
    BY <2>1 DEF Evolves
<1>5. \A d \in Drops : fs[d].status = es[d].status
  <2> SUFFICES ASSUME NEW d \in Drops
               PROVE  fs[d].status = es[d].status
    OBVIOUS
  <2>1. es[d] \in Drop /\ fs[d] = [es[d] EXCEPT !.position = fs[d].position]
    BY <1>2
  <2> QED
    BY <2>1 DEF Drop
<1> QED
  BY <1>1, <1>2, <1>3, <1>4, <1>5 DEF Step, ReconcileIfOpen, fs

ScoutSound ==
    /\ queued \subseteq Captured(drops)
    /\ scout = Idle \/ scout.item \in Captured(drops)

\* After the original work nothing is captured any more.
NoCapture == phase # "original" =>
                \A d \in Drops : drops[d].status = "absent" => drops'[d].status = "absent"

RowStep == Step(drops, drops') /\ NoCapture

\* An operation that rewrites one row.
LEMMA ChangeRow ==
    ASSUME TypeOK, Rows(drops), NEW d \in Drops, NEW y \in Drop,
           Sound(y), Evolves(drops[d], y), y.position = drops[d].position,
           NEW es, es = [drops EXCEPT ![d] = y], drops' \in {es, Reconcile(es), ReconcileIfOpen(es)},
           drops[d].status # "absent" \/ phase = "original"
    PROVE  RowStep
<1>1. es \in [Drops -> Drop] /\ \A e \in Drops : es[e] = IF e = d THEN y ELSE drops[e]
  BY DEF TypeOK
<1>2. \A e \in Drops : /\ Sound(es[e]) /\ Evolves(drops[e], es[e])
                       /\ es[e].position = drops[e].position
  BY <1>1 DEF Rows, Evolves
<1>3. /\ Step(drops, es) /\ Step(drops, Reconcile(es)) /\ Step(drops, ReconcileIfOpen(es))
      /\ \A e \in Drops : Reconcile(es)[e].status = es[e].status
                          /\ ReconcileIfOpen(es)[e].status = es[e].status
  BY <1>1, <1>2, ChangeRows
<1>4. \A e \in Drops : drops'[e].status = es[e].status
  BY <1>3
<1> QED
  BY <1>1, <1>3, <1>4 DEF RowStep, NoCapture

\* Rows that no operation touched.
LEMMA SameRows ==
    ASSUME Rows(drops), drops' = drops
    PROVE  RowStep
BY DEF RowStep, Step, NoCapture, Grows, Evolves, Rows

LEMMA CaptureRows ==
    ASSUME TypeOK, Rows(drops), NEW d \in Drops, NEW skip \in BOOLEAN, NEW wired \in BOOLEAN,
           Capture(d, skip, wired)
    PROVE  RowStep
<1> DEFINE x == drops[d]
           y == [x EXCEPT !.status = "captured", !.skip = skip]
           es == [drops EXCEPT ![d] = y]
<1>1. x \in Drop /\ Sound(x) /\ x.status = "absent" /\ phase = "original"
  BY DEF Rows, Capture
<1>2. y \in Drop /\ y.position = x.position
  BY <1>1 DEF Drop
<1>3. Sound(y) /\ Evolves(x, y)
  BY <1>1, NoneAssumption DEF Sound, Evolves, Drop, Settled, Evaluable
<1>4. drops' = Reconcile(es)
  BY DEF Capture, TypeOK
<1> HIDE DEF y, es
<1> QED
  BY <1>1, <1>2, <1>3, <1>4, ChangeRow DEF es

\* An operation on the item that the worker holds.
LEMMA ScoutRows ==
    ASSUME TypeOK, Rows(drops), ScoutSound,
           \/ BeginInvestigation \/ DepositProposal \/ RecordReview
           \/ \E kind \in {"failed", "timed_out"} : InvestigationFails(kind)
    PROVE  RowStep
<1> DEFINE d == scout.item
           x == drops[d]
<1>1. d \in Drops /\ x \in Drop /\ Sound(x) /\ x.status # "absent"
  BY DEF ScoutSound, Captured, Rows, BeginInvestigation, DepositProposal, RecordReview,
         InvestigationFails, Idle
<1>2. ASSUME BeginInvestigation, x.status = "captured"
      PROVE  RowStep
  <2> DEFINE y == [x EXCEPT !.status = "investigating"]
             es == [drops EXCEPT ![d] = y]
  <2>1. y \in Drop /\ y.position = x.position /\ Sound(y) /\ Evolves(x, y)
    BY <1>1, <1>2 DEF Drop, Sound, Evolves, Settled, Evaluable
  <2>2. drops' = es
    BY <1>1, <1>2 DEF BeginInvestigation, TypeOK
  <2> HIDE DEF y, es, d
  <2> QED
    BY <1>1, <2>1, <2>2, ChangeRow DEF es
<1>3. ASSUME DepositProposal, x.status = "investigating"
      PROVE  RowStep
  <2> DEFINE st == IF x.skip THEN "proposed" ELSE "reviewing"
             n  == x.proposal + 1
             y  == [x EXCEPT !.status = st, !.proposal = n]
             es == [drops EXCEPT ![d] = y]
  <2>0. n \in Nat /\ n > 0
    BY <1>1 DEF Drop
  <2>1. y \in Drop /\ y.position = x.position /\ y.proposal = n /\ y.status = st
    <3> HIDE DEF x, n
    <3> QED
      BY <1>1, <2>0 DEF Drop
  <2>2. Sound(y) /\ Evolves(x, y)
    BY <1>1, <1>3, <2>0, <2>1 DEF Drop, Sound, Evolves, Settled, Evaluable
  <2>3. drops' \in {es, ReconcileIfOpen(es)}
    BY <1>1, <1>3 DEF DepositProposal, TypeOK
  <2> HIDE DEF y, es, d
  <2> QED
    BY <1>1, <2>1, <2>2, <2>3, ChangeRow DEF es
<1>4. ASSUME RecordReview, x.status = "reviewing"
      PROVE  RowStep
  <2> DEFINE y == [x EXCEPT !.status = "proposed", !.reviewed = TRUE]
             es == [drops EXCEPT ![d] = y]
  <2>1. y \in Drop /\ y.position = x.position /\ Sound(y) /\ Evolves(x, y)
    BY <1>1, <1>4 DEF Drop, Sound, Evolves, Settled, Evaluable
  <2>2. drops' = ReconcileIfOpen(es)
    BY <1>1, <1>4 DEF RecordReview, TypeOK
  <2> HIDE DEF y, es, d
  <2> QED
    BY <1>1, <2>1, <2>2, ChangeRow DEF es
<1>5. ASSUME NEW kind \in {"failed", "timed_out"}, InvestigationFails(kind),
             x.disposition = None, x.status # "evaluated"
      PROVE  RowStep
  <2> DEFINE y == [x EXCEPT !.status = kind]
             es == [drops EXCEPT ![d] = y]
  <2>1. y \in Drop /\ y.position = x.position /\ Sound(y) /\ Evolves(x, y)
    BY <1>1, <1>5, NoneAssumption DEF Drop, Sound, Evolves, Settled, Evaluable, Disposition
  <2>2. drops' = ReconcileIfOpen(es)
    BY <1>1, <1>5 DEF InvestigationFails, MarkFailed, TypeOK
  <2> HIDE DEF y, es, d
  <2> QED
    BY <1>1, <2>1, <2>2, ChangeRow DEF es
<1>6. \/ drops' = drops
      \/ BeginInvestigation /\ x.status = "captured"
      \/ DepositProposal /\ x.status = "investigating"
      \/ RecordReview /\ x.status = "reviewing"
      \/ \E kind \in {"failed", "timed_out"} :
            InvestigationFails(kind) /\ x.disposition = None /\ x.status # "evaluated"
  BY DEF BeginInvestigation, DepositProposal, RecordReview, InvestigationFails, MarkFailed
<1> QED
  BY <1>2, <1>3, <1>4, <1>5, <1>6, SameRows

\* A call under way is of the kind its op says.
LEMMA CallKind ==
    ASSUME TypeOK, NEW c \in Callers, call[c] # None
    PROVE  /\ call[c] \in Call
           /\ call[c].op = "evaluate" => call[c].drop \in Drops /\ call[c].says \in {"approve", "decline"}
           /\ call[c].op = "report" =>
                 /\ call[c].gate \in Gates /\ call[c].status \in GateStatus \cup {None}
                 /\ call[c].evidence \in (SUBSET Callers) \cup {None} /\ call[c].signs \in SUBSET Slots
           /\ call[c].op = "write" => call[c].gate \in Gates /\ call[c].row \in Gate
           /\ call[c].op \in {"freeze", "extend", "close"} => call[c].force \in BOOLEAN
           /\ call[c].op \in {"freeze", "extend", "close", "restore"} => call[c].had \in BOOLEAN
           /\ call[c].op = "tests" => call[c].meta \in Metadata
<1> DEFINE k == call[c]
<1>1. k \in Call
  BY DEF TypeOK
<1> HIDE DEF k
<1>2. /\ k.op = "evaluate" => k.drop \in Drops /\ k.says \in {"approve", "decline"}
      /\ k.op \in {"freeze", "extend", "close"} => k.force \in BOOLEAN
      /\ k.op \in {"freeze", "extend", "close", "restore"} => k.had \in BOOLEAN
      /\ k.op = "tests" => k.meta \in Metadata
  BY <1>1 DEF Call
<1>3. /\ k.op = "report" =>
            /\ k.gate \in Gates /\ k.status \in GateStatus \cup {None}
            /\ k.evidence \in (SUBSET Callers) \cup {None} /\ k.signs \in SUBSET Slots
      /\ k.op = "write" => k.gate \in Gates /\ k.row \in Gate
  BY <1>1 DEF Call
<1> QED
  BY <1>1, <1>2, <1>3 DEF k

LEMMA EvaluateRows ==
    ASSUME TypeOK, Rows(drops), NEW s \in Slots, Evaluate(s), drops[call[s].drop].position > 0
    PROVE  RowStep
<1> DEFINE d == call[s].drop
           says == call[s].says
           x == drops[d]
           w == [says |-> says, over |-> x.proposal]
           v == [x.verdict EXCEPT ![s] = w]
           both     == \A t \in Slots : v[t] # None
           approved == both /\ \A t \in Slots : v[t].says = "approve"
           disp == IF ~both THEN None ELSE IF approved THEN "approved" ELSE "declined"
           st   == IF both /\ x.status = "proposed" THEN "evaluated" ELSE x.status
           y == [x EXCEPT !.verdict = v, !.disposition = disp, !.status = st]
           es == [drops EXCEPT ![d] = y]
<1>1. d \in Drops /\ says \in {"approve", "decline"} /\ x \in Drop /\ Sound(x)
  BY CallKind DEF Evaluate, Rows, Callers
<1>2. /\ x.disposition = None /\ x.status \in Evaluable
      /\ says = "approve" => x.status = "proposed"
  BY DEF Evaluate, Accepts
<1>3. w \in Verdict /\ v \in [Slots -> Verdict \cup {None}]
  BY <1>1 DEF Drop, Verdict
<1>4. drops' = es
  BY DEF Evaluate, Decide
<1>5. /\ \A t \in Slots : v[t] # None => v[t].over = x.proposal
      /\ v[s] = w
      /\ \A t \in Slots : v[t] # None => v[t] = [says |-> v[t].says, over |-> v[t].over]
  BY <1>1, <1>3 DEF Sound, Drop, Verdict
<1> HIDE DEF v, w
<1>6. st \in Settled /\ disp \in Disposition \cup {None}
  BY <1>2 DEF Settled, Evaluable, Disposition
<1>7. disp = "approved" => /\ st = "evaluated" /\ x.status = "proposed"
                           /\ \A t \in Slots : v[t] = [says |-> "approve", over |-> x.proposal]
  <2> SUFFICES ASSUME disp = "approved"
               PROVE  /\ st = "evaluated" /\ x.status = "proposed"
                      /\ \A t \in Slots : v[t] = [says |-> "approve", over |-> x.proposal]
    OBVIOUS
  <2>1. both /\ approved
    BY NoneAssumption DEF Disposition
  <2>2. v[s].says = "approve" /\ v[s].says = says
    BY <1>5, <2>1 DEF w
  <2>3. x.status = "proposed"
    BY <1>2, <2>2
  <2> QED
    BY <1>5, <2>1, <2>3
<1> HIDE DEF st, disp
<1>8. y \in Drop /\ y.position = x.position
  BY <1>1, <1>3, <1>6 DEF Drop, Settled, Evaluable
<1>9. /\ y.verdict = v /\ y.disposition = disp /\ y.status = st /\ y.proposal = x.proposal
      /\ y.reviewed = x.reviewed /\ y.skip = x.skip
  BY <1>1 DEF Drop
<1>10. Sound(y)
  <2>1. x.status = "proposed" => x.proposal > 0 /\ (x.reviewed \/ x.skip)
    BY <1>1 DEF Sound
  <2>2. st \in {"reviewing", "proposed"} => x.status = "proposed" /\ st = "proposed"
    BY <1>2 DEF st, Evaluable
  <2> HIDE DEF y
  <2> QED
    BY <1>5, <1>6, <1>7, <1>8, <1>9, <2>1, <2>2 DEF Sound
<1>11. Evolves(x, y)
  <2> HIDE DEF y
  <2> QED
    BY <1>2, <1>6, <1>8, <1>9 DEF Evolves, Settled, Evaluable
<1>12. x.status # "absent"
  BY <1>2 DEF Evaluable
<1> HIDE DEF y, es, d
<1> QED
  BY <1>1, <1>4, <1>8, <1>10, <1>11, <1>12, ChangeRow DEF es

\* The cutoff leaves every captured row ready, and the reconcile puts it in the appendix.
LEMMA FreezeRows ==
    ASSUME TypeOK, Rows(drops), NEW c \in Callers, Freeze(c)
    PROVE  /\ RowStep
           /\ \A d \in Captured(drops') : drops'[d].position > 0 /\ drops'[d].status \in Settled
<1> DEFINE es == Cutoff(drops)
           late == {"captured", "investigating", "reviewing"}
<1>1. \A d \in Drops : drops[d] \in Drop /\ Sound(drops[d])
  BY DEF Rows
<1>2. es \in [Drops -> Drop]
  BY <1>1 DEF Cutoff, Drop
<1>3. ASSUME NEW d \in Drops
      PROVE  /\ Sound(es[d]) /\ Evolves(drops[d], es[d]) /\ es[d].position = drops[d].position
             /\ es[d].status # "absent" => es[d].status \in Settled
             /\ es[d].status = "evaluated" => es[d].position > 0
  <2> DEFINE x == drops[d]
  <2>1. CASE x.status \in late
    <3> DEFINE y == [x EXCEPT !.status = "timed_out"]
    <3>1. es[d] = y
      BY <2>1 DEF Cutoff
    <3>2. /\ Sound(y) /\ Evolves(x, y) /\ y.position = x.position
          /\ y.status = "timed_out"
      BY <1>1, <2>1 DEF Drop, Sound, Evolves, Settled, Evaluable
    <3> QED
      BY <2>1, <3>1, <3>2 DEF Settled, Evaluable
  <2>2. CASE x.status \notin late
    <3>1. es[d] = x
      BY <2>2 DEF Cutoff
    <3>2. Evolves(x, x)
      BY DEF Evolves
    <3>3. x.status # "absent" => x.status \in Settled
      BY <1>1, <2>2 DEF Drop, Settled, Evaluable
    <3>4. x.status = "evaluated" => x.position > 0
      BY <1>1 DEF Sound
    <3> QED
      BY <1>1, <3>1, <3>2, <3>3, <3>4
  <2> QED
    BY <2>1, <2>2
<1>4. drops' = Reconcile(es) /\ phase = "original"
  BY DEF Freeze, MayFreeze
<1> HIDE DEF es
<1>5. /\ Step(drops, Reconcile(es))
      /\ \A d \in Drops : Reconcile(es)[d].status = es[d].status
  BY <1>2, <1>3, ChangeRows
<1>6. RowStep
  BY <1>4, <1>5 DEF RowStep, NoCapture
<1>7. Rows(es)
  BY <1>2, <1>3, ChangeRows DEF Step
<1>8. \A d \in Drops : /\ es[d].status \in Evaluable => Reconcile(es)[d].position > 0
                       /\ Evolves(es[d], Reconcile(es)[d])
  BY <1>7, ReconcileRows
<1>9. ASSUME NEW d \in Captured(drops')
      PROVE  drops'[d].position > 0 /\ drops'[d].status \in Settled
  <2>1. d \in Drops /\ es[d].status # "absent" /\ drops'[d].status = es[d].status
    BY <1>4, <1>5 DEF Captured
  <2>2. es[d].status \in Settled
    BY <1>3, <2>1
  <2>3. CASE es[d].status \in Evaluable
    BY <1>4, <1>8, <2>1, <2>2, <2>3
  <2>4. CASE es[d].status = "evaluated"
    BY <1>3, <1>4, <1>8, <2>1, <2>2, <2>4 DEF Evolves
  <2> QED
    BY <2>2, <2>3, <2>4 DEF Settled
<1> QED
  BY <1>6, <1>9

LEMMA CloseRows ==
    ASSUME TypeOK, Rows(drops), NEW c \in Callers, Close(c)
    PROVE  RowStep
<1> DEFINE es == [d \in Drops |-> IF d \in Open(drops)
                                  THEN [drops[d] EXCEPT !.disposition = "waived"] ELSE drops[d]]
<1>1. \A d \in Drops : drops[d] \in Drop /\ Sound(drops[d])
  BY DEF Rows
<1>2. es \in [Drops -> Drop]
  BY <1>1 DEF Drop, Disposition
<1>3. ASSUME NEW d \in Drops
      PROVE  /\ Sound(es[d]) /\ Evolves(drops[d], es[d]) /\ es[d].position = drops[d].position
             /\ es[d].status = drops[d].status
  <2> DEFINE x == drops[d]
  <2>1. CASE d \in Open(drops)
    <3> DEFINE y == [x EXCEPT !.disposition = "waived"]
    <3>1. es[d] = y /\ x.disposition = None
      BY <2>1 DEF Open
    <3>2. Sound(y) /\ Evolves(x, y) /\ y.position = x.position /\ y.status = x.status
      BY <1>1, <3>1 DEF Drop, Sound, Evolves
    <3> QED
      BY <3>1, <3>2
  <2>2. CASE d \notin Open(drops)
    <3>1. es[d] = x
      BY <2>2
    <3>2. Evolves(x, x)
      BY DEF Evolves
    <3> QED
      BY <1>1, <3>1, <3>2
  <2> QED
    BY <2>1, <2>2
<1>4. drops' = es
  BY DEF Close
<1> HIDE DEF es
<1>5. Step(drops, es)
  BY <1>2, <1>3, ChangeRows
<1> QED
  BY <1>3, <1>4, <1>5 DEF RowStep, NoCapture

\* The operations that do not touch the dropbox.
Elsewhere ==
    \/ \E d \in Drops : PickItem(d)
    \/ LoseScout
    \/ \E s \in Slots, d \in Drops, says \in {"approve", "decline"} : BeginEvaluate(s, d, says)
    \/ \E s \in Slots : EvaluateRefused(s)
    \/ \E s \in Slots, g \in Gates, r \in Reports : ReportGate(s, g, r)
    \/ \E g \in Gates, st \in Edits : EditGate(g, st)
    \/ \E g \in Gates : AddGate(g)
    \/ \E S \in Rosters : ReplaceGates(S)
    \/ \E c \in Callers, force \in BOOLEAN : Complete(c, force)
    \/ \E c \in Callers : \/ UpdateGate(c) \/ WriteGate(c) \/ Extend(c)
                         \/ CloseCrash(c) \/ CloseFails(c) \/ RestoreChangelog(c)
                         \/ CompletionRefused(c) \/ Abandon(c)
    \/ Stop \/ StopRoom \/ RunTests \/ WriteTests

LEMMA ElsewhereRows ==
    ASSUME Elsewhere
    PROVE  drops' = drops
BY DEF Elsewhere, PickItem, LoseScout, BeginEvaluate, EvaluateRefused, ReportGate, EditGate, AddGate,
       ReplaceGates, Complete, UpdateGate, WriteGate, Extend, CloseCrash, CloseFails, RestoreChangelog,
       CompletionRefused,
       Abandon, Stop, StopRoom, RunTests, WriteTests

\* The operations on the item that the worker holds.
Scouting ==
    \/ BeginInvestigation \/ DepositProposal \/ RecordReview
    \/ \E kind \in {"failed", "timed_out"} : InvestigationFails(kind)

LEMMA NextCases ==
    ASSUME Next
    PROVE  \/ \E d \in Drops, skip, wired \in BOOLEAN : Capture(d, skip, wired)
           \/ Scouting
           \/ \E s \in Slots : Evaluate(s)
           \/ \E c \in Callers : Freeze(c) \/ Close(c)
           \/ Elsewhere
BY DEF Next, Scouting, Elsewhere

\* Once the original work is over every captured row is in the appendix, with
\* something to judge; once the session is closing every one is decided.
AppendixTotal ==
    /\ phase \in {"evaluation", "extension"} =>
          \A d \in Captured(drops) : drops[d].position > 0 /\ drops[d].status \in Settled
    /\ phase = "closing" => Open(drops) = {}

\* Nobody judges, or asks for extension work, before the original work is over,
\* and extension work is asked for when every item has been decided.
CallsSound ==
    \A c \in Callers : call[c] # None =>
        /\ call[c].op \in {"evaluate", "extend"} => phase # "original"
        /\ call[c].op = "extend" => Open(drops) = {}

Sane == TypeOK /\ Rows(drops) /\ ScoutSound /\ AppendixTotal /\ CallsSound

\* What is judged is in the appendix.
LEMMA JudgedInAppendix ==
    ASSUME Sane, NEW s \in Slots, Evaluate(s)
    PROVE  drops[call[s].drop].position > 0
<1> DEFINE d == call[s].drop
<1>1. d \in Drops /\ s \in Callers
  BY CallKind DEF Evaluate, Sane, Callers
<1>2. d \in Captured(drops) /\ d \in Open(drops)
  BY <1>1 DEF Evaluate, Accepts, Captured, Open, Evaluable
<1>3. phase # "original"
  BY <1>1 DEF Evaluate, Sane, CallsSound
<1>4. phase \in {"evaluation", "extension"}
  BY <1>2, <1>3 DEF Sane, TypeOK, AppendixTotal
<1> QED
  BY <1>2, <1>4 DEF Sane, AppendixTotal

LEMMA RowsStep ==
    ASSUME Sane, [Next]_vars
    PROVE  RowStep
<1> USE DEF Sane
<1>1. CASE Next
  <2>1. ASSUME NEW s \in Slots, Evaluate(s)
        PROVE  RowStep
    BY <2>1, JudgedInAppendix, EvaluateRows
  <2> QED
    BY <1>1, <2>1, NextCases, CaptureRows, ScoutRows, FreezeRows, CloseRows,
       ElsewhereRows, SameRows DEF Scouting
<1>2. CASE UNCHANGED vars
  BY <1>2, SameRows DEF vars
<1> QED
  BY <1>1, <1>2

(***************************************************************************)
(* Types.                                                                  *)
(***************************************************************************)
LEMMA BeginType ==
    ASSUME TypeOK, NEW c \in Callers, NEW k \in Call, Begin(c, k)
    PROVE  call' \in [Callers -> Call \cup {None}]
BY DEF TypeOK, Begin

LEMMA ReturnType ==
    ASSUME TypeOK, NEW c \in Callers, Return(c)
    PROVE  call' \in [Callers -> Call \cup {None}]
BY DEF TypeOK, Return

LEMMA GateType ==
    ASSUME TypeOK, NEW g \in Gates, gates[g] # None
    PROVE  gates[g] \in Gate
BY DEF TypeOK

LEMMA CallTypes ==
    ASSUME TypeOK, [Next]_vars
    PROVE  call' \in [Callers -> Call \cup {None}]
<1>1. ASSUME NEW s \in Slots, NEW d \in Drops, NEW says \in {"approve", "decline"},
             BeginEvaluate(s, d, says)
      PROVE  call' \in [Callers -> Call \cup {None}]
  <2>1. [op |-> "evaluate", drop |-> d, says |-> says] \in Call
    BY DEF Call
  <2> QED
    BY <1>1, <2>1, BeginType DEF BeginEvaluate, Callers
<1>2. ASSUME NEW s \in Slots, NEW g \in Gates, NEW r \in Reports, ReportGate(s, g, r)
      PROVE  call' \in [Callers -> Call \cup {None}]
  <2> DEFINE ev == IF r.cites THEN gates[g].evidence \cup {s} ELSE None
             sg == IF r.signs THEN {s} ELSE {}
             k  == [op |-> "report", gate |-> g, status |-> r.status, evidence |-> ev, signs |-> sg]
  <2>1. gates[g] \in Gate
    BY <1>2, GateType DEF ReportGate
  <2>2. ev \in (SUBSET Callers) \cup {None} /\ sg \in SUBSET Slots
    BY <2>1 DEF Gate, Callers
  <2>3. r.status \in GateStatus \cup {None}
    BY ReportsAssumption
  <2> HIDE DEF ev, sg
  <2>4. k \in Call
    BY <2>2, <2>3 DEF Call
  <2>5. Begin(s, k)
    BY <1>2 DEF ReportGate, ev, sg
  <2> HIDE DEF k
  <2> QED
    BY <2>4, <2>5, BeginType DEF Callers
<1>3. ASSUME NEW g \in Gates, NEW st \in Edits, EditGate(g, st)
      PROVE  call' \in [Callers -> Call \cup {None}]
  <2> DEFINE ev == IF st = "pass" /\ gates[g].evidence = {} THEN {"human"} ELSE None
             sg == IF st = "pass" THEN Slots \ gates[g].signed ELSE {}
             k  == [op |-> "report", gate |-> g, status |-> st, evidence |-> ev, signs |-> sg]
  <2>1. ev \in (SUBSET Callers) \cup {None} /\ sg \in SUBSET Slots
    BY DEF Callers
  <2>2. st \in GateStatus \cup {None}
    BY ReportsAssumption
  <2> HIDE DEF ev, sg
  <2>3. k \in Call
    BY <2>1, <2>2 DEF Call
  <2>4. Begin("human", k)
    BY <1>3 DEF EditGate, ev, sg
  <2> HIDE DEF k
  <2> QED
    BY <2>3, <2>4, BeginType DEF Callers
<1>4. ASSUME NEW c \in Callers, UpdateGate(c)
      PROVE  call' \in [Callers -> Call \cup {None}]
  <2> DEFINE k   == call[c]
             now == gates[k.gate]
             st  == IF k.status = None THEN now.status ELSE k.status
             ev  == IF k.evidence = None THEN now.evidence ELSE k.evidence
             sg  == now.signed \cup k.signs
             row == [status |-> st, evidence |-> ev, signed |-> sg]
             w   == [op |-> "write", gate |-> k.gate, row |-> row]
  <2>1. /\ k.gate \in Gates /\ k.status \in GateStatus \cup {None}
        /\ k.evidence \in (SUBSET Callers) \cup {None} /\ k.signs \in SUBSET Slots
    BY <1>4, CallKind DEF UpdateGate
  <2>2. CASE Terminal \/ now = None
    BY <1>4, <2>2, ReturnType DEF UpdateGate
  <2>3. CASE ~(Terminal \/ now = None)
    <3>1. now \in Gate
      BY <2>1, <2>3, GateType
    <3>2. st \in GateStatus /\ ev \in SUBSET Callers /\ sg \in SUBSET Slots
      BY <2>1, <3>1 DEF Gate
    <3>3. call' = [call EXCEPT ![c] = w]
      BY <1>4, <2>3 DEF UpdateGate
    <3> HIDE DEF st, ev, sg
    <3>4. row \in Gate
      BY <3>2 DEF Gate
    <3> HIDE DEF row
    <3>5. w \in Call
      BY <2>1, <3>4 DEF Call
    <3> HIDE DEF w
    <3> QED
      BY <3>3, <3>5 DEF TypeOK
  <2> QED
    BY <2>2, <2>3
<1>5. ASSUME NEW g \in Gates, AddGate(g)
      PROVE  call' \in [Callers -> Call \cup {None}]
  <2>1. [op |-> "write", gate |-> g, row |-> NewGate] \in Call
    BY DEF Call, Gate, NewGate, GateStatus
  <2> QED
    BY <1>5, <2>1, BeginType DEF AddGate, Callers
<1>6. ASSUME NEW c \in Callers, NEW force \in BOOLEAN, Complete(c, force)
      PROVE  call' \in [Callers -> Call \cup {None}]
  <2>1. Target(force) \in {"freeze", "extend", "close"}
    <3>1. Target(force) \in {"freeze", "extend", "close", None}
      BY DEF Target
    <3> QED
      BY <1>6, <3>1 DEF Complete
  <2>2. [op |-> Target(force), force |-> force, had |-> file] \in Call
    BY <2>1 DEF Call, TypeOK
  <2> QED
    BY <1>6, <2>2, BeginType DEF Complete
<1>7. ASSUME RunTests
      PROVE  call' \in [Callers -> Call \cup {None}]
  <2>1. [op |-> "tests", meta |-> meta] \in Call
    BY DEF Call, TypeOK
  <2> QED
    BY <1>7, <2>1, BeginType DEF RunTests, Callers
<1>8. ASSUME NEW c \in Callers,
             \/ WriteGate(c) \/ Freeze(c) \/ Extend(c) \/ Close(c) \/ CloseCrash(c) \/ RestoreChangelog(c)
             \/ CompletionRefused(c) \/ Abandon(c)
      PROVE  call' \in [Callers -> Call \cup {None}]
  BY <1>8, ReturnType DEF WriteGate, Freeze, Extend, Close, CloseCrash, RestoreChangelog,
     CompletionRefused, Abandon
<1>9. ASSUME NEW s \in Slots, Evaluate(s) \/ EvaluateRefused(s)
      PROVE  call' \in [Callers -> Call \cup {None}]
  BY <1>9, ReturnType DEF Evaluate, EvaluateRefused, Callers
<1>10. ASSUME WriteTests
       PROVE  call' \in [Callers -> Call \cup {None}]
  BY <1>10, ReturnType DEF WriteTests, Callers
<1>11. ASSUME call' = call
       PROVE  call' \in [Callers -> Call \cup {None}]
  BY <1>11 DEF TypeOK
<1>13. ASSUME NEW c \in Callers, CloseFails(c)
       PROVE  call' \in [Callers -> Call \cup {None}]
  <2>1. call[c].had \in BOOLEAN
    BY <1>13, CallKind DEF CloseFails
  <2>2. [op |-> "restore", had |-> call[c].had] \in Call
    BY <2>1 DEF Call
  <2> QED
    BY <1>13, <2>2 DEF CloseFails, TypeOK
<1>12. ASSUME \/ \E d \in Drops, skip, wired \in BOOLEAN : Capture(d, skip, wired)
              \/ \E d \in Drops : PickItem(d)
              \/ Scouting \/ LoseScout
              \/ \E S \in Rosters : ReplaceGates(S)
              \/ Stop \/ StopRoom \/ UNCHANGED vars
       PROVE  call' = call
  BY <1>12 DEF Capture, PickItem, Scouting, BeginInvestigation, DepositProposal, RecordReview,
     InvestigationFails, LoseScout, ReplaceGates, Stop, StopRoom, vars
<1> QED
  BY <1>1, <1>2, <1>3, <1>4, <1>5, <1>6, <1>7, <1>8, <1>9, <1>10, <1>11, <1>12, <1>13
     DEF Next, Scouting

LEMMA GateTypes ==
    ASSUME TypeOK, [Next]_vars
    PROVE  gates' \in [Gates -> Gate \cup {None}]
<1>1. NewGate \in Gate
  BY DEF NewGate, Gate, GateStatus
<1>2. gates \in [Gates -> Gate \cup {None}]
  BY DEF TypeOK
<1>3. ASSUME NEW s \in Slots, Evaluate(s)
      PROVE  gates' \in [Gates -> Gate \cup {None}]
  BY <1>1, <1>2, <1>3 DEF Evaluate, Decide
<1>4. ASSUME NEW c \in Callers, WriteGate(c)
      PROVE  gates' \in [Gates -> Gate \cup {None}]
  <2>1. call[c].row \in Gate
    BY <1>4, CallKind DEF WriteGate
  <2> QED
    BY <1>2, <1>4, <2>1 DEF WriteGate
<1>5. ASSUME NEW S \in Rosters, ReplaceGates(S)
      PROVE  gates' \in [Gates -> Gate \cup {None}]
  BY <1>1, <1>5 DEF ReplaceGates
<1>6. ASSUME NEW c \in Callers, Close(c)
      PROVE  gates' \in [Gates -> Gate \cup {None}]
  <2>1. ASSUME NEW g \in Gates, gates[g] \in Gate
        PROVE  [gates[g] EXCEPT !.status = "waived", !.evidence = @ \cup {"human"}] \in Gate
    <3>1. gates[g].evidence \cup {"human"} \in SUBSET Callers
      BY <2>1 DEF Gate, Callers
    <3> QED
      BY <2>1, <3>1 DEF Gate, GateStatus
  <2>2. \A g \in Gates : Blocks(gates[g]) => gates[g] \in Gate
    BY <1>2 DEF Blocks
  <2> QED
    BY <1>2, <1>6, <2>1, <2>2 DEF Close, Waived
<1>7. CASE UNCHANGED gates
  BY <1>2, <1>7
<1>8. \/ UNCHANGED gates
      \/ \E s \in Slots : Evaluate(s)
      \/ \E c \in Callers : WriteGate(c) \/ Close(c)
      \/ \E S \in Rosters : ReplaceGates(S)
  BY DEF Next, vars, Capture, PickItem, BeginInvestigation, DepositProposal, RecordReview,
     InvestigationFails, LoseScout, BeginEvaluate, EvaluateRefused, ReportGate, EditGate, AddGate,
     Complete, UpdateGate, Freeze, Extend, CloseCrash, CloseFails, RestoreChangelog, CompletionRefused,
     Abandon, Stop, StopRoom, RunTests, WriteTests
<1> QED
  BY <1>3, <1>4, <1>5, <1>6, <1>7, <1>8

\* What each operation may do to the session row, the room and the file.
SessionStep ==
    \/ UNCHANGED <<status, phase, meta, room, file>>
    \/ \E c \in Callers : \/ Freeze(c) \/ Extend(c) \/ Close(c)
                          \/ CloseCrash(c) \/ CloseFails(c) \/ RestoreChangelog(c)
    \/ Stop \/ StopRoom \/ WriteTests

LEMMA SessionCases ==
    ASSUME [Next]_vars
    PROVE  SessionStep
BY DEF SessionStep, Next, vars, session, Capture, PickItem, BeginInvestigation, DepositProposal,
   RecordReview, InvestigationFails, LoseScout, BeginEvaluate, Evaluate, EvaluateRefused,
   ReportGate, EditGate, AddGate, WriteGate, ReplaceGates, Complete, UpdateGate,
   CompletionRefused, Abandon, RunTests

LEMMA SessionTypes ==
    ASSUME TypeOK, [Next]_vars
    PROVE  /\ status' \in {"open", "complete", "stopped"}
           /\ phase' \in {"original", "evaluation", "extension", "closing"}
           /\ meta' \in Metadata /\ room' \in {"open", "stopped"} /\ file' \in BOOLEAN
<1> USE DEF TypeOK
<1>1. CASE UNCHANGED <<status, phase, meta, room, file>>
  BY <1>1
<1>2. ASSUME NEW c \in Callers, Freeze(c)
      PROVE  meta' \in Metadata
  <2>1. {d \in Drops : drops'[d].position > 0} \in SUBSET Drops
    OBVIOUS
  <2> QED
    BY <1>2, <2>1 DEF Freeze, Metadata
<1>3. ASSUME NEW c \in Callers, Close(c)
      PROVE  meta' \in Metadata
  BY <1>3 DEF Close, Metadata
<1>4. ASSUME WriteTests
      PROVE  meta' \in Metadata
  <2>1. call["human"].meta \in Metadata
    BY <1>4, CallKind DEF WriteTests, Callers
  <2> QED
    BY <1>4, <2>1 DEF WriteTests
<1>5. ASSUME NEW c \in Callers,
             \/ Freeze(c) \/ Extend(c) \/ Close(c)
             \/ CloseCrash(c) \/ CloseFails(c) \/ RestoreChangelog(c)
      PROVE  /\ status' \in {"open", "complete", "stopped"}
             /\ phase' \in {"original", "evaluation", "extension", "closing"}
             /\ meta' \in Metadata /\ room' \in {"open", "stopped"} /\ file' \in BOOLEAN
  <2>1. RestoreChangelog(c) => call[c].had \in BOOLEAN
    BY CallKind DEF RestoreChangelog
  <2> QED
    BY <1>2, <1>3, <1>5, <2>1 DEF Freeze, Extend, Close, CloseCrash, CloseFails, RestoreChangelog, session
<1>6. CASE Stop \/ StopRoom \/ WriteTests
  BY <1>4, <1>6 DEF Stop, StopRoom, WriteTests
<1> QED
  BY <1>1, <1>5, <1>6, SessionCases DEF SessionStep

LEMMA ScoutTypes ==
    ASSUME TypeOK, [Next]_vars
    PROVE  queued' \subseteq Drops /\ scout' \in Scout
<1> USE DEF TypeOK
<1>1. CASE UNCHANGED ancillary
  BY <1>1 DEF ancillary
<1>2. ASSUME NEW d \in Drops, NEW skip \in BOOLEAN, NEW wired \in BOOLEAN, Capture(d, skip, wired)
      PROVE  queued' \subseteq Drops /\ scout' \in Scout
  BY <1>2 DEF Capture
<1>3. ASSUME NEW d \in Drops, PickItem(d)
      PROVE  queued' \subseteq Drops /\ scout' \in Scout
  BY <1>3 DEF PickItem, Scout, Idle
<1>4. CASE Scouting \/ LoseScout
  BY <1>4 DEF Scouting, BeginInvestigation, DepositProposal, RecordReview, InvestigationFails,
     LoseScout, Scout, Idle
<1>5. \/ UNCHANGED ancillary
      \/ \E d \in Drops, skip, wired \in BOOLEAN : Capture(d, skip, wired)
      \/ \E d \in Drops : PickItem(d)
      \/ Scouting \/ LoseScout
  BY DEF Next, vars, ancillary, Scouting, BeginEvaluate, Evaluate, EvaluateRefused, ReportGate,
     EditGate, AddGate, WriteGate, ReplaceGates, Complete, UpdateGate, Freeze, Extend, Close,
     CloseCrash, CloseFails, RestoreChangelog, CompletionRefused, Abandon, Stop, StopRoom, RunTests,
     WriteTests
<1> QED
  BY <1>1, <1>2, <1>3, <1>4, <1>5

LEMMA TypeStep ==
    ASSUME Sane, [Next]_vars
    PROVE  TypeOK'
<1>1. drops' \in [Drops -> Drop]
  BY RowsStep DEF RowStep, Step, Rows
<1> QED
  BY <1>1, CallTypes, GateTypes, SessionTypes, ScoutTypes DEF TypeOK, Sane

(***************************************************************************)
(* The invariant.                                                          *)
(***************************************************************************)
\* A snapshot covers every captured row, also the snapshot of a metadata record
\* that somebody has read and will write back.
SnapshotsSound ==
    /\ meta.snapshot # None => phase # "original" /\ Captured(drops) \subseteq meta.snapshot
    /\ \A c \in Callers : call[c] # None =>
          (call[c].op = "tests" /\ call[c].meta.snapshot # None =>
               phase # "original" /\ Captured(drops) \subseteq call[c].meta.snapshot)

\* Where no closing transaction fails after the file is written, nobody is about
\* to put the file back to what it was.
Recorded ==
    /\ status = "complete" => phase = "closing"
    /\ Terminal => room = "stopped"
    /\ ~CommitMayFail =>
          /\ status = "complete" => file
          /\ \A c \in Callers : call[c] # None => call[c].op # "restore"

Inv == Sane /\ SnapshotsSound /\ Recorded /\ DecidedBeforeExtension

\* The original work is over once and for all.
LEMMA PhaseForward ==
    ASSUME [Next]_vars, phase # "original"
    PROVE  phase' # "original"
BY SessionCases DEF SessionStep, Freeze, MayFreeze, Extend, Close, CloseCrash, CloseFails,
   RestoreChangelog, Stop, StopRoom,
   WriteTests, session

LEMMA FrozenRows ==
    ASSUME Sane, [Next]_vars, phase # "original"
    PROVE  Captured(drops') = Captured(drops) /\ Open(drops') \subseteq Open(drops)
<1>1. RowStep
  BY RowsStep
<1>2. \A d \in Drops : Evolves(drops[d], drops'[d])
                       /\ (drops[d].status = "absent" => drops'[d].status = "absent")
  BY <1>1 DEF RowStep, Step, NoCapture
<1> QED
  BY <1>2 DEF Captured, Open, Evolves

\* A call that is under way after a step was under way, or has just begun.
FreshCall(c) ==
    call'[c] # None =>
        \/ call'[c] = call[c]
        \/ call'[c].op = "evaluate" /\ phase = "evaluation"
        \/ call'[c].op = "extend" /\ phase = "evaluation" /\ Pending = {}
        \/ call'[c].op \in {"freeze", "close", "report", "write"}
        \/ call'[c].op = "restore" /\ CommitMayFail
        \/ call'[c].op = "tests" /\ call'[c].meta = meta

LEMMA NewCalls ==
    ASSUME TypeOK, [Next]_vars, NEW c \in Callers
    PROVE  FreshCall(c)
<1>1. ASSUME NEW b \in Callers, NEW k, Begin(b, k)
      PROVE  call'[c] = k \/ call'[c] = call[c]
  BY <1>1 DEF Begin, TypeOK
<1>2. ASSUME NEW b \in Callers, Return(b)
      PROVE  FreshCall(c)
  BY <1>2 DEF FreshCall, Return, TypeOK
<1>3. ASSUME NEW s \in Slots, NEW d \in Drops, NEW says \in {"approve", "decline"},
             BeginEvaluate(s, d, says)
      PROVE  FreshCall(c)
  BY <1>1, <1>3 DEF FreshCall, BeginEvaluate, Callers
<1>4. ASSUME NEW s \in Slots, NEW g \in Gates, NEW r \in Reports, ReportGate(s, g, r)
      PROVE  FreshCall(c)
  BY <1>1, <1>4 DEF FreshCall, ReportGate, Callers
<1>5. ASSUME NEW g \in Gates, NEW st \in Edits, EditGate(g, st)
      PROVE  FreshCall(c)
  BY <1>1, <1>5 DEF FreshCall, EditGate, Callers
<1>6. ASSUME NEW b \in Callers, UpdateGate(b)
      PROVE  FreshCall(c)
  BY <1>2, <1>6 DEF FreshCall, UpdateGate, TypeOK
<1>7. ASSUME NEW g \in Gates, AddGate(g)
      PROVE  FreshCall(c)
  BY <1>1, <1>7 DEF FreshCall, AddGate, Callers
<1>8. ASSUME NEW b \in Callers, NEW force \in BOOLEAN, Complete(b, force)
      PROVE  FreshCall(c)
  <2> DEFINE t == Target(force)
  <2>1. t \in {"freeze", "close"} \/ (t = "extend" /\ phase = "evaluation" /\ Pending = {})
    <3>1. t \in {"freeze", "close", None} \/ (t = "extend" /\ phase = "evaluation" /\ Pending = {})
      BY DEF Target
    <3> QED
      BY <1>8, <3>1 DEF Complete
  <2>2. Begin(b, [op |-> t, force |-> force, had |-> file])
    BY <1>8 DEF Complete
  <2> HIDE DEF t
  <2> QED
    BY <1>1, <2>1, <2>2 DEF FreshCall
<1>9. ASSUME RunTests
      PROVE  FreshCall(c)
  BY <1>1, <1>9 DEF FreshCall, RunTests, Callers
<1>10. ASSUME NEW b \in Callers,
             \/ WriteGate(b) \/ Freeze(b) \/ Extend(b) \/ Close(b) \/ CloseCrash(b) \/ RestoreChangelog(b)
             \/ CompletionRefused(b) \/ Abandon(b)
       PROVE  FreshCall(c)
  BY <1>2, <1>10 DEF WriteGate, Freeze, Extend, Close, CloseCrash, RestoreChangelog, CompletionRefused,
     Abandon
<1>11. ASSUME NEW s \in Slots, Evaluate(s) \/ EvaluateRefused(s)
       PROVE  FreshCall(c)
  BY <1>2, <1>11 DEF FreshCall, Evaluate, EvaluateRefused, Callers
<1>12. ASSUME WriteTests
       PROVE  FreshCall(c)
  BY <1>2, <1>12 DEF FreshCall, WriteTests, Callers
<1>13. ASSUME \/ \E d \in Drops, skip, wired \in BOOLEAN : Capture(d, skip, wired)
              \/ \E d \in Drops : PickItem(d)
              \/ Scouting \/ LoseScout
              \/ \E S \in Rosters : ReplaceGates(S)
              \/ Stop \/ StopRoom \/ UNCHANGED vars
       PROVE  FreshCall(c)
  <2>1. call' = call
    BY <1>13 DEF Capture, PickItem, Scouting, BeginInvestigation, DepositProposal, RecordReview,
       InvestigationFails, LoseScout, ReplaceGates, Stop, StopRoom, vars
  <2> QED
    BY <2>1 DEF FreshCall
<1>14. ASSUME NEW b \in Callers, CloseFails(b)
       PROVE  FreshCall(c)
  BY <1>14 DEF FreshCall, CloseFails, TypeOK
<1>15. CASE Next
  BY <1>3, <1>4, <1>5, <1>6, <1>7, <1>8, <1>9, <1>10, <1>11, <1>12, <1>13, <1>14, <1>15 DEF Next, Scouting
<1>16. CASE UNCHANGED vars
  BY <1>13, <1>16
<1> QED
  BY <1>15, <1>16

LEMMA ScoutStep ==
    ASSUME Sane, [Next]_vars
    PROVE  ScoutSound'
<1>1. Captured(drops) \subseteq Captured(drops')
  BY RowsStep DEF RowStep, Step, Evolves, Captured
<1>2. ScoutSound
  BY DEF Sane
<1>3. CASE UNCHANGED ancillary
  BY <1>1, <1>2, <1>3 DEF ancillary, ScoutSound
<1>4. ASSUME NEW d \in Drops, NEW skip \in BOOLEAN, NEW wired \in BOOLEAN, Capture(d, skip, wired)
      PROVE  ScoutSound'
  <2>1. d \in Captured(drops')
    <3> DEFINE es == [drops EXCEPT ![d].status = "captured", ![d].skip = skip]
    <3>1. drops'[d].status = "captured"
      <4>1. drops[d] \in Drop /\ drops \in [Drops -> Drop]
        BY DEF Sane, TypeOK
      <4>2. es[d].status = "captured"
        BY <4>1 DEF Drop
      <4>3. drops' = Reconcile(es)
        BY <1>4 DEF Capture
      <4> HIDE DEF es
      <4> QED
        BY <4>2, <4>3 DEF Reconcile, Evaluable
    <3> QED
      BY <3>1 DEF Captured
  <2> QED
    BY <1>1, <1>2, <1>4, <2>1 DEF Capture, ScoutSound
<1>5. ASSUME NEW d \in Drops, PickItem(d)
      PROVE  ScoutSound'
  BY <1>1, <1>2, <1>5 DEF PickItem, ScoutSound
<1>6. CASE Scouting \/ LoseScout
  BY <1>1, <1>2, <1>6 DEF Scouting, BeginInvestigation, DepositProposal, RecordReview,
     InvestigationFails, LoseScout, ScoutSound, Idle, Sane, TypeOK, Scout
<1>7. \/ UNCHANGED ancillary
      \/ \E d \in Drops, skip, wired \in BOOLEAN : Capture(d, skip, wired)
      \/ \E d \in Drops : PickItem(d)
      \/ Scouting \/ LoseScout
  BY DEF Next, vars, ancillary, Scouting, BeginEvaluate, Evaluate, EvaluateRefused, ReportGate,
     EditGate, AddGate, WriteGate, ReplaceGates, Complete, UpdateGate, Freeze, Extend, Close,
     CloseCrash, CloseFails, RestoreChangelog, CompletionRefused, Abandon, Stop, StopRoom, RunTests,
     WriteTests
<1> QED
  BY <1>3, <1>4, <1>5, <1>6, <1>7

LEMMA AppendixStep ==
    ASSUME Sane, [Next]_vars
    PROVE  AppendixTotal'
<1>1. RowStep
  BY RowsStep
<1>2. \A d \in Drops : Evolves(drops[d], drops'[d])
  BY <1>1 DEF RowStep, Step
<1>3. ASSUME phase \in {"evaluation", "extension"}, phase' \in {"evaluation", "extension"}
      PROVE  AppendixTotal'
  <2>1. Captured(drops') = Captured(drops)
    BY <1>3, FrozenRows
  <2>2. \A d \in Captured(drops) : drops[d].position > 0 /\ drops[d].status \in Settled
    BY <1>3 DEF Sane, AppendixTotal
  <2> QED
    BY <1>2, <1>3, <2>1, <2>2 DEF AppendixTotal, Captured, Evolves
<1>4. ASSUME phase = "closing", phase' = "closing"
      PROVE  AppendixTotal'
  <2>1. Open(drops) = {} /\ Open(drops') \subseteq Open(drops)
    BY <1>4, FrozenRows DEF Sane, AppendixTotal
  <2> QED
    BY <1>4, <2>1 DEF AppendixTotal
<1>5. ASSUME NEW c \in Callers, Freeze(c)
      PROVE  AppendixTotal'
  <2>1. phase' = "evaluation"
    BY <1>5 DEF Freeze
  <2>2. \A d \in Captured(drops') : drops'[d].position > 0 /\ drops'[d].status \in Settled
    BY <1>5, FreezeRows DEF Sane
  <2> QED
    BY <2>1, <2>2 DEF AppendixTotal
<1>6. ASSUME NEW c \in Callers, Close(c)
      PROVE  AppendixTotal'
  <2>1. phase' = "closing"
    BY <1>6 DEF Close
  <2>2. Open(drops') = {}
    <3>1. drops' = [d \in Drops |-> IF d \in Open(drops)
                                    THEN [drops[d] EXCEPT !.disposition = "waived"] ELSE drops[d]]
      BY <1>6 DEF Close
    <3>2. \A d \in Drops : drops[d] \in Drop
      BY DEF Sane, TypeOK
    <3>3. ASSUME NEW d \in Open(drops')
          PROVE  FALSE
      <4>1. d \in Drops /\ drops'[d].status # "absent" /\ drops'[d].disposition = None
        BY DEF Open, Captured
      <4>2. CASE d \in Open(drops)
        <5>1. drops'[d].disposition = "waived"
          BY <3>1, <3>2, <4>1, <4>2 DEF Drop
        <5> QED
          BY <4>1, <5>1, NoneAssumption DEF Disposition
      <4>3. CASE d \notin Open(drops)
        BY <3>1, <4>1, <4>3 DEF Open, Captured
      <4> QED
        BY <4>2, <4>3
    <3> QED
      BY <3>3
  <2> QED
    BY <2>1, <2>2 DEF AppendixTotal
<1>7. CASE phase' = "original"
  BY <1>7 DEF AppendixTotal
<1>8. \/ phase' = phase
      \/ \E c \in Callers : Freeze(c) \/ Close(c)
      \/ phase = "evaluation" /\ phase' = "extension"
  BY SessionCases DEF SessionStep, Extend, MayExtend, CloseCrash, CloseFails, RestoreChangelog, Stop,
     StopRoom, WriteTests, session
<1>9. phase \in {"original", "evaluation", "extension", "closing"}
  BY DEF Sane, TypeOK
<1> QED
  BY <1>3, <1>4, <1>5, <1>6, <1>7, <1>8, <1>9

LEMMA CallsStep ==
    ASSUME Sane, SnapshotsSound, [Next]_vars
    PROVE  CallsSound'
<1> SUFFICES ASSUME NEW c \in Callers, call'[c] # None
             PROVE  /\ call'[c].op \in {"evaluate", "extend"} => phase' # "original"
                    /\ call'[c].op = "extend" => Open(drops') = {}
  BY DEF CallsSound
<1>1. FreshCall(c) /\ CallsSound
  BY NewCalls DEF Sane
<1>2. call'[c].op \in {"evaluate", "extend"} => phase # "original"
  BY <1>1 DEF FreshCall, CallsSound
<1>3. phase = "evaluation" /\ Pending = {} => Open(drops) = {}
  <2>1. Open(drops) \subseteq Captured(drops) /\ Captured(drops) \subseteq Snapshot
    BY DEF Open, Snapshot, SnapshotsSound
  <2> QED
    BY <2>1 DEF Pending
<1>4. call'[c].op = "extend" => Open(drops) = {}
  BY <1>1, <1>3 DEF FreshCall, CallsSound
<1> QED
  BY <1>2, <1>4, PhaseForward, FrozenRows

LEMMA SnapshotStep ==
    ASSUME Sane, SnapshotsSound, [Next]_vars
    PROVE  SnapshotsSound'
<1> DEFINE Covers(m) == m.snapshot # None => phase # "original" /\ Captured(drops) \subseteq m.snapshot
           CoversNext(m) ==
               m.snapshot # None => phase' # "original" /\ Captured(drops') \subseteq m.snapshot
<1>1. ASSUME NEW m, Covers(m)
      PROVE  CoversNext(m)
  BY <1>1, PhaseForward, FrozenRows
<1>2. ASSUME NEW c \in Callers, call'[c] # None, call'[c].op = "tests"
      PROVE  CoversNext(call'[c].meta)
  <2>1. Covers(call'[c].meta)
    <3>1. FreshCall(c)
      BY NewCalls DEF Sane
    <3> QED
      BY <1>2, <3>1 DEF FreshCall, SnapshotsSound
  <2> QED
    BY <1>1, <2>1
<1>3. ASSUME NEW c \in Callers, Freeze(c)
      PROVE  CoversNext(meta')
  <2>1. phase' = "evaluation"
    BY <1>3 DEF Freeze
  <2>2. meta'.snapshot = {d \in Drops : drops'[d].position > 0}
    BY <1>3 DEF Freeze, Sane, TypeOK, Metadata
  <2>3. \A d \in Captured(drops') : drops'[d].position > 0 /\ d \in Drops
    BY <1>3, FreezeRows DEF Sane, Captured
  <2> QED
    BY <2>1, <2>2, <2>3
<1>4. ASSUME NEW c \in Callers, Close(c)
      PROVE  CoversNext(meta')
  <2>1. meta'.snapshot = meta.snapshot
    BY <1>4 DEF Close, Sane, TypeOK, Metadata
  <2> QED
    BY <1>1, <2>1 DEF SnapshotsSound
<1>5. ASSUME WriteTests
      PROVE  CoversNext(meta')
  <2>1. Covers(call["human"].meta) /\ meta' = call["human"].meta
    BY <1>5 DEF WriteTests, SnapshotsSound, Callers
  <2> QED
    BY <1>1, <2>1
<1>6. ASSUME UNCHANGED meta
      PROVE  CoversNext(meta')
  BY <1>1, <1>6 DEF SnapshotsSound
<1>7. \/ UNCHANGED meta
      \/ \E c \in Callers : Freeze(c) \/ Close(c)
      \/ WriteTests
  BY SessionCases DEF SessionStep, Extend, CloseCrash, CloseFails, RestoreChangelog, Stop, StopRoom, session
<1>8. CoversNext(meta')
  BY <1>3, <1>4, <1>5, <1>6, <1>7
<1> QED
  BY <1>2, <1>8 DEF SnapshotsSound

LEMMA RecordedStep ==
    ASSUME TypeOK, Recorded, [Next]_vars
    PROVE  Recorded'
<1>1. ASSUME NEW c \in Callers, Freeze(c) \/ Extend(c) \/ Close(c)
      PROVE  /\ status' = "complete" => phase' = "closing" /\ file'
             /\ status' # "open" => room' = "stopped"
  BY <1>1 DEF Recorded, Terminal, Freeze, MayFreeze, Extend, MayExtend, Close, MayClose
<1>2. ASSUME NEW c \in Callers, CloseCrash(c) \/ CloseFails(c) \/ RestoreChangelog(c)
      PROVE  /\ UNCHANGED <<status, phase, room>>
             /\ ~CommitMayFail => file' \in {TRUE, file}
  BY <1>2 DEF Recorded, CloseCrash, CloseFails, RestoreChangelog, session
<1>3. ASSUME Stop \/ StopRoom \/ WriteTests
      PROVE  /\ status' = "complete" => status = "complete" /\ UNCHANGED <<phase, file>>
             /\ status' # "open" => room' = "stopped"
  BY <1>3 DEF Recorded, Terminal, Stop, StopRoom, WriteTests
<1>4. /\ status' = "complete" => phase' = "closing"
      /\ status' # "open" => room' = "stopped"
      /\ ~CommitMayFail => (status' = "complete" => file')
  BY <1>1, <1>2, <1>3, SessionCases DEF SessionStep, Recorded, Terminal
<1>5. ASSUME ~CommitMayFail, NEW c \in Callers, call'[c] # None
      PROVE  call'[c].op # "restore"
  <2>1. FreshCall(c)
    BY NewCalls
  <2> QED
    BY <1>5, <2>1 DEF FreshCall, Recorded
<1> QED
  BY <1>4, <1>5 DEF Recorded, Terminal

LEMMA DecidedStep ==
    ASSUME Sane, DecidedBeforeExtension, [Next]_vars
    PROVE  DecidedBeforeExtension'
<1>1. CASE phase = "extension"
  <2>1. Open(drops') \subseteq Open(drops)
    BY <1>1, FrozenRows
  <2> QED
    BY <1>1, <2>1 DEF DecidedBeforeExtension
<1>2. ASSUME NEW c \in Callers, Extend(c)
      PROVE  Open(drops') = {}
  BY <1>2 DEF Extend, Sane, CallsSound
<1>3. phase' = "extension" => phase = "extension" \/ \E c \in Callers : Extend(c)
  BY SessionCases DEF SessionStep, Freeze, Close, CloseCrash, CloseFails, RestoreChangelog, Stop,
     StopRoom, WriteTests, session
<1> QED
  BY <1>1, <1>2, <1>3 DEF DecidedBeforeExtension

LEMMA InvInit ==
    ASSUME Init
    PROVE  Inv
<1>1. NoDrop \in Drop /\ Sound(NoDrop) /\ NoDrop.status = "absent" /\ NoDrop.position = 0
  BY NoneAssumption DEF NoDrop, Drop, Sound, Settled, Evaluable, Disposition
<1>2. drops \in [Drops -> Drop] /\ \A d \in Drops : drops[d] = NoDrop
  BY <1>1 DEF Init
<1>3. Rows(drops)
  <2>1. \A d \in Drops : drops[d].position <= 0
    BY <1>1, <1>2
  <2> QED
    BY <1>1, <1>2, <2>1 DEF Rows, Bounded
<1>4. Captured(drops) = {}
  BY <1>1, <1>2 DEF Captured
<1>5. TypeOK
  <2>1. NewGate \in Gate
    BY DEF NewGate, Gate, GateStatus
  <2>2. meta \in Metadata
    BY DEF Init, Metadata
  <2>3. Idle \in Scout
    BY DEF Idle, Scout
  <2> QED
    BY <1>2, <2>1, <2>2, <2>3 DEF Init, TypeOK
<1>6. ScoutSound /\ AppendixTotal /\ CallsSound
  BY <1>4 DEF Init, ScoutSound, AppendixTotal, CallsSound
<1>7. SnapshotsSound /\ Recorded /\ DecidedBeforeExtension
  BY DEF Init, SnapshotsSound, Recorded, DecidedBeforeExtension, Terminal
<1> QED
  BY <1>3, <1>5, <1>6, <1>7 DEF Inv, Sane

LEMMA InvStep ==
    ASSUME Inv, [Next]_vars
    PROVE  Inv'
<1>1. Rows(drops)'
  BY RowsStep DEF Inv, RowStep, Step
<1> QED
  BY <1>1, TypeStep, ScoutStep, AppendixStep, CallsStep, SnapshotStep, RecordedStep, DecidedStep
     DEF Inv, Sane

\* The inductive invariant holds in every reachable state.
THEOREM InvHolds == Safe => []Inv
BY InvInit, InvStep, PTL DEF Safe

(***************************************************************************)
(* What follows from it.                                                   *)
(***************************************************************************)
\* Every reachable state has the declared types.
THEOREM TypeCorrect == Safe => []TypeOK
<1>1. Inv => TypeOK
  BY DEF Inv, Sane
<1> QED
  BY <1>1, InvHolds, PTL

\* A capture lands in the snapshot or is refused: none is left between.
THEOREM SnapshotIsTotal == Safe => []SnapshotTotal
<1>1. Inv => SnapshotTotal
  BY DEF Inv, Sane, AppendixTotal, SnapshotTotal, SnapshotsSound, Snapshot, Settled
<1> QED
  BY <1>1, InvHolds, PTL

\* An approved item is a reviewed proposal on which both main roles agreed.
THEOREM ApprovalIsOfReviewed == Safe => []ApprovedIsReviewed
<1>1. Inv => ApprovedIsReviewed
  BY DEF Inv, Sane, Rows, Sound, ApprovedIsReviewed
<1> QED
  BY <1>1, InvHolds, PTL

\* Extension work never starts over an undecided item.
THEOREM ExtensionIsDecided == Safe => []DecidedBeforeExtension
<1>1. Inv => DecidedBeforeExtension
  BY DEF Inv
<1> QED
  BY <1>1, InvHolds, PTL

\* A crash between the file and the commit never leaves a session complete
\* without its changelog, if no closing transaction fails in between.
THEOREM CompletionIsRecorded ==
    ASSUME ~CommitMayFail
    PROVE  Safe => []CompleteIsRecorded
<1>1. Inv => CompleteIsRecorded
  BY DEF Inv, Recorded, CompleteIsRecorded
<1> QED
  BY <1>1, InvHolds, PTL

\* No call, however old what it read, changes a decision.
THEOREM DecisionsAreFinal == Safe => DecisionFinal
<1>1. ASSUME Inv, [Next]_vars
      PROVE  \A d \in Drops : drops[d].disposition # None =>
                drops'[d].disposition = drops[d].disposition /\ drops'[d].verdict = drops[d].verdict
  BY <1>1, RowsStep DEF Inv, RowStep, Step, Evolves
<1> QED
  BY <1>1, InvHolds, PTL DEF Safe, DecisionFinal

\* The appendix only grows, and at its end.
THEOREM AppendixOnlyGrows == Safe => AppendixGrows
<1>1. ASSUME Inv, [Next]_vars
      PROVE  \A d \in Drops :
                /\ drops[d].position > 0 => drops'[d].position = drops[d].position
                /\ drops[d].position = 0 /\ drops'[d].position > 0 =>
                      \A e \in Drops : drops[e].position < drops'[d].position
  BY <1>1, RowsStep DEF Inv, RowStep, Step, Evolves, Grows
<1> QED
  BY <1>1, InvHolds, PTL DEF Safe, AppendixGrows

\* Whichever of stop and complete commits first ends the session; the other one,
\* and every call that had begun before, leaves status and phase alone.
THEOREM SessionEndsOnce == Safe => EndsOnce
<1>1. ASSUME [Next]_vars, Terminal
      PROVE  status' = status /\ phase' = phase
  BY <1>1, SessionCases DEF SessionStep, Freeze, MayFreeze, Extend, MayExtend, Close, MayClose,
     CloseCrash, CloseFails, RestoreChangelog, Stop, StopRoom, WriteTests, session
<1> QED
  BY <1>1, PTL DEF Safe, EndsOnce

\* A session completes with everything proven and decided when it commits, and
\* without the human's force that was so before it.
THEOREM CompletionIsProven == Safe => CompletionProven
<1>1. ASSUME Inv, [Next]_vars, status' = "complete", status # "complete"
      PROVE  /\ Summary(gates') /\ Open(drops') = {} /\ room' = "stopped"
             /\ \E c \in Callers :
                   /\ call[c] # None /\ call[c].op = "close" /\ call'[c] = None
                   /\ call[c].force \/ (Summary(gates) /\ Open(drops) = {})
  <2>1. PICK c \in Callers : Close(c)
    BY <1>1, SessionCases DEF SessionStep, Freeze, Extend, CloseCrash, CloseFails, RestoreChangelog,
       Stop, StopRoom, WriteTests, session
  <2>2. call[c] # None /\ call[c].op = "close" /\ call'[c] = None
    BY <1>1, <2>1 DEF Close, Return, Inv, Sane, TypeOK
  <2>3. Summary(gates') /\ room' = "stopped"
    BY <2>1 DEF Close, MayClose
  <2>4. Open(drops') = {}
    <3>1. AppendixTotal' /\ phase' = "closing"
      BY <1>1, <2>1, AppendixStep DEF Inv, Close
    <3> QED
      BY <3>1 DEF AppendixTotal
  <2>5. call[c].force \/ (Summary(gates) /\ Open(drops) = {})
    <3>1. SUFFICES ASSUME ~call[c].force
                   PROVE  Summary(gates) /\ Open(drops) = {}
      OBVIOUS
    <3>2. Summary(Waived(gates, call[c].force)) /\ (Open(drops) # {} => call[c].force)
      BY <2>1 DEF Close, MayClose
    <3>3. Waived(gates, call[c].force) = gates
      BY <1>1, <3>1 DEF Waived, Inv, Sane, TypeOK
    <3> QED
      BY <3>1, <3>2, <3>3
  <2> QED
    BY <2>2, <2>3, <2>4, <2>5
<1> QED
  BY <1>1, InvHolds, PTL DEF Safe, CompletionProven
=============================================================================
