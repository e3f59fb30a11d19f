--------------------------- MODULE SpecChangeProofs ---------------------------
(***************************************************************************)
(* What TLAPS proves of changes to a built product, for any number of      *)
(* specs, criteria, drafted changes, runs, approvals, repairs, undos and   *)
(* crashes.  Trees travel: a commit, a checkpoint, a checkout, a reset and *)
(* an undo copy whole trees about, so each invariant about contracts is    *)
(* one about every tree there is, and about what the running build holds.  *)
(***************************************************************************)
EXTENDS SpecChange, TLAPS, FiniteSetTheorems, SequenceTheorems

Row == [spec: Slugs, text: Texts, status: Live \cup {"retired"}]
Scr == [spec: Slugs, status: {"proposed", "approved", "consumed"}]
Specs == [Slugs -> Contracts \cup {None}]

\* What the running build holds, by where it is.
BuildOK ==
  /\ build.at \in {"start", "spec", "save", "build", "tail", "amend"} => build.fdr \in FDRs
  /\ build.at \in {"save", "build"} => build.spec \in Slugs
  /\ build.at = "save" => build.text \in Texts
  /\ build.at \in {"grant", "stamp"} => build.change \in Changes
  /\ build.at = "stamp" => build.copy \in Contracts

Typed == TypeOK /\ BuildOK

-----------------------------------------------------------------------------
(* Sets listed as sequences, and the ledger.                               *)

LEMMA SetToSeqType ==
  ASSUME NEW S, IsFiniteSet(S)
  PROVE  /\ SetToSeq(S) \in Seq(S)
         /\ \A i, j \in DOMAIN SetToSeq(S) : SetToSeq(S)[i] = SetToSeq(S)[j] => i = j
<1>1. Cardinality(S) \in Nat /\ ExistsBijection(1..Cardinality(S), S)
  BY FS_CardinalityType
<1>2. \E f \in [1..Cardinality(S) -> S] : IsInjective(f)
  BY <1>1 DEF ExistsBijection, Bijection, Injection, IsInjective
<1>3. SetToSeq(S) \in [1..Cardinality(S) -> S] /\ IsInjective(SetToSeq(S))
  BY <1>2 DEF SetToSeq
<1> QED
  BY <1>1, <1>3 DEF IsInjective

LEMMA PromisesAreFinite ==
  ASSUME NEW spec \in Specs
  PROVE  /\ IsFiniteSet(Promises(spec))
         /\ Promises(spec) \subseteq Slugs \X Texts
         /\ \A p \in Promises(spec) : spec[p[1]] \in Contracts
<1> DEFINE there == {x \in Slugs : spec[x] # None}
           f == [s \in there |-> <<s, spec[s].text>>]
<1>1. \A s \in there : spec[s] \in Contracts
  BY DEF Specs
<1>2. IsFiniteSet(there)
  BY SpecChangeAssumption, FS_Subset
<1>3. f \in Surjection(there, Promises(spec))
  BY DEF Promises, Surjection
<1>4. IsFiniteSet(Promises(spec))
  BY <1>2, <1>3, FS_Surjection
<1>5. \A s \in there : spec[s].text \in Texts
  BY <1>1 DEF Contracts
<1>6. \A p \in Promises(spec) : \E s \in there : p = <<s, spec[s].text>>
  BY DEF Promises
<1> QED
  BY <1>1, <1>4, <1>5, <1>6

LEMMA TreeShape ==
  ASSUME NEW w \in Trees
  PROVE  /\ w.spec \in Specs /\ w.ledger \in Seq(Row)
         /\ \A sp \in Specs : [w EXCEPT !.spec = sp] \in Trees
                              /\ [w EXCEPT !.spec = sp].spec = sp
                              /\ [w EXCEPT !.spec = sp].ledger = w.ledger
         /\ \A l \in Seq(Row) : [w EXCEPT !.ledger = l] \in Trees
                                /\ [w EXCEPT !.ledger = l].spec = w.spec
                                /\ [w EXCEPT !.ledger = l].ledger = l
BY DEF Trees, Row, Specs

LEMMA DerivedType == \A c \in Contracts : Derived(c) \in Live
BY DEF Derived, Live, Contracts

\* A ledger gives each promise one number, and m gives a promise that l numbers
\* the number it has in l.
Distinct(l) == \A i, j \in DOMAIN l : KeyOf(l[i]) = KeyOf(l[j]) => i = j
Kept(l, m) == \A i \in DOMAIN l : i \in DOMAIN m /\ KeyOf(m[i]) = KeyOf(l[i])

\* sync_ledger leaves the specs alone; the ledger it writes has the old rows, in
\* their places, and after them rows for promises the old one did not number.
LEMMA SyncShape ==
  ASSUME NEW w \in Trees
  PROVE  /\ Sync(w) \in Trees /\ Sync(w).spec = w.spec
         /\ \E l, m \in Seq(Row) :
              /\ Sync(w).ledger = l \o m
              /\ Len(l) = Len(w.ledger) /\ Kept(w.ledger, l)
              /\ Distinct(m)
              /\ \A i \in DOMAIN w.ledger, j \in DOMAIN m : KeyOf(w.ledger[i]) # KeyOf(m[j])
<1> DEFINE keys == {KeyOf(w.ledger[i]) : i \in DOMAIN w.ledger}
           fresh == Promises(w.spec) \ keys
           new == SetToSeq(fresh)
           Follow(row) ==
             [row EXCEPT !.status = IF KeyOf(row) \in Promises(w.spec)
                                      THEN Derived(w.spec[row.spec])
                                    ELSE IF row.status \in Live THEN "retired" ELSE @]
           old == [i \in DOMAIN w.ledger |-> Follow(w.ledger[i])]
           added == [i \in DOMAIN new |-> [spec |-> new[i][1], text |-> new[i][2],
                                           status |-> Derived(w.spec[new[i][1]])]]
<1>1. w.spec \in Specs /\ w.ledger \in Seq(Row)
  BY TreeShape
<1>2. IsFiniteSet(fresh) /\ fresh \subseteq Slugs \X Texts
      /\ \A p \in fresh : w.spec[p[1]] \in Contracts
  BY <1>1, PromisesAreFinite, FS_Subset
<1>3. new \in Seq(fresh)
  BY <1>2, SetToSeqType
<1>4. added \in Seq(Row)
  <2> HIDE DEF new, fresh
  <2>1. DOMAIN new = 1..Len(new) /\ Len(new) \in Nat /\ \A i \in 1..Len(new) : new[i] \in fresh
    BY <1>3
  <2>2. ASSUME NEW i \in 1..Len(new)
        PROVE  [spec |-> new[i][1], text |-> new[i][2], status |-> Derived(w.spec[new[i][1]])] \in Row
    <3>1. new[i] \in fresh /\ new[i][1] \in Slugs /\ new[i][2] \in Texts
      BY <1>2, <2>1
    <3>2. Derived(w.spec[new[i][1]]) \in Live
      BY <1>2, <3>1, DerivedType
    <3> QED
      BY <3>1, <3>2 DEF Row
  <2>3. added \in [1..Len(new) -> Row]
    BY <2>1, <2>2
  <2> QED
    BY <2>1, <2>3
<1>5. old \in Seq(Row)
  <2>1. ASSUME NEW row \in Row PROVE Follow(row) \in Row
    <3>1. KeyOf(row) \in Promises(w.spec) => w.spec[row.spec] \in Contracts
      BY <1>1, PromisesAreFinite DEF KeyOf
    <3>2. KeyOf(row) \in Promises(w.spec) => Derived(w.spec[row.spec]) \in Live
      BY <3>1, DerivedType
    <3> QED
      BY <3>2 DEF Row
  <2>2. /\ DOMAIN w.ledger = 1..Len(w.ledger) /\ Len(w.ledger) \in Nat
        /\ \A i \in 1..Len(w.ledger) : w.ledger[i] \in Row
    BY <1>1
  <2> HIDE DEF Follow
  <2>3. old \in [1..Len(w.ledger) -> Row]
    BY <2>1, <2>2
  <2> QED
    BY <2>2, <2>3
<1>6. Len(old) = Len(w.ledger) /\ Kept(w.ledger, old)
  <2>1. \A row \in Row : KeyOf(Follow(row)) = KeyOf(row)
    BY DEF Row, KeyOf
  <2>2. \A i \in 1..Len(w.ledger) : w.ledger[i] \in Row
    BY <1>1
  <2> HIDE DEF Follow
  <2>3. DOMAIN w.ledger = 1..Len(w.ledger) /\ DOMAIN old = 1..Len(w.ledger) /\ Len(w.ledger) \in Nat
    BY <1>1
  <2>4. \A i \in 1..Len(w.ledger) : old[i] = Follow(w.ledger[i])
    BY <2>3
  <2>5. Len(old) = Len(w.ledger)
    BY <1>5, <2>3
  <2> HIDE DEF old
  <2> QED
    BY <2>1, <2>2, <2>3, <2>4, <2>5 DEF Kept
<1>7. \A j \in DOMAIN added : j \in DOMAIN new /\ KeyOf(added[j]) = new[j] /\ new[j] \in fresh
  <2> SUFFICES ASSUME NEW j \in DOMAIN added
               PROVE  j \in DOMAIN new /\ KeyOf(added[j]) = new[j] /\ new[j] \in fresh
    OBVIOUS
  <2>1. j \in DOMAIN new
    OBVIOUS
  <2>2. new[j] \in fresh
    <3> HIDE DEF new, fresh
    <3> QED
      BY <1>3, <2>1
  <2>3. new[j] \in Slugs \X Texts
    BY <1>2, <2>2
  <2>4. added[j].spec = new[j][1] /\ added[j].text = new[j][2]
    BY <2>1
  <2>5. KeyOf(added[j]) = <<new[j][1], new[j][2]>>
    BY <2>4 DEF KeyOf
  <2>6. new[j] = <<new[j][1], new[j][2]>>
    <3> HIDE DEF new
    <3> QED
      BY <2>3
  <2> QED
    BY <2>1, <2>2, <2>5, <2>6
<1>8. Distinct(added)
  <2>1. \A i, j \in DOMAIN new : new[i] = new[j] => i = j
    BY <1>2, SetToSeqType
  <2> HIDE DEF new, added, fresh
  <2> QED
    BY <1>7, <2>1 DEF Distinct
<1>9. \A i \in DOMAIN w.ledger, j \in DOMAIN added : KeyOf(w.ledger[i]) # KeyOf(added[j])
  <2>1. \A i \in DOMAIN w.ledger : KeyOf(w.ledger[i]) \notin fresh
    OBVIOUS
  <2> HIDE DEF new, added, fresh
  <2> QED
    BY <1>7, <2>1
<1> DEFINE with(l) == [w EXCEPT !.ledger = l]
<1>10. Sync(w) = with(old \o added)
  BY DEF Sync
<1> HIDE DEF old, added
<1>11. old \o added \in Seq(Row)
  BY <1>4, <1>5
<1>12. \A l \in Seq(Row) : with(l) \in Trees /\ with(l).spec = w.spec /\ with(l).ledger = l
  BY TreeShape
<1> HIDE DEF with
<1>13. Sync(w) \in Trees /\ Sync(w).spec = w.spec /\ Sync(w).ledger = old \o added
  BY <1>10, <1>11, <1>12
<1> QED
  BY <1>4, <1>5, <1>6, <1>8, <1>9, <1>13

LEMMA SyncType ==
  ASSUME NEW w \in Trees
  PROVE  Sync(w) \in Trees /\ Sync(w).spec = w.spec
BY SyncShape

\* sync_ledger gives no number twice and takes none back.
LEMMA SyncNumbers ==
  ASSUME NEW w \in Trees, Distinct(w.ledger)
  PROVE  Distinct(Sync(w).ledger) /\ Kept(w.ledger, Sync(w).ledger)
<1>1. PICK l, m \in Seq(Row) :
        /\ Sync(w).ledger = l \o m
        /\ Len(l) = Len(w.ledger) /\ Kept(w.ledger, l)
        /\ Distinct(m)
        /\ \A i \in DOMAIN w.ledger, j \in DOMAIN m : KeyOf(w.ledger[i]) # KeyOf(m[j])
  BY SyncShape
<1>2. /\ w.ledger \in Seq(Row) /\ Len(l) \in Nat /\ Len(m) \in Nat
      /\ DOMAIN w.ledger = 1..Len(l) /\ DOMAIN l = 1..Len(l) /\ DOMAIN m = 1..Len(m)
      /\ DOMAIN (l \o m) = 1..Len(l) + Len(m)
  <2>1. w.ledger \in Seq(Row)
    BY TreeShape
  <2>2. DOMAIN w.ledger = 1..Len(w.ledger) /\ DOMAIN l = 1..Len(l) /\ DOMAIN m = 1..Len(m)
        /\ Len(l) \in Nat /\ Len(m) \in Nat
    BY <2>1
  <2>3. DOMAIN (l \o m) = 1..Len(l) + Len(m)
    BY <2>2
  <2> QED
    BY <1>1, <2>1, <2>2, <2>3
<1>3. \A i \in 1..Len(l) : (l \o m)[i] = l[i]
  OBVIOUS
<1>4. \A i \in 1..Len(l) + Len(m) : i \notin 1..Len(l) =>
        i - Len(l) \in 1..Len(m) /\ (l \o m)[i] = m[i - Len(l)]
  BY <1>2
<1>5. \A i \in 1..Len(l) : KeyOf((l \o m)[i]) = KeyOf(w.ledger[i])
  BY <1>1, <1>2, <1>3 DEF Kept
<1>6. Distinct(l \o m)
  <2> SUFFICES ASSUME NEW i \in 1..Len(l) + Len(m), NEW j \in 1..Len(l) + Len(m),
                      KeyOf((l \o m)[i]) = KeyOf((l \o m)[j])
               PROVE  i = j
    BY <1>2 DEF Distinct
  <2>1. CASE i \in 1..Len(l) /\ j \in 1..Len(l)
    BY <1>2, <1>5, <2>1 DEF Distinct
  <2>2. CASE i \notin 1..Len(l) /\ j \notin 1..Len(l)
    <3>1. /\ i - Len(l) \in DOMAIN m /\ j - Len(l) \in DOMAIN m
          /\ KeyOf((l \o m)[i]) = KeyOf(m[i - Len(l)])
          /\ KeyOf((l \o m)[j]) = KeyOf(m[j - Len(l)])
      BY <1>2, <1>4, <2>2
    <3>2. \A a, b \in DOMAIN m : KeyOf(m[a]) = KeyOf(m[b]) => a = b
      BY <1>1 DEF Distinct
    <3>3. i - Len(l) = j - Len(l)
      BY <3>1, <3>2
    <3> QED
      BY <1>2, <3>3
  <2>3. CASE i \in 1..Len(l) /\ j \notin 1..Len(l)
    BY <1>1, <1>2, <1>4, <1>5, <2>3
  <2>4. CASE i \notin 1..Len(l) /\ j \in 1..Len(l)
    BY <1>1, <1>2, <1>4, <1>5, <2>4
  <2> QED
    BY <2>1, <2>2, <2>3, <2>4
<1>7. Kept(w.ledger, l \o m)
  BY <1>2, <1>5 DEF Kept
<1> QED
  BY <1>1, <1>6, <1>7

-----------------------------------------------------------------------------
(* What git and the human do to a tree.                                    *)

\* A contract put in place of another.
LEMMA PutType ==
  ASSUME NEW w \in Trees, NEW s \in Slugs, NEW c \in Contracts
  PROVE  /\ [w EXCEPT !.spec[s] = c] \in Trees
         /\ [w EXCEPT !.spec[s] = c].spec = [w.spec EXCEPT ![s] = c]
BY DEF Trees

LEMMA CheckoutType == Typed => Checkout \in Trees
BY DEF Typed, TypeOK, Checkout, Trees

LEMMA HardResetType ==
  ASSUME Typed, NEW to \in Trees PROVE HardReset(to) \in Trees
BY DEF Typed, TypeOK, HardReset, Trees

\* Undo goes back to a tree that was tagged.
LEMMA TagsShape ==
  ASSUME NEW q \in Seq(Trees), Len(q) >= 2
  PROVE  /\ q[Len(q) - 1] \in Trees /\ q[Len(q) - 1] \in ToSet(q)
         /\ Front(q) \in Seq(Trees) /\ ToSet(Front(q)) \subseteq ToSet(q)
         /\ Len(Front(q)) < Len(q)
<1>1. Len(q) - 1 \in 1..Len(q) /\ Len(q) \in Nat
  OBVIOUS
<1>2. /\ Front(q) \in Seq(Trees) /\ Len(Front(q)) = Len(q) - 1
      /\ \A i \in 1..Len(q) - 1 : Front(q)[i] = q[i]
  BY <1>1 DEF Front
<1> QED
  BY <1>1, <1>2 DEF ToSet

-----------------------------------------------------------------------------
(* Types.                                                                  *)

LEMMA ContractTypes ==
  ASSUME NEW t \in Texts
  PROVE  /\ Contract(t) \in Contracts /\ Approved(t) \in Contracts
         /\ [Contract(t) EXCEPT !.status = "blocked"] \in Contracts
         /\ [Approved(t) EXCEPT !.built = TRUE] \in Contracts
BY DEF Contract, Approved, Contracts

LEMMA InitTyped == Init => Typed
<1> SUFFICES ASSUME Init PROVE Typed
  OBVIOUS
<1> USE SpecChangeAssumption
<1>1. work.spec \in Specs
  BY ContractTypes DEF Init, Specs
<1>2. work.ledger \in Seq(Row)
  <2>1. [spec |-> Old, text |-> OldText, status |-> "built"] \in Row
    BY DEF Row, Live
  <2> QED
    BY <2>1 DEF Init
<1>3. work \in Trees
  <2>1. work = [spec |-> work.spec, ledger |-> work.ledger]
    BY DEF Init
  <2> QED
    BY <1>1, <1>2, <2>1 DEF Trees, Specs, Row
<1>4. head \in Trees /\ tags \in Seq(Trees)
  BY <1>3 DEF Init
<1>5. scrs \in Seq(Scr)
  BY DEF Init
<1>6. BuildOK
  BY DEF Init, BuildOK, Idle
<1> QED
  BY <1>3, <1>4, <1>5, <1>6 DEF Init, Typed, TypeOK, Scr

LEMMA ConsumeType ==
  ASSUME Typed, NEW s \in Slugs, Consume(s) PROVE scrs' \in Seq(Scr)
<1>1. PICK i \in Granting(s) : scrs' = [scrs EXCEPT ![i].status = "consumed"]
  BY DEF Consume
<1>2. scrs \in Seq(Scr) /\ i \in 1..Len(scrs) /\ scrs[i] \in Scr
  <2>1. scrs \in Seq(Scr)
    BY DEF Typed, TypeOK, Scr
  <2>2. i \in DOMAIN scrs
    BY DEF Granting
  <2> QED
    BY <2>1, <2>2
<1>3. [scrs[i] EXCEPT !.status = "consumed"] \in Scr
  BY <1>2 DEF Scr
<1> QED
  BY <1>1, <1>2, <1>3

\* What Settle makes of the build holds what its place asks for.
LEMMA SettleType ==
  ASSUME Typed, build.at \in {"spec", "save", "build"}, NEW failed, Settle(failed)
  PROVE  BuildOK'
<1>1. build.fdr \in FDRs
  BY DEF Typed, BuildOK
<1> QED
  BY <1>1 DEF Settle, BuildOK

LEMMA SaveSpecType ==
  ASSUME Typed, build.at \in {"spec", "save"}, NEW s \in Slugs, NEW t \in Texts,
         NEW clean, SaveSpec(s, t, clean)
  PROVE  work' \in Trees /\ BuildOK'
<1>1. build.fdr \in FDRs
  BY DEF Typed, BuildOK
<1>2. (IF clean THEN Approved(t) ELSE [Contract(t) EXCEPT !.status = "blocked"]) \in Contracts
  BY ContractTypes
<1>3. work' \in Trees
  BY <1>2, PutType DEF SaveSpec, Typed, TypeOK
<1>4. BuildOK'
  <2>1. CASE clean
    BY <1>1, <2>1 DEF SaveSpec, BuildOK
  <2>2. CASE ~ clean
    BY <2>2, SettleType DEF SaveSpec
  <2> QED
    BY <2>1, <2>2
<1> QED
  BY <1>3, <1>4

\* The requests a reconciliation raises are proposed ones.
LEMMA ProposedType ==
  ASSUME NEW proposed \in {{}} \cup {{s} : s \in Slugs}
  PROVE  SetToSeq({[spec |-> s, status |-> "proposed"] : s \in proposed})
           \in Seq([spec: Slugs, status: {"proposed"}])
<1> DEFINE raised == {[spec |-> s, status |-> "proposed"] : s \in proposed}
<1>1. raised = {} \/ \E s \in Slugs : raised = {[spec |-> s, status |-> "proposed"]}
  OBVIOUS
<1>2. IsFiniteSet(raised) /\ raised \subseteq [spec: Slugs, status: {"proposed"}]
  <2> HIDE DEF raised
  <2>1. CASE raised = {}
    BY <2>1, FS_EmptySet
  <2>2. ASSUME NEW s \in Slugs, raised = {[spec |-> s, status |-> "proposed"]}
        PROVE  IsFiniteSet(raised) /\ raised \subseteq [spec: Slugs, status: {"proposed"}]
    <3>1. [spec |-> s, status |-> "proposed"] \in [spec: Slugs, status: {"proposed"}]
      OBVIOUS
    <3> HIDE DEF raised
    <3>2. raised \subseteq [spec: Slugs, status: {"proposed"}]
      BY <2>2, <3>1
    <3>3. IsFiniteSet({[spec |-> s, status |-> "proposed"]})
      BY FS_Singleton
    <3> QED
      BY <2>2, <3>2, <3>3
  <2> QED
    BY <1>1, <2>1, <2>2
<1> HIDE DEF raised
<1>3. SetToSeq(raised) \in Seq(raised)
  BY <1>2, SetToSeqType
<1>4. SetToSeq(raised) \in Seq([spec: Slugs, status: {"proposed"}])
  BY <1>2, <1>3, SeqMonotonic
<1> QED
  BY <1>4 DEF raised

\* The steps of run_feature keep the types.
LEMMA StepTyped ==
  ASSUME Typed, Step PROVE Typed'
<1> USE DEF Typed
<1>0. work \in Trees /\ head \in Trees /\ tags \in Seq(Trees) /\ scrs \in Seq(Scr)
      /\ asked \subseteq FDRs /\ landed \subseteq FDRs /\ parked \in Changes \cup {None}
      /\ approvals \in [Slugs -> Nat] /\ rewrites \in [Slugs -> Nat]
  BY DEF TypeOK, Scr
<1>1. CASE Reconcile
  <2>1. work' \in Trees /\ build.fdr \in FDRs
    BY <1>0, <1>1, SyncType DEF Reconcile, BuildOK
  <2>2. CASE build' = Idle /\ UNCHANGED scrs
    BY <1>0, <1>1, <2>1, <2>2 DEF Reconcile, TypeOK, BuildOK, Idle, Scr, ghost
  <2>3. CASE \E n \in 1..MaxTasks, proposed \in {{}} \cup {{s} : s \in Slugs} :
               /\ build' = [at |-> "spec", fdr |-> build.fdr, pass |-> 1, todo |-> n, failed |-> 0]
               /\ scrs' = scrs \o SetToSeq({[spec |-> s, status |-> "proposed"] : s \in proposed})
    <3>1. PICK n \in 1..MaxTasks, proposed \in {{}} \cup {{s} : s \in Slugs} :
               /\ build' = [at |-> "spec", fdr |-> build.fdr, pass |-> 1, todo |-> n, failed |-> 0]
               /\ scrs' = scrs \o SetToSeq({[spec |-> s, status |-> "proposed"] : s \in proposed})
      BY <2>3
    <3>2. SetToSeq({[spec |-> s, status |-> "proposed"] : s \in proposed}) \in Seq(Scr)
      <4>1. [spec: Slugs, status: {"proposed"}] \subseteq Scr
        BY DEF Scr
      <4> QED
        BY <4>1, ProposedType, SeqMonotonic
    <3> DEFINE more == SetToSeq({[spec |-> s, status |-> "proposed"] : s \in proposed})
    <3> HIDE DEF more
    <3>3. scrs' \in Seq(Scr)
      BY <1>0, <3>1, <3>2, ConcatProperties DEF more
    <3>4. BuildOK'
      BY <2>1, <3>1 DEF BuildOK
    <3> QED
      BY <1>0, <1>1, <2>1, <3>3, <3>4 DEF Reconcile, TypeOK, Scr, ghost
  <2> QED
    BY <1>1, <2>2, <2>3 DEF Reconcile
<1>2. ASSUME NEW s \in Slugs, NEW t \in Texts, NEW clean \in BOOLEAN, WriteSpec(s, t, clean)
      PROVE  Typed'
  <2>1. work' \in Trees /\ BuildOK'
    BY <1>2, SaveSpecType DEF WriteSpec
  <2> QED
    BY <1>0, <1>2, <2>1 DEF WriteSpec, TypeOK, Scr, ghost
<1>3. ASSUME NEW s \in Slugs, NEW t \in Texts, NEW clean \in BOOLEAN, SpendOnSpec(s, t, clean)
      PROVE  Typed'
  <2>1. scrs' \in Seq(Scr)
    BY <1>3, ConsumeType DEF SpendOnSpec
  <2>2. BuildOK'
    BY <1>3 DEF SpendOnSpec, BuildOK
  <2> QED
    BY <1>0, <1>3, <2>1, <2>2 DEF SpendOnSpec, TypeOK, Scr, ghost, files
<1>4. CASE SaveGranted
  <2>1. build.spec \in Slugs /\ build.text \in Texts
    BY <1>4 DEF SaveGranted, BuildOK
  <2>2. work' \in Trees /\ BuildOK'
    BY <1>4, <2>1, SaveSpecType DEF SaveGranted
  <2>3. rewrites' \in [Slugs -> Nat]
    BY <1>0, <1>4, <2>1 DEF SaveGranted
  <2> QED
    BY <1>0, <1>4, <2>2, <2>3 DEF SaveGranted, TypeOK, Scr
<1>5. ASSUME NEW s \in Slugs, SpecRefused(s) PROVE Typed'
  BY <1>0, <1>5 DEF SpecRefused, TypeOK, BuildOK, Idle, Scr, ghost, files
<1>6. CASE Built
  <2>1. build.spec \in Slugs /\ work.spec[build.spec] \in Contracts
    BY <1>0, <1>6, TreeShape DEF Built, BuildOK, Specs
  <2>2. [work.spec[build.spec] EXCEPT !.built = TRUE] \in Contracts
    BY <2>1 DEF Contracts
  <2>3. [work EXCEPT !.spec[build.spec].built = TRUE]
          = [work EXCEPT !.spec[build.spec] = [work.spec[build.spec] EXCEPT !.built = TRUE]]
    OBVIOUS
  <2>4. [work EXCEPT !.spec[build.spec].built = TRUE] \in Trees
    BY <1>0, <2>1, <2>2, <2>3, PutType
  <2>5. work' \in Trees /\ head' \in Trees
    BY <1>6, <2>4, SyncType DEF Built
  <2>6. BuildOK'
    BY <1>6, SettleType DEF Built
  <2> QED
    BY <1>0, <1>6, <2>5, <2>6 DEF Built, TypeOK, Scr, ghost
<1>7. CASE BuildFailed
  <2>1. work' \in Trees /\ BuildOK'
    BY <1>7, CheckoutType, SettleType DEF BuildFailed
  <2> QED
    BY <1>0, <1>7, <2>1 DEF BuildFailed, TypeOK, Scr, ghost
<1>8. CASE BuildRaises
  BY <1>0, <1>8 DEF BuildRaises, TypeOK, BuildOK, Idle, Scr, ghost, files
<1>9. CASE Finish
  <2>1. work' \in Trees /\ build.fdr \in FDRs
    BY <1>0, <1>9, SyncType DEF Finish, BuildOK
  <2> QED
    BY <1>0, <1>9, <2>1 DEF Finish, TypeOK, BuildOK, Idle, Scr
<1>10. CASE TakeParked
  <2>1. build.fdr \in FDRs /\ (parked = build.fdr => parked \in Changes)
    BY <1>0, <1>10, SpecChangeAssumption DEF TakeParked, BuildOK
  <2> QED
    BY <1>0, <1>10, <2>1 DEF TakeParked, Go, TypeOK, BuildOK, Scr, ghost, files
<1>11. CASE Amend
  <2>1. build.change \in Changes /\ build.change.spec \in Slugs
    BY <1>11, SpecChangeAssumption DEF Amend, BuildOK
  <2>2. scrs' \in Seq(Scr)
    BY <1>0, <1>11, <2>1, ConsumeType DEF Amend
  <2>3. work.spec[build.change.spec] # None => work.spec[build.change.spec] \in Contracts
    BY <1>0, <2>1, TreeShape DEF Specs
  <2>4. BuildOK'
    BY <1>11, <2>1, <2>3 DEF Amend, Go, BuildOK
  <2> QED
    BY <1>0, <1>11, <2>2, <2>4 DEF Amend, TypeOK, Scr, ghost, files
<1>12. CASE StampAmendment
  <2>1. build.change \in Changes /\ build.change.spec \in Slugs /\ build.change.text \in Texts
        /\ build.copy \in Contracts
    BY <1>12, SpecChangeAssumption DEF StampAmendment, BuildOK
  <2>2. Stamped(build.copy, build.change) \in Contracts
    BY <2>1 DEF Stamped, Contracts
  <2>3. work' \in Trees
    BY <1>0, <1>12, <2>1, <2>2, PutType DEF StampAmendment
  <2>4. rewrites' \in [Slugs -> Nat]
    BY <1>0, <1>12, <2>1 DEF StampAmendment
  <2> QED
    BY <1>0, <1>12, <2>3, <2>4 DEF StampAmendment, Go, TypeOK, BuildOK, Scr
<1>13. CASE Tag
  BY <1>0, <1>13 DEF Tag, TypeOK, BuildOK, Idle, Scr, ghost
<1> QED
  BY <1>1, <1>2, <1>3, <1>4, <1>5, <1>6, <1>7, <1>8, <1>9, <1>10, <1>11, <1>12, <1>13 DEF Step

-----------------------------------------------------------------------------
LEMMA NextTyped == Typed /\ [Next]_vars => Typed'
<1> SUFFICES ASSUME Typed, [Next]_vars PROVE Typed'
  OBVIOUS
<1> USE DEF Typed
<1>0. work \in Trees /\ head \in Trees /\ tags \in Seq(Trees) /\ scrs \in Seq(Scr)
      /\ asked \subseteq FDRs /\ landed \subseteq FDRs /\ parked \in Changes \cup {None}
      /\ approvals \in [Slugs -> Nat] /\ rewrites \in [Slugs -> Nat]
  BY DEF TypeOK, Scr
<1>1. ASSUME NEW c \in Changes, Confirm(c) PROVE Typed'
  <2>1. c.spec \in Slugs /\ c \in FDRs
    BY SpecChangeAssumption DEF FDRs
  <2>2. [spec |-> c.spec, status |-> "approved"] \in Scr
    BY <2>1 DEF Scr
  <2>3. scrs' \in Seq(Scr)
    BY <1>0, <1>1, <2>2 DEF Confirm
  <2>4. approvals' \in [Slugs -> Nat]
    BY <1>0, <1>1, <2>1 DEF Confirm
  <2>5. BuildOK' /\ asked' \subseteq FDRs
    BY <1>0, <1>1, <2>1 DEF Confirm, Spawn, BuildOK
  <2> QED
    BY <1>0, <1>1, <2>3, <2>4, <2>5 DEF Confirm, TypeOK, Scr, files
<1>2. ASSUME NEW f \in FDRs, Add(f) PROVE Typed'
  BY <1>0, <1>2 DEF Add, Spawn, TypeOK, BuildOK, Scr, files
<1>3. ASSUME NEW i \in DOMAIN scrs, ApproveScr(i) PROVE Typed'
  <2>1. i \in 1..Len(scrs) /\ scrs[i] \in Scr
    BY <1>0
  <2>2. [scrs[i] EXCEPT !.status = "approved"] \in Scr /\ scrs[i].spec \in Slugs
    BY <2>1 DEF Scr
  <2>3. scrs' \in Seq(Scr)
    BY <1>0, <1>3, <2>1, <2>2 DEF ApproveScr
  <2>4. approvals' \in [Slugs -> Nat]
    BY <1>0, <1>3, <2>2 DEF ApproveScr
  <2> QED
    BY <1>0, <1>3, <2>3, <2>4 DEF ApproveScr, TypeOK, BuildOK, Scr, files
<1>4. CASE RepairLands
  BY <1>0, <1>4 DEF RepairLands, TypeOK, BuildOK, Scr, ghost
<1>5. CASE RepairFails
  BY <1>0, <1>5 DEF RepairFails, TypeOK, BuildOK, Scr, ghost
<1>6. CASE Undo
  <2>1. tags[Len(tags) - 1] \in Trees /\ Front(tags) \in Seq(Trees)
    BY <1>0, <1>6, TagsShape DEF Undo
  <2>2. work' \in Trees /\ head' \in Trees /\ tags' \in Seq(Trees)
    BY <1>6, <2>1, HardResetType DEF Undo
  <2> QED
    BY <1>0, <1>6, <2>2 DEF Undo, TypeOK, BuildOK, Scr, ghost
<1>7. CASE Step
  BY <1>7, StepTyped
<1>8. CASE Crash
  BY <1>0, <1>8 DEF Crash, TypeOK, BuildOK, Idle, Scr, ghost, files
<1>9. CASE UNCHANGED vars
  BY <1>0, <1>9 DEF vars, TypeOK, BuildOK, Scr, ghost, files
<1> QED
  BY <1>1, <1>2, <1>3, <1>4, <1>5, <1>6, <1>7, <1>8, <1>9 DEF Next

LEMMA AlwaysTyped == Spec => []Typed
BY InitTyped, NextTyped, PTL DEF Spec

\* The trees are trees of contracts and ledger rows, whatever was copied where.
THEOREM TypeCorrect == Spec => []TypeOK
<1>1. Typed => TypeOK
  BY DEF Typed
<1> QED
  BY <1>1, AlwaysTyped, PTL

-----------------------------------------------------------------------------
(* Contracts travel.  If every contract there is belongs to a set S, and   *)
(* what is written belongs to it too, every contract belongs to it after a *)
(* step, whichever trees it copied.                                        *)

Over(S) == [Slugs -> S \cup {None}]

OverAll(w, h, q, S) ==
  w.spec \in Over(S) /\ h.spec \in Over(S) /\ \A i \in DOMAIN q : q[i].spec \in Over(S)

LEMMA TagAdded ==
  ASSUME NEW S, NEW q \in Seq(Trees), NEW w \in Trees,
         \A i \in DOMAIN q : q[i].spec \in Over(S), w.spec \in Over(S)
  PROVE  \A i \in DOMAIN Append(q, w) : Append(q, w)[i].spec \in Over(S)
<1> SUFFICES ASSUME NEW i \in DOMAIN Append(q, w) PROVE Append(q, w)[i].spec \in Over(S)
  OBVIOUS
<1>1. CASE i \in DOMAIN q
  <2>1. Append(q, w)[i] = q[i]
    BY <1>1
  <2> QED
    BY <1>1, <2>1
<1>2. CASE i \notin DOMAIN q
  <2>1. Append(q, w)[i] = w
    BY <1>2
  <2> QED
    BY <2>1
<1> QED
  BY <1>1, <1>2

LEMMA InitOver ==
  ASSUME Init, NEW S, [Approved(OldText) EXCEPT !.built = TRUE] \in S
  PROVE  OverAll(work, head, tags, S) /\ build.at = "idle"
<1>1. work.spec \in Over(S)
  BY DEF Init, Over
<1>2. DOMAIN tags = {1} /\ tags[1] = work /\ head = work /\ build = Idle
  <2>1. tags = <<work>> /\ head = work /\ build = Idle
    BY DEF Init
  <2> QED
    BY <2>1
<1> QED
  BY <1>1, <1>2 DEF OverAll, Idle

\* A reconciled request is over, or goes on to its specs.
LEMMA ReconcileGoes ==
  ASSUME Reconcile PROVE build'.at \in {"idle", "spec"} /\ UNCHANGED ghost
<1>1. CASE build' = Idle
  BY <1>1 DEF Reconcile, Idle
<1>2. CASE \E n \in 1..MaxTasks : build' = [at |-> "spec", fdr |-> build.fdr, pass |-> 1,
                                          todo |-> n, failed |-> 0]
  BY <1>2 DEF Reconcile
<1> QED
  BY <1>1, <1>2 DEF Reconcile

LEMMA SaveSpecKeeps ==
  ASSUME Typed, NEW S, work.spec \in Over(S),
         \A t \in Texts : Approved(t) \in S /\ [Contract(t) EXCEPT !.status = "blocked"] \in S,
         NEW s \in Slugs, NEW t \in Texts, NEW clean, SaveSpec(s, t, clean)
  PROVE  work'.spec \in Over(S)
<1> DEFINE c == IF clean THEN Approved(t) ELSE [Contract(t) EXCEPT !.status = "blocked"]
<1>1. c \in S /\ work' = [work EXCEPT !.spec[s] = c]
  BY DEF SaveSpec
<1>2. c \in Contracts /\ work \in Trees
  BY ContractTypes DEF Typed, TypeOK
<1> HIDE DEF c
<1>3. work'.spec = [work.spec EXCEPT ![s] = c]
  BY <1>1, <1>2, PutType
<1> QED
  BY <1>1, <1>3 DEF Over

LEMMA ContractsTravel ==
  ASSUME Typed, [Next]_vars, NEW S, OverAll(work, head, tags, S),
         \A t \in Texts : Approved(t) \in S /\ [Contract(t) EXCEPT !.status = "blocked"] \in S,
         build.at = "build" /\ work.spec[build.spec] # None =>
           [work.spec[build.spec] EXCEPT !.built = TRUE] \in S,
         build.at = "stamp" => Stamped(build.copy, build.change) \in S
  PROVE  OverAll(work', head', tags', S)
<1>0. /\ work \in Trees /\ head \in Trees /\ tags \in Seq(Trees)
      /\ work.spec \in Over(S) /\ head.spec \in Over(S)
      /\ \A i \in DOMAIN tags : tags[i].spec \in Over(S)
  BY DEF Typed, TypeOK, OverAll
<1>1. ASSUME UNCHANGED <<head, tags>>, work'.spec \in Over(S) PROVE OverAll(work', head', tags', S)
  BY <1>0, <1>1 DEF OverAll
<1>2. ASSUME UNCHANGED files PROVE OverAll(work', head', tags', S)
  BY <1>0, <1>2 DEF OverAll, files
<1>3. CASE RepairLands
  BY <1>0, <1>3, TagAdded DEF RepairLands, OverAll
<1>4. CASE RepairFails
  BY <1>0, <1>1, <1>4 DEF RepairFails
<1>5. CASE Undo
  <2> DEFINE to == tags[Len(tags) - 1]
  <2>1. /\ Len(tags) \in Nat /\ Len(tags) - 1 \in DOMAIN tags
        /\ DOMAIN Front(tags) \subseteq DOMAIN tags
        /\ \A i \in DOMAIN Front(tags) : Front(tags)[i] = tags[i]
    BY <1>0, <1>5 DEF Undo, Front
  <2>2. to.spec \in Over(S)
    BY <1>0, <2>1
  <2>3. HardReset(to).spec \in Over(S)
    BY <1>0, <2>2 DEF HardReset, Over
  <2> QED
    BY <1>0, <1>5, <2>1, <2>2, <2>3 DEF Undo, OverAll
<1>6. CASE Step
  <2>1. CASE Reconcile
    BY <1>0, <1>1, <2>1, SyncType DEF Reconcile
  <2>2. ASSUME NEW s \in Slugs, NEW t \in Texts, NEW clean \in BOOLEAN, WriteSpec(s, t, clean)
        PROVE  OverAll(work', head', tags', S)
    BY <1>0, <1>1, <2>2, SaveSpecKeeps DEF WriteSpec
  <2>3. ASSUME NEW s \in Slugs, NEW t \in Texts, NEW clean \in BOOLEAN, SpendOnSpec(s, t, clean)
        PROVE  OverAll(work', head', tags', S)
    BY <1>2, <2>3 DEF SpendOnSpec
  <2>4. CASE SaveGranted
    <3>1. build.spec \in Slugs /\ build.text \in Texts
      BY <2>4 DEF SaveGranted, Typed, BuildOK
    <3> QED
      BY <1>0, <1>1, <2>4, <3>1, SaveSpecKeeps DEF SaveGranted
  <2>5. ASSUME NEW s \in Slugs, SpecRefused(s) PROVE OverAll(work', head', tags', S)
    BY <1>2, <2>5 DEF SpecRefused
  <2>6. CASE Built
    <3> DEFINE c == [work.spec[build.spec] EXCEPT !.built = TRUE]
               w == [work EXCEPT !.spec[build.spec].built = TRUE]
    <3>1. build.spec \in Slugs /\ work.spec[build.spec] \in Contracts /\ c \in S
      BY <1>0, <2>6, TreeShape DEF Built, Typed, BuildOK, Specs
    <3>2. c \in Contracts
      BY <3>1 DEF Contracts
    <3>3. w = [work EXCEPT !.spec[build.spec] = c]
      OBVIOUS
    <3>4. w \in Trees /\ w.spec = [work.spec EXCEPT ![build.spec] = c]
      <4> HIDE DEF c, w
      <4> QED
        BY <1>0, <3>1, <3>2, <3>3, PutType
    <3>5. Sync(w) \in Trees /\ Sync(w).spec = w.spec
      BY <3>4, SyncType
    <3>6. w.spec \in Over(S)
      <4> HIDE DEF c, w
      <4> QED
        BY <1>0, <3>1, <3>4 DEF Over
    <3>7. work' = Sync(w) /\ head' = Sync(w) /\ tags' = tags
      BY <2>6 DEF Built
    <3> QED
      BY <1>0, <3>5, <3>6, <3>7 DEF OverAll
  <2>7. CASE BuildFailed
    <3>1. Checkout.spec \in Over(S)
      BY <1>0 DEF Checkout, Over
    <3> QED
      BY <1>1, <2>7, <3>1 DEF BuildFailed
  <2>8. CASE BuildRaises
    BY <1>2, <2>8 DEF BuildRaises
  <2>9. CASE Finish
    BY <1>0, <1>1, <2>9, SyncType DEF Finish
  <2>10. CASE TakeParked
    BY <1>2, <2>10 DEF TakeParked
  <2>11. CASE Amend
    BY <1>2, <2>11 DEF Amend
  <2>12. CASE StampAmendment
    <3> DEFINE c == Stamped(build.copy, build.change)
    <3>1. /\ build.change.spec \in Slugs /\ build.change \in Changes
          /\ build.change.text \in Texts /\ build.copy \in Contracts /\ c \in S
      BY <2>12, SpecChangeAssumption DEF StampAmendment, Typed, BuildOK
    <3>2. c \in Contracts
      BY <3>1 DEF Stamped, Contracts
    <3>3. work' = [work EXCEPT !.spec[build.change.spec] = c] /\ UNCHANGED <<head, tags>>
      BY <2>12 DEF StampAmendment
    <3> HIDE DEF c
    <3>4. work'.spec = [work.spec EXCEPT ![build.change.spec] = c]
      BY <1>0, <3>1, <3>2, <3>3, PutType
    <3> QED
      BY <1>0, <1>1, <3>1, <3>3, <3>4 DEF Over
  <2>13. CASE Tag
    BY <1>0, <2>13, TagAdded DEF Tag, OverAll
  <2> QED
    BY <1>6, <2>1, <2>2, <2>3, <2>4, <2>5, <2>6, <2>7, <2>8, <2>9, <2>10, <2>11, <2>12, <2>13
    DEF Step
<1> QED
  BY <1>2, <1>3, <1>4, <1>5, <1>6 DEF Next, Confirm, Add, ApproveScr, Crash, vars, files

-----------------------------------------------------------------------------
(* Amendments.  The build that takes a parked amendment is the one that    *)
(* built the change, so the stamp it ends in names a change that landed.   *)

ByOneOf(F) == {c \in Contracts : c.by \in F \cup {None}}

AmendInv ==
  /\ OverAll(work, head, tags, ByOneOf(landed))
  /\ build.at = "amend" => build.fdr \in landed
  /\ build.at \in {"grant", "stamp"} => build.change \in landed

LEMMA InitAmend == Init => AmendInv
<1> SUFFICES ASSUME Init PROVE AmendInv
  OBVIOUS
<1>1. [Approved(OldText) EXCEPT !.built = TRUE] \in ByOneOf(landed)
  BY SpecChangeAssumption, ContractTypes DEF ByOneOf, Approved, Contract
<1>2. OverAll(work, head, tags, ByOneOf(landed)) /\ build.at = "idle"
  BY <1>1, InitOver
<1> QED
  BY <1>2 DEF AmendInv

LEMMA OverGrows ==
  ASSUME NEW S, NEW T, S \subseteq T, NEW w, NEW h, NEW q, OverAll(w, h, q, S)
  PROVE  OverAll(w, h, q, T)
BY DEF OverAll, Over

\* Where the build's place and what it holds for it come from.
LEMMA AmendPlaces ==
  ASSUME Typed, AmendInv, [Next]_vars
  PROVE  /\ build'.at = "amend" => build'.fdr \in landed'
         /\ build'.at \in {"grant", "stamp"} => build'.change \in landed'
         /\ landed \subseteq landed'
<1>1. CASE Step
  <2>1. CASE Reconcile
    BY <2>1, ReconcileGoes DEF ghost
  <2>2. ASSUME NEW s \in Slugs, NEW t \in Texts, NEW clean \in BOOLEAN, WriteSpec(s, t, clean)
        PROVE  build'.at \notin {"amend", "grant", "stamp"} /\ landed' = landed
    BY <2>2 DEF WriteSpec, SaveSpec, Settle, ghost
  <2>3. ASSUME NEW s \in Slugs, NEW t \in Texts, NEW clean \in BOOLEAN, SpendOnSpec(s, t, clean)
        PROVE  build'.at \notin {"amend", "grant", "stamp"} /\ landed' = landed
    BY <2>3 DEF SpendOnSpec, ghost
  <2>4. CASE SaveGranted
    BY <2>4 DEF SaveGranted, SaveSpec, Settle
  <2>5. ASSUME NEW s \in Slugs, SpecRefused(s)
        PROVE  build'.at \notin {"amend", "grant", "stamp"} /\ landed' = landed
    BY <2>5 DEF SpecRefused, Idle, ghost
  <2>6. CASE Built \/ BuildFailed
    BY <2>6 DEF Built, BuildFailed, Settle, ghost
  <2>7. CASE BuildRaises
    BY <2>7 DEF BuildRaises, Idle, ghost
  <2>8. CASE Finish
    BY <2>8 DEF Finish, Idle
  <2>9. CASE TakeParked
    BY <2>9 DEF TakeParked, Go, AmendInv, ghost
  <2>10. CASE Amend
    BY <2>10 DEF Amend, Go, AmendInv, ghost
  <2>11. CASE StampAmendment
    BY <2>11 DEF StampAmendment, Go
  <2>12. CASE Tag
    BY <2>12 DEF Tag, Idle, ghost
  <2> QED
    BY <1>1, <2>1, <2>2, <2>3, <2>4, <2>5, <2>6, <2>7, <2>8, <2>9, <2>10, <2>11, <2>12 DEF Step
<1>2. ASSUME NEW c \in Changes, Confirm(c)
      PROVE  build'.at \notin {"amend", "grant", "stamp"} /\ landed' = landed
  BY <1>2 DEF Confirm, Spawn
<1>3. ASSUME NEW f \in FDRs, Add(f)
      PROVE  build'.at \notin {"amend", "grant", "stamp"} /\ landed' = landed
  BY <1>3 DEF Add, Spawn
<1>4. CASE Crash
  BY <1>4 DEF Crash, Idle, ghost
<1>5. CASE (\E i \in DOMAIN scrs : ApproveScr(i)) \/ RepairLands \/ RepairFails \/ Undo
           \/ UNCHANGED vars
  BY <1>5 DEF ApproveScr, RepairLands, RepairFails, Undo, vars, ghost, AmendInv
<1> QED
  BY <1>1, <1>2, <1>3, <1>4, <1>5 DEF Next

LEMMA NextAmend == Typed /\ AmendInv /\ [Next]_vars => AmendInv'
<1> SUFFICES ASSUME Typed, AmendInv, [Next]_vars PROVE AmendInv'
  OBVIOUS
<1> DEFINE S == ByOneOf(landed)
<1>1. \A t \in Texts : Approved(t) \in S /\ [Contract(t) EXCEPT !.status = "blocked"] \in S
  BY ContractTypes DEF ByOneOf, Approved, Contract
<1>2. build.at = "build" /\ work.spec[build.spec] # None =>
        [work.spec[build.spec] EXCEPT !.built = TRUE] \in S
  <2> SUFFICES ASSUME build.at = "build", work.spec[build.spec] # None
               PROVE  [work.spec[build.spec] EXCEPT !.built = TRUE] \in S
    OBVIOUS
  <2>1. build.spec \in Slugs /\ work.spec[build.spec] \in S
    BY DEF Typed, BuildOK, AmendInv, OverAll, Over
  <2> QED
    BY <2>1 DEF ByOneOf, Contracts
<1>3. build.at = "stamp" => Stamped(build.copy, build.change) \in S
  <2> SUFFICES ASSUME build.at = "stamp" PROVE Stamped(build.copy, build.change) \in S
    OBVIOUS
  <2>1. build.change \in Changes /\ build.change.text \in Texts /\ build.copy \in Contracts
        /\ build.change \in landed
    BY SpecChangeAssumption DEF Typed, BuildOK, AmendInv
  <2> QED
    BY <2>1 DEF ByOneOf, Contracts, Stamped
<1>4. OverAll(work', head', tags', S)
  <2>1. OverAll(work, head, tags, S)
    BY DEF AmendInv
  <2> HIDE DEF S
  <2> QED
    BY <1>1, <1>2, <1>3, <2>1, ContractsTravel
<1>5. S \subseteq ByOneOf(landed')
  BY AmendPlaces DEF ByOneOf
<1>6. OverAll(work', head', tags', ByOneOf(landed'))
  BY <1>4, <1>5, OverGrows
<1> QED
  BY <1>6, AmendPlaces DEF AmendInv

\* Criteria drafted for a change are in a spec only once that change was built.
THEOREM OnlyBuiltChangesAmend == Spec => []AmendmentFollowsItsBuild
<1>1. AmendInv => AmendmentFollowsItsBuild
  BY DEF AmendInv, OverAll, Over, ByOneOf, AmendmentFollowsItsBuild
<1>2. Spec => []AmendInv
  BY AlwaysTyped, InitAmend, NextAmend, PTL DEF Spec
<1> QED
  BY <1>1, <1>2, PTL

-----------------------------------------------------------------------------
(* Ratified contracts.  A spec under build has just passed its gate, and   *)
(* every tree a checkout or a reset could bring back was ratified too.     *)

Ratified == {c \in Contracts : c.built => c.pinned = c.text}

ForkInv ==
  ~ beside =>
    /\ OverAll(work, head, tags, Ratified)
    /\ build.at = "build" /\ work.spec[build.spec] # None =>
         work.spec[build.spec].pinned = work.spec[build.spec].text

LEMMA InitFork == Init => ForkInv
<1> SUFFICES ASSUME Init PROVE ForkInv
  OBVIOUS
<1>1. [Approved(OldText) EXCEPT !.built = TRUE] \in Ratified
  BY SpecChangeAssumption, ContractTypes DEF Ratified, Approved, Contract
<1>2. OverAll(work, head, tags, Ratified) /\ build.at = "idle"
  BY <1>1, InitOver
<1> QED
  BY <1>2 DEF ForkInv

\* A saved spec goes to the build approved.
LEMMA SavedIsPinned ==
  ASSUME Typed, NEW s \in Slugs, NEW t \in Texts, NEW clean, SaveSpec(s, t, clean)
  PROVE  build'.at = "build" => work'.spec[build'.spec].pinned = work'.spec[build'.spec].text
<1>1. work \in Trees /\ Approved(t) \in Contracts
  BY ContractTypes DEF Typed, TypeOK
<1>2. CASE clean
  <2>1. work'.spec = [work.spec EXCEPT ![s] = Approved(t)] /\ build'.spec = s
    BY <1>1, <1>2, PutType DEF SaveSpec
  <2>2. work'.spec[s] = Approved(t)
    BY <1>1, <2>1, TreeShape DEF Specs
  <2> QED
    BY <2>1, <2>2 DEF Approved, Contract
<1>3. CASE ~ clean
  BY <1>3 DEF SaveSpec, Settle
<1> QED
  BY <1>2, <1>3

LEMMA ForkPlaces ==
  ASSUME Typed, ForkInv, [Next]_vars, ~ beside', build'.at = "build",
         work'.spec[build'.spec] # None
  PROVE  work'.spec[build'.spec].pinned = work'.spec[build'.spec].text
<1>0. ~ beside /\ (build.at = "build" /\ work.spec[build.spec] # None =>
                     work.spec[build.spec].pinned = work.spec[build.spec].text)
  <2>1. beside => beside'
    BY DEF Next, Confirm, Add, ApproveScr, RepairLands, RepairFails, Undo, Touch, Crash, Step,
           Reconcile, WriteSpec, SpendOnSpec, SaveGranted, SpecRefused, Built, BuildFailed,
           BuildRaises, Finish, TakeParked, Amend, StampAmendment, Tag, vars
  <2> QED
    BY <2>1 DEF ForkInv
<1>1. CASE Step
  <2>1. ASSUME NEW s \in Slugs, NEW t \in Texts, NEW clean \in BOOLEAN, WriteSpec(s, t, clean)
        PROVE  work'.spec[build'.spec].pinned = work'.spec[build'.spec].text
    BY <2>1, SavedIsPinned DEF WriteSpec
  <2>2. CASE SaveGranted
    BY <2>2, SavedIsPinned DEF SaveGranted, Typed, BuildOK
  <2>3. CASE Reconcile
    BY <2>3, ReconcileGoes
  <2>6. CASE Built \/ BuildFailed
    BY <2>6 DEF Built, BuildFailed, Settle
  <2>7. CASE BuildRaises \/ Finish \/ TakeParked \/ Amend \/ StampAmendment \/ Tag
    BY <2>7 DEF BuildRaises, Finish, TakeParked, Amend, StampAmendment, Tag, Go, Idle
  <2>4. ASSUME NEW s \in Slugs, SpecRefused(s) PROVE FALSE
    BY <2>4 DEF SpecRefused, Idle
  <2>5. ASSUME NEW s \in Slugs, NEW t \in Texts, NEW clean \in BOOLEAN, SpendOnSpec(s, t, clean)
        PROVE  FALSE
    BY <2>5 DEF SpendOnSpec
  <2> QED
    BY <1>1, <2>1, <2>2, <2>3, <2>4, <2>5, <2>6, <2>7 DEF Step
<1>2. CASE RepairLands \/ RepairFails \/ Undo
  <2>1. beside' = (beside \/ build # Idle) /\ build' = build
    BY <1>2 DEF RepairLands, RepairFails, Undo, Touch
  <2>2. build' = Idle
    BY <2>1
  <2> QED
    BY <2>2 DEF Idle
<1>3. ASSUME NEW c \in Changes, Confirm(c) PROVE FALSE
  BY <1>3 DEF Confirm, Spawn
<1>4. ASSUME NEW f \in FDRs, Add(f) PROVE FALSE
  BY <1>4 DEF Add, Spawn
<1>5. CASE (\E i \in DOMAIN scrs : ApproveScr(i)) \/ UNCHANGED vars
  BY <1>0, <1>5 DEF ApproveScr, vars, files
<1>6. CASE Crash
  BY <1>6 DEF Crash, Idle
<1> QED
  BY <1>1, <1>2, <1>3, <1>4, <1>5, <1>6 DEF Next

LEMMA NextFork == Typed /\ ForkInv /\ [Next]_vars => ForkInv'
<1> SUFFICES ASSUME Typed, ForkInv, [Next]_vars, ~ beside' PROVE ForkInv'
  BY DEF ForkInv
<1>0. ~ beside
  BY DEF Next, Confirm, Add, ApproveScr, RepairLands, RepairFails, Undo, Touch, Crash, Step,
         Reconcile, WriteSpec, SpendOnSpec, SaveGranted, SpecRefused, Built, BuildFailed,
         BuildRaises, Finish, TakeParked, Amend, StampAmendment, Tag, vars
<1>1. \A t \in Texts :
        Approved(t) \in Ratified /\ [Contract(t) EXCEPT !.status = "blocked"] \in Ratified
  BY ContractTypes DEF Ratified, Approved, Contract
<1>2. build.at = "build" /\ work.spec[build.spec] # None =>
        [work.spec[build.spec] EXCEPT !.built = TRUE] \in Ratified
  <2> SUFFICES ASSUME build.at = "build", work.spec[build.spec] # None
               PROVE  [work.spec[build.spec] EXCEPT !.built = TRUE] \in Ratified
    OBVIOUS
  <2>1. build.spec \in Slugs /\ work.spec[build.spec] \in Contracts
    BY TreeShape DEF Typed, TypeOK, BuildOK, Specs
  <2>2. work.spec[build.spec].pinned = work.spec[build.spec].text
    BY <1>0 DEF ForkInv
  <2> QED
    BY <2>1, <2>2 DEF Ratified, Contracts
<1>3. build.at = "stamp" => Stamped(build.copy, build.change) \in Ratified
  <2> SUFFICES ASSUME build.at = "stamp" PROVE Stamped(build.copy, build.change) \in Ratified
    OBVIOUS
  <2>1. build.change \in Changes /\ build.change.text \in Texts /\ build.copy \in Contracts
    BY SpecChangeAssumption DEF Typed, BuildOK
  <2> QED
    BY <2>1 DEF Ratified, Contracts, Stamped
<1>4. OverAll(work', head', tags', Ratified)
  <2>1. OverAll(work, head, tags, Ratified)
    BY <1>0 DEF ForkInv
  <2> QED
    BY <1>1, <1>2, <1>3, <2>1, ContractsTravel
<1> QED
  BY <1>4, ForkPlaces DEF ForkInv

\* No contract reads as built that is not the one its approval pinned, unless a
\* repair or an undo ran beside a build.
THEOREM BuiltIsRatified == Spec => []NoUnratifiedFork
<1>1. Typed /\ ForkInv => NoUnratifiedFork
  <2> SUFFICES ASSUME Typed, ForkInv, ~ beside, NEW s \in Slugs,
                      NEW tree \in {work, head} \cup ToSet(tags),
                      tree.spec[s] # None, tree.spec[s].built
               PROVE  tree.spec[s].pinned = tree.spec[s].text
    BY DEF NoUnratifiedFork
  <2>1. tree.spec \in Over(Ratified)
    BY DEF ForkInv, OverAll, ToSet
  <2> QED
    BY <2>1 DEF Over, Ratified
<1>2. Spec => []ForkInv
  BY AlwaysTyped, InitFork, NextFork, PTL DEF Spec
<1> QED
  BY <1>1, <1>2, AlwaysTyped, PTL

-----------------------------------------------------------------------------
(* Grants.  An approval is either unspent, or in the hands of a build that *)
(* is about to save, or was spent on a rewrite: the three together never   *)
(* exceed what a human approved.                                           *)

GrantsIn(q, s) == {i \in DOMAIN q : q[i].spec = s /\ q[i].status = "approved"}

InHand(b, s) ==
  IF (b.at = "save" /\ b.spec = s) \/ (b.at = "stamp" /\ b.change.spec = s /\ b.copy.built)
    THEN 1 ELSE 0

Covered(q, b, r, a) == \A s \in Slugs : r[s] + Cardinality(GrantsIn(q, s)) + InHand(b, s) <= a[s]

GrantInv == Covered(scrs, build, rewrites, approvals)

LEMMA GrantsAreFinite ==
  ASSUME NEW q \in Seq(Scr), NEW s
  PROVE  IsFiniteSet(GrantsIn(q, s)) /\ Cardinality(GrantsIn(q, s)) \in Nat
<1>1. DOMAIN q = 1..Len(q) /\ Len(q) \in Nat
  OBVIOUS
<1>2. IsFiniteSet(1..Len(q))
  BY <1>1, FS_Interval
<1>3. IsFiniteSet(GrantsIn(q, s))
  BY <1>1, <1>2, FS_Subset DEF GrantsIn
<1> QED
  BY <1>3, FS_CardinalityType

LEMMA FewerGrants ==
  ASSUME NEW q \in Seq(Scr), NEW p \in Seq(Scr), NEW s, GrantsIn(p, s) \subseteq GrantsIn(q, s)
  PROVE  Cardinality(GrantsIn(p, s)) <= Cardinality(GrantsIn(q, s))
BY GrantsAreFinite, FS_Subset

LEMMA OneMoreGrant ==
  ASSUME NEW q \in Seq(Scr), NEW p \in Seq(Scr), NEW s, NEW i,
         GrantsIn(p, s) \subseteq GrantsIn(q, s) \cup {i}
  PROVE  Cardinality(GrantsIn(p, s)) <= Cardinality(GrantsIn(q, s)) + 1
<1> DEFINE G == GrantsIn(q, s)
<1>1. IsFiniteSet(G) /\ Cardinality(G) \in Nat
  BY GrantsAreFinite
<1> HIDE DEF G
<1>2. IsFiniteSet(G \cup {i}) /\ Cardinality(G \cup {i}) <= Cardinality(G) + 1
      /\ Cardinality(G \cup {i}) \in Nat
  <2>1. Cardinality(G \cup {i}) = IF i \in G THEN Cardinality(G) ELSE Cardinality(G) + 1
    BY <1>1, FS_AddElement
  <2>2. IsFiniteSet(G \cup {i})
    BY <1>1, FS_AddElement
  <2> QED
    BY <1>1, <2>1, <2>2
<1>3. Cardinality(GrantsIn(p, s)) <= Cardinality(G \cup {i})
  BY <1>2, FS_Subset DEF G
<1>4. Cardinality(GrantsIn(p, s)) \in Nat
  BY GrantsAreFinite
<1> QED
  BY <1>1, <1>2, <1>3, <1>4 DEF G

LEMMA ConsumeSpendsOne ==
  ASSUME Typed, NEW s \in Slugs, Consume(s), NEW x \in Slugs
  PROVE  Cardinality(GrantsIn(scrs', x)) + (IF x = s THEN 1 ELSE 0)
           <= Cardinality(GrantsIn(scrs, x))
<1>0. scrs \in Seq(Scr) /\ scrs' \in Seq(Scr)
  BY ConsumeType DEF Typed, TypeOK, Scr
<1>1. PICK i \in Granting(s) : scrs' = [scrs EXCEPT ![i].status = "consumed"]
  BY DEF Consume
<1>2. i \in DOMAIN scrs /\ scrs[i].spec = s /\ i \in GrantsIn(scrs, s)
  BY DEF Granting, GrantsIn
<1>3. scrs[i] \in Scr
  BY <1>0, <1>2
<1>4. /\ DOMAIN scrs' = DOMAIN scrs
      /\ \A j \in DOMAIN scrs : j # i => scrs'[j] = scrs[j]
      /\ scrs'[i].status = "consumed"
  BY <1>0, <1>1, <1>2, <1>3 DEF Scr
<1>5. GrantsIn(scrs', x) \subseteq GrantsIn(scrs, x) \ {i}
  BY <1>4 DEF GrantsIn
<1>6. IsFiniteSet(GrantsIn(scrs, x)) /\ Cardinality(GrantsIn(scrs, x)) \in Nat
      /\ Cardinality(GrantsIn(scrs', x)) \in Nat
  BY <1>0, GrantsAreFinite
<1>7. CASE x = s
  <2> DEFINE G == GrantsIn(scrs, s)
  <2>1. IsFiniteSet(G \ {i}) /\ Cardinality(G \ {i}) = Cardinality(G) - 1
    BY <1>2, <1>6, <1>7, FS_RemoveElement
  <2>2. Cardinality(GrantsIn(scrs', s)) <= Cardinality(G \ {i})
    BY <1>5, <1>7, <2>1, FS_Subset
  <2> QED
    BY <1>6, <1>7, <2>1, <2>2
<1>8. CASE x # s
  <2>1. Cardinality(GrantsIn(scrs', x)) <= Cardinality(GrantsIn(scrs, x))
    BY <1>0, <1>5, FewerGrants
  <2> QED
    BY <1>6, <1>8, <2>1
<1> QED
  BY <1>7, <1>8

\* Nothing granted, nothing rewritten, nothing taken in hand.
LEMMA GrantsKept ==
  ASSUME Typed, GrantInv, NEW b, UNCHANGED <<scrs, approvals, rewrites>>,
         \A s \in Slugs : InHand(b, s) = 0
  PROVE  Covered(scrs', b, rewrites', approvals')
<1> SUFFICES ASSUME NEW s \in Slugs
             PROVE  rewrites[s] + Cardinality(GrantsIn(scrs, s)) + InHand(b, s) <= approvals[s]
  BY DEF Covered
<1>1. rewrites[s] + Cardinality(GrantsIn(scrs, s)) + InHand(build, s) <= approvals[s]
  BY DEF GrantInv, Covered
<1>2. InHand(build, s) \in {0, 1} /\ InHand(b, s) = 0
  BY DEF InHand
<1>3. rewrites[s] \in Nat /\ approvals[s] \in Nat /\ Cardinality(GrantsIn(scrs, s)) \in Nat
  BY GrantsAreFinite DEF Typed, TypeOK, Scr
<1> QED
  BY <1>1, <1>2, <1>3

LEMMA NotInHand ==
  ASSUME NEW b, b.at \notin {"save", "stamp"}, NEW s PROVE InHand(b, s) = 0
BY DEF InHand

\* A spent approval is in the hands of the build, and a spec is not saved twice.
LEMMA SpentIsInHand ==
  ASSUME Typed, GrantInv, NEW s \in Slugs, Consume(s), UNCHANGED <<approvals, rewrites>>, NEW b,
         \A x \in Slugs : InHand(b, x) <= (IF x = s THEN 1 ELSE 0) /\ InHand(b, x) \in {0, 1}
  PROVE  Covered(scrs', b, rewrites', approvals')
<1> SUFFICES ASSUME NEW x \in Slugs
             PROVE  rewrites[x] + Cardinality(GrantsIn(scrs', x)) + InHand(b, x) <= approvals[x]
  BY DEF Covered
<1>0. scrs \in Seq(Scr) /\ scrs' \in Seq(Scr)
  BY ConsumeType DEF Typed, TypeOK, Scr
<1> DEFINE before == Cardinality(GrantsIn(scrs, x))
           after == Cardinality(GrantsIn(scrs', x))
           paid == IF x = s THEN 1 ELSE 0
<1>1. rewrites[x] + before + InHand(build, x) <= approvals[x] /\ InHand(build, x) \in {0, 1}
  BY DEF GrantInv, Covered, InHand
<1>2. after + paid <= before
  BY ConsumeSpendsOne
<1>3. InHand(b, x) <= paid /\ InHand(b, x) \in {0, 1} /\ paid \in {0, 1}
  OBVIOUS
<1>4. rewrites[x] \in Nat /\ approvals[x] \in Nat /\ before \in Nat /\ after \in Nat
  BY <1>0, GrantsAreFinite DEF Typed, TypeOK
<1> HIDE DEF before, after, paid
<1> QED
  BY <1>1, <1>2, <1>3, <1>4 DEF after

\* What was in hand is the rewrite.
LEMMA InHandIsSpent ==
  ASSUME Typed, GrantInv, NEW b, UNCHANGED <<scrs, approvals>>,
         \A s \in Slugs : InHand(b, s) = 0 /\ rewrites'[s] <= rewrites[s] + InHand(build, s)
                          /\ rewrites'[s] \in Nat
  PROVE  Covered(scrs', b, rewrites', approvals')
<1> SUFFICES ASSUME NEW s \in Slugs
             PROVE  rewrites'[s] + Cardinality(GrantsIn(scrs, s)) + InHand(b, s) <= approvals[s]
  BY DEF Covered
<1>1. rewrites[s] + Cardinality(GrantsIn(scrs, s)) + InHand(build, s) <= approvals[s]
  BY DEF GrantInv, Covered
<1>2. InHand(build, s) \in {0, 1}
  BY DEF InHand
<1>3. rewrites[s] \in Nat /\ approvals[s] \in Nat /\ Cardinality(GrantsIn(scrs, s)) \in Nat
  BY GrantsAreFinite DEF Typed, TypeOK, Scr
<1> QED
  BY <1>1, <1>2, <1>3

\* A human's approval adds at most one grant, for the spec it is about.
LEMMA ApprovalGrantsOne ==
  ASSUME Typed, GrantInv, scrs' \in Seq(Scr), NEW b, NEW s \in Slugs, NEW i,
         rewrites' = rewrites, approvals' = [approvals EXCEPT ![s] = @ + 1],
         \A x \in Slugs : InHand(b, x) <= InHand(build, x) /\ InHand(b, x) \in {0, 1},
         GrantsIn(scrs', s) \subseteq GrantsIn(scrs, s) \cup {i},
         \A x \in Slugs \ {s} : GrantsIn(scrs', x) \subseteq GrantsIn(scrs, x)
  PROVE  Covered(scrs', b, rewrites', approvals')
<1> SUFFICES ASSUME NEW x \in Slugs
             PROVE  rewrites[x] + Cardinality(GrantsIn(scrs', x)) + InHand(b, x) <= approvals'[x]
  BY DEF Covered
<1>0. scrs \in Seq(Scr) /\ approvals \in [Slugs -> Nat]
  BY DEF Typed, TypeOK, Scr
<1> DEFINE before == Cardinality(GrantsIn(scrs, x))
           after == Cardinality(GrantsIn(scrs', x))
<1>1. rewrites[x] + before + InHand(build, x) <= approvals[x] /\ InHand(build, x) \in {0, 1}
  BY DEF GrantInv, Covered, InHand
<1>2. rewrites[x] \in Nat /\ approvals[x] \in Nat /\ before \in Nat /\ after \in Nat
  BY <1>0, GrantsAreFinite DEF Typed, TypeOK
<1>3. InHand(b, x) <= InHand(build, x) /\ InHand(b, x) \in {0, 1}
  OBVIOUS
<1>4. CASE x = s
  <2>1. after <= before + 1 /\ approvals'[x] = approvals[x] + 1
    BY <1>0, <1>4, OneMoreGrant
  <2> HIDE DEF before, after
  <2> QED
    BY <1>1, <1>2, <1>3, <2>1 DEF after
<1>5. CASE x # s
  <2>1. after <= before /\ approvals'[x] = approvals[x]
    BY <1>0, <1>5, FewerGrants
  <2> HIDE DEF before, after
  <2> QED
    BY <1>1, <1>2, <1>3, <2>1 DEF after
<1> QED
  BY <1>4, <1>5

\* Requests nobody approved grant nothing.
Proposals == [spec: Slugs, status: {"proposed"}]

LEMMA ProposalsGrantNothing ==
  ASSUME NEW q \in Seq(Scr), NEW more \in Seq(Proposals), NEW s
  PROVE  GrantsIn(q \o more, s) \subseteq GrantsIn(q, s)
<1> SUFFICES ASSUME NEW i \in GrantsIn(q \o more, s) PROVE i \in GrantsIn(q, s)
  OBVIOUS
<1>1. i \in 1..Len(q) + Len(more) /\ (q \o more)[i].spec = s /\ (q \o more)[i].status = "approved"
  BY DEF GrantsIn
<1>2. CASE i \in 1..Len(q)
  <2>1. (q \o more)[i] = q[i]
    BY <1>2
  <2> QED
    BY <1>1, <1>2, <2>1 DEF GrantsIn
<1>3. CASE i \notin 1..Len(q)
  <2>1. (q \o more)[i] = more[i - Len(q)] /\ i - Len(q) \in 1..Len(more)
    BY <1>1, <1>3
  <2>2. more[i - Len(q)] \in Proposals
    BY <2>1
  <2>3. more[i - Len(q)].status = "proposed"
    BY <2>2 DEF Proposals
  <2> QED
    BY <1>1, <2>1, <2>3
<1> QED
  BY <1>2, <1>3

LEMMA StepGrants == ASSUME Typed, GrantInv, Step PROVE GrantInv'
<1>0. scrs \in Seq(Scr) /\ approvals \in [Slugs -> Nat] /\ rewrites \in [Slugs -> Nat]
  BY DEF Typed, TypeOK, Scr
<1>1. CASE Reconcile
  <2>1. build'.at \in {"idle", "spec"} /\ UNCHANGED ghost
    BY <1>1, ReconcileGoes
  <2>2. CASE UNCHANGED scrs
    BY <2>1, <2>2, NotInHand, GrantsKept DEF GrantInv, ghost
  <2>3. ASSUME NEW proposed \in {{}} \cup {{s} : s \in Slugs},
               scrs' = scrs \o SetToSeq({[spec |-> s, status |-> "proposed"] : s \in proposed})
        PROVE  GrantInv'
    <3> DEFINE more == SetToSeq({[spec |-> s, status |-> "proposed"] : s \in proposed})
    <3>1. more \in Seq(Proposals)
      BY ProposedType DEF Proposals
    <3> HIDE DEF more
    <3>2. scrs' = scrs \o more
      BY <2>3 DEF more
    <3>3. Proposals \subseteq Scr
      BY DEF Proposals, Scr
    <3>4. more \in Seq(Scr)
      BY <3>1, <3>3, SeqMonotonic
    <3>5. scrs' \in Seq(Scr)
      BY <1>0, <3>2, <3>4
    <3>6. SUFFICES ASSUME NEW s \in Slugs
                   PROVE  rewrites[s] + Cardinality(GrantsIn(scrs', s)) + InHand(build', s)
                            <= approvals[s]
      BY <2>1 DEF GrantInv, Covered, ghost
    <3>7. Cardinality(GrantsIn(scrs', s)) <= Cardinality(GrantsIn(scrs, s))
      BY <1>0, <3>1, <3>2, <3>5, ProposalsGrantNothing, FewerGrants
    <3>8. InHand(build', s) = 0 /\ InHand(build, s) \in {0, 1}
      BY <2>1 DEF InHand
    <3>9. /\ Cardinality(GrantsIn(scrs', s)) \in Nat /\ Cardinality(GrantsIn(scrs, s)) \in Nat
          /\ rewrites[s] \in Nat /\ approvals[s] \in Nat
      BY <1>0, <3>5, GrantsAreFinite
    <3> QED
      BY <3>7, <3>8, <3>9 DEF GrantInv, Covered
  <2> QED
    BY <1>1, <2>2, <2>3 DEF Reconcile
<1>2. ASSUME NEW s \in Slugs, NEW t \in Texts, NEW clean \in BOOLEAN, WriteSpec(s, t, clean)
      PROVE  GrantInv'
  <2>1. build'.at \in {"build", "spec", "tail"} /\ UNCHANGED <<scrs, approvals, rewrites>>
    BY <1>2 DEF WriteSpec, SaveSpec, Settle, ghost
  <2> QED
    BY <2>1, NotInHand, GrantsKept DEF GrantInv
<1>3. ASSUME NEW s \in Slugs, NEW t \in Texts, NEW clean \in BOOLEAN, SpendOnSpec(s, t, clean)
      PROVE  GrantInv'
  <2>1. build'.at = "save" /\ build'.spec = s
    BY <1>3 DEF SpendOnSpec
  <2>2. \A x \in Slugs : InHand(build', x) = IF x = s THEN 1 ELSE 0
    BY <2>1 DEF InHand
  <2>3. Consume(s) /\ UNCHANGED <<approvals, rewrites>>
    BY <1>3 DEF SpendOnSpec, ghost
  <2> QED
    BY <2>2, <2>3, SpentIsInHand DEF GrantInv
<1>4. CASE SaveGranted
  <2>1. build'.at \in {"build", "spec", "tail"}
    BY <1>4 DEF SaveGranted, SaveSpec, Settle
  <2>2. build.spec \in Slugs /\ rewrites' = [rewrites EXCEPT ![build.spec] = @ + 1]
        /\ InHand(build, build.spec) = 1 /\ UNCHANGED <<scrs, approvals>>
    BY <1>4 DEF SaveGranted, InHand, Typed, BuildOK
  <2>3. \A s \in Slugs : /\ rewrites'[s] <= rewrites[s] + InHand(build, s)
                         /\ rewrites'[s] \in Nat
    BY <1>0, <2>2 DEF InHand
  <2> QED
    BY <2>1, <2>2, <2>3, NotInHand, InHandIsSpent DEF GrantInv
<1>5. ASSUME NEW s \in Slugs, SpecRefused(s) PROVE GrantInv'
  <2>1. build'.at = "idle" /\ UNCHANGED <<scrs, approvals, rewrites>>
    BY <1>5 DEF SpecRefused, Idle, ghost
  <2> QED
    BY <2>1, NotInHand, GrantsKept DEF GrantInv
<1>6. CASE Built \/ BuildFailed
  <2>1. build'.at \in {"spec", "tail"} /\ UNCHANGED <<scrs, approvals, rewrites>>
    BY <1>6 DEF Built, BuildFailed, Settle, ghost
  <2> QED
    BY <2>1, NotInHand, GrantsKept DEF GrantInv
<1>7. CASE BuildRaises \/ Finish \/ TakeParked \/ Tag
  <2>1. build'.at \in {"idle", "amend", "grant", "tag"} /\ UNCHANGED <<scrs, approvals, rewrites>>
    BY <1>7 DEF BuildRaises, Finish, TakeParked, Tag, Go, Idle, ghost
  <2> QED
    BY <2>1, NotInHand, GrantsKept DEF GrantInv
<1>8. CASE Amend
  <2> DEFINE s == build.change.spec
  <2>1. s \in Slugs
    BY <1>8, SpecChangeAssumption DEF Amend, Typed, BuildOK
  <2>2. UNCHANGED <<approvals, rewrites>>
    BY <1>8 DEF Amend, ghost
  <2>3. CASE build'.at = "tag" /\ UNCHANGED scrs
    BY <2>2, <2>3, NotInHand, GrantsKept DEF GrantInv
  <2>4. CASE /\ work.spec[s] # None /\ IF Frozen(s) THEN Consume(s) ELSE UNCHANGED scrs
             /\ build' = [at |-> "stamp", change |-> build.change, copy |-> work.spec[s]]
    <3>1. CASE Frozen(s)
      <4>1. \A x \in Slugs : InHand(build', x) <= (IF x = s THEN 1 ELSE 0)
                             /\ InHand(build', x) \in {0, 1}
        BY <2>4 DEF InHand
      <4>2. Consume(s)
        BY <2>4, <3>1
      <4> HIDE DEF s
      <4> QED
        BY <2>1, <2>2, <4>1, <4>2, SpentIsInHand DEF GrantInv
    <3>2. CASE ~ Frozen(s)
      <4>1. \A x \in Slugs : InHand(build', x) = 0
        BY <2>4, <3>2 DEF InHand, Frozen
      <4> QED
        BY <2>2, <2>4, <3>2, <4>1, GrantsKept DEF GrantInv
    <3> QED
      BY <3>1, <3>2
  <2> QED
    BY <1>8, <2>3, <2>4 DEF Amend, Go
<1>9. CASE StampAmendment
  <2>1. /\ build.change.spec \in Slugs /\ build.copy.built \in BOOLEAN
        /\ build'.at = "tag" /\ UNCHANGED <<scrs, approvals>>
    BY <1>9, SpecChangeAssumption DEF StampAmendment, Go, Typed, BuildOK, Contracts
  <2>2. rewrites' = [rewrites EXCEPT ![build.change.spec] =
                       @ + IF build.copy.built THEN 1 ELSE 0]
    BY <1>9 DEF StampAmendment
  <2>3. build.at = "stamp"
    BY <1>9 DEF StampAmendment
  <2>4. \A s \in Slugs : /\ rewrites'[s] <= rewrites[s] + InHand(build, s)
                         /\ rewrites'[s] \in Nat
    BY <1>0, <2>1, <2>2, <2>3 DEF InHand
  <2> QED
    BY <2>1, <2>4, NotInHand, InHandIsSpent DEF GrantInv
<1> QED
  BY <1>1, <1>2, <1>3, <1>4, <1>5, <1>6, <1>7, <1>8, <1>9 DEF Step

LEMMA NextGrants == Typed /\ GrantInv /\ [Next]_vars => GrantInv'
<1> SUFFICES ASSUME Typed, GrantInv, [Next]_vars PROVE GrantInv'
  OBVIOUS
<1>0. scrs \in Seq(Scr) /\ scrs' \in Seq(Scr)
  BY NextTyped DEF Typed, TypeOK, Scr
<1>1. ASSUME NEW c \in Changes, Confirm(c) PROVE GrantInv'
  <2> DEFINE row == [spec |-> c.spec, status |-> "approved"]
  <2>1. c.spec \in Slugs /\ row \in Scr
    BY SpecChangeAssumption DEF Scr
  <2>2. /\ scrs' = Append(scrs, row) /\ build'.at = "start" /\ rewrites' = rewrites
        /\ approvals' = [approvals EXCEPT ![c.spec] = @ + 1]
    BY <1>1 DEF Confirm, Spawn
  <2>3. ASSUME NEW i \in DOMAIN scrs'
        PROVE  (i = Len(scrs) + 1 /\ scrs'[i] = row) \/ (i \in DOMAIN scrs /\ scrs'[i] = scrs[i])
    <3> HIDE DEF row
    <3> QED
      BY <1>0, <2>1, <2>2
  <2>4. /\ GrantsIn(scrs', c.spec) \subseteq GrantsIn(scrs, c.spec) \cup {Len(scrs) + 1}
        /\ \A x \in Slugs \ {c.spec} : GrantsIn(scrs', x) \subseteq GrantsIn(scrs, x)
    BY <2>3 DEF GrantsIn
  <2>5. \A x \in Slugs : InHand(build', x) <= InHand(build, x) /\ InHand(build', x) \in {0, 1}
    BY <2>2 DEF InHand
  <2> QED
    BY <1>0, <2>1, <2>2, <2>4, <2>5, ApprovalGrantsOne DEF GrantInv
<1>2. ASSUME NEW i \in DOMAIN scrs, ApproveScr(i) PROVE GrantInv'
  <2>1. /\ scrs' = [scrs EXCEPT ![i].status = "approved"] /\ UNCHANGED <<build, rewrites>>
        /\ approvals' = [approvals EXCEPT ![scrs[i].spec] = @ + 1]
    BY <1>2 DEF ApproveScr
  <2>2. scrs[i] \in Scr /\ scrs[i].spec \in Slugs
    <3>1. scrs[i] \in Scr
      BY <1>0
    <3> QED
      BY <3>1 DEF Scr
  <2>3. /\ DOMAIN scrs' = DOMAIN scrs /\ scrs'[i].spec = scrs[i].spec
        /\ \A j \in DOMAIN scrs : j # i => scrs'[j] = scrs[j]
    BY <1>0, <2>1, <2>2 DEF Scr
  <2>4. /\ GrantsIn(scrs', scrs[i].spec) \subseteq GrantsIn(scrs, scrs[i].spec) \cup {i}
        /\ \A x \in Slugs \ {scrs[i].spec} : GrantsIn(scrs', x) \subseteq GrantsIn(scrs, x)
    BY <2>3 DEF GrantsIn
  <2>5. \A x \in Slugs : InHand(build', x) <= InHand(build, x) /\ InHand(build', x) \in {0, 1}
    BY <2>1 DEF InHand
  <2> QED
    <3>1. PICK s \in Slugs : s = scrs[i].spec
      BY <2>2
    <3>2. /\ approvals' = [approvals EXCEPT ![s] = @ + 1] /\ rewrites' = rewrites
          /\ GrantsIn(scrs', s) \subseteq GrantsIn(scrs, s) \cup {i}
          /\ \A x \in Slugs \ {s} : GrantsIn(scrs', x) \subseteq GrantsIn(scrs, x)
      BY <2>1, <2>4, <3>1
    <3> QED
      BY <1>0, <2>5, <3>2, ApprovalGrantsOne DEF GrantInv
<1>3. ASSUME NEW f \in FDRs, Add(f) PROVE GrantInv'
  <2>1. build'.at = "start" /\ UNCHANGED <<scrs, approvals, rewrites>>
    BY <1>3 DEF Add, Spawn
  <2> QED
    BY <2>1, NotInHand, GrantsKept DEF GrantInv
<1>4. CASE Crash
  <2>1. build'.at = "idle" /\ UNCHANGED <<scrs, approvals, rewrites>>
    BY <1>4 DEF Crash, Idle, ghost
  <2> QED
    BY <2>1, NotInHand, GrantsKept DEF GrantInv
<1>5. CASE Step
  BY <1>5, StepGrants
<1>6. CASE RepairLands \/ RepairFails \/ Undo \/ UNCHANGED vars
  BY <1>6 DEF RepairLands, RepairFails, Undo, vars, ghost, GrantInv
<1> QED
  BY <1>1, <1>2, <1>3, <1>4, <1>5, <1>6 DEF Next

\* A built contract is written anew at most as often as a human approved it.
THEOREM ApprovalsCoverRewrites == Spec => []OneRewritePerApproval
<1>1. Init => GrantInv
  <2> SUFFICES ASSUME Init, NEW s \in Slugs
               PROVE  rewrites[s] + Cardinality(GrantsIn(scrs, s)) + InHand(build, s)
                        <= approvals[s]
    BY DEF GrantInv, Covered
  <2>1. GrantsIn(scrs, s) = {} /\ rewrites[s] = 0 /\ approvals[s] = 0
    BY DEF Init, GrantsIn
  <2>2. InHand(build, s) = 0
    BY DEF Init, Idle, InHand
  <2> QED
    BY <2>1, <2>2, FS_EmptySet
<1>2. Typed /\ GrantInv => OneRewritePerApproval
  <2> SUFFICES ASSUME Typed, GrantInv, NEW s \in Slugs PROVE rewrites[s] <= approvals[s]
    BY DEF OneRewritePerApproval
  <2>1. /\ rewrites[s] \in Nat /\ approvals[s] \in Nat
        /\ Cardinality(GrantsIn(scrs, s)) \in Nat /\ InHand(build, s) \in {0, 1}
    BY GrantsAreFinite DEF Typed, TypeOK, Scr, InHand
  <2> QED
    BY <2>1 DEF GrantInv, Covered
<1>3. Spec => []GrantInv
  BY <1>1, AlwaysTyped, NextGrants, PTL DEF Spec
<1> QED
  BY <1>2, <1>3, AlwaysTyped, PTL

-----------------------------------------------------------------------------
(* Numbers.  Every ledger there is, in the tree, at HEAD and in the tags,  *)
(* numbers a promise once: a rollback brings back one that was written by  *)
(* sync_ledger, and what sync_ledger writes it keeps.                      *)

NumInv == Distinct(work.ledger) /\ Distinct(head.ledger)
          /\ \A tree \in ToSet(tags) : Distinct(tree.ledger)

LEMMA KeptSame == \A l : Kept(l, l)
BY DEF Kept

LEMMA AppendedTree ==
  ASSUME NEW q \in Seq(Trees), NEW w \in Trees
  PROVE  \A tree \in ToSet(Append(q, w)) : tree \in ToSet(q) \cup {w}
<1> SUFFICES ASSUME NEW i \in DOMAIN Append(q, w) PROVE Append(q, w)[i] \in ToSet(q) \cup {w}
  BY DEF ToSet
<1>1. i \in 1..Len(q) + 1 /\ Len(q) \in Nat /\ DOMAIN q = 1..Len(q)
  OBVIOUS
<1>2. CASE i \in 1..Len(q)
  BY <1>1, <1>2 DEF ToSet
<1>3. CASE i = Len(q) + 1
  BY <1>3
<1> QED
  BY <1>1, <1>2, <1>3

\* What NumbersStay says of one step.
NumbersKept ==
  \/ Len(tags') < Len(tags)
  \/ head' = head /\ work'.ledger = head.ledger
  \/ Kept(work.ledger, work'.ledger)

LEMMA SaveSpecNumbers ==
  ASSUME Typed, NEW s \in Slugs, NEW t \in Texts, NEW clean, SaveSpec(s, t, clean)
  PROVE  work'.ledger = work.ledger
<1>1. work \in Trees
  BY DEF Typed, TypeOK
<1> QED
  BY <1>1 DEF SaveSpec, Trees

LEMMA StepNumbers ==
  ASSUME Typed, NumInv, Step PROVE NumInv' /\ NumbersKept
<1>0. work \in Trees /\ head \in Trees /\ tags \in Seq(Trees)
  BY DEF Typed, TypeOK
<1>1. CASE Reconcile \/ Finish
  <2>1. work' = Sync(work) /\ UNCHANGED <<head, tags>>
    BY <1>1 DEF Reconcile, Finish
  <2>2. Distinct(work'.ledger) /\ Kept(work.ledger, work'.ledger)
    BY <1>0, <2>1, SyncNumbers DEF NumInv
  <2> QED
    BY <2>1, <2>2 DEF NumInv, NumbersKept
<1>2. ASSUME work'.ledger = work.ledger, UNCHANGED <<head, tags>>
      PROVE  NumInv' /\ NumbersKept
  BY <1>2, KeptSame DEF NumInv, NumbersKept
<1>3. ASSUME NEW s \in Slugs, NEW t \in Texts, NEW clean \in BOOLEAN, WriteSpec(s, t, clean)
      PROVE  NumInv' /\ NumbersKept
  BY <1>2, <1>3, SaveSpecNumbers DEF WriteSpec
<1>4. ASSUME NEW s \in Slugs, NEW t \in Texts, NEW clean \in BOOLEAN, SpendOnSpec(s, t, clean)
      PROVE  NumInv' /\ NumbersKept
  BY <1>2, <1>4 DEF SpendOnSpec, files
<1>5. CASE SaveGranted
  <2>1. build.spec \in Slugs /\ build.text \in Texts
    BY <1>5 DEF SaveGranted, Typed, BuildOK
  <2> QED
    BY <1>2, <1>5, <2>1, SaveSpecNumbers DEF SaveGranted
<1>6. ASSUME NEW s \in Slugs, SpecRefused(s) PROVE NumInv' /\ NumbersKept
  BY <1>2, <1>6 DEF SpecRefused, files
<1>7. CASE Built
  <2> DEFINE c == [work.spec[build.spec] EXCEPT !.built = TRUE]
             w == [work EXCEPT !.spec[build.spec].built = TRUE]
  <2>1. build.spec \in Slugs /\ work.spec[build.spec] \in Contracts
    BY <1>0, <1>7, TreeShape DEF Built, Typed, BuildOK, Specs
  <2>2. c \in Contracts
    BY <2>1 DEF Contracts
  <2>3. w = [work EXCEPT !.spec[build.spec] = c] /\ w.ledger = work.ledger
    BY <1>0 DEF Trees
  <2>4. w \in Trees
    <3> HIDE DEF c, w
    <3> QED
      BY <1>0, <2>1, <2>2, <2>3, PutType
  <2>5. Distinct(Sync(w).ledger) /\ Kept(work.ledger, Sync(w).ledger)
    <3> HIDE DEF w
    <3> QED
      BY <2>3, <2>4, SyncNumbers DEF NumInv
  <2>6. work' = Sync(w) /\ head' = Sync(w) /\ tags' = tags
    BY <1>7 DEF Built
  <2> HIDE DEF w
  <2> QED
    BY <2>5, <2>6 DEF NumInv, NumbersKept
<1>8. CASE BuildFailed
  <2>1. work'.ledger = head.ledger /\ UNCHANGED <<head, tags>>
    BY <1>8 DEF BuildFailed, Checkout
  <2> QED
    BY <2>1 DEF NumInv, NumbersKept
<1>9. CASE BuildRaises \/ TakeParked \/ Amend
  BY <1>2, <1>9 DEF BuildRaises, TakeParked, Amend, files
<1>10. CASE StampAmendment
  <2>1. work'.ledger = work.ledger
    BY <1>0, <1>10 DEF StampAmendment, Trees
  <2> QED
    BY <1>2, <1>10, <2>1 DEF StampAmendment
<1>11. CASE Tag
  <2>1. /\ \A tree \in ToSet(tags') : tree \in ToSet(tags) \cup {head}
        /\ UNCHANGED <<work, head>>
    BY <1>0, <1>11, AppendedTree DEF Tag
  <2> QED
    BY <2>1, KeptSame DEF NumInv, NumbersKept
<1> QED
  BY <1>1, <1>3, <1>4, <1>5, <1>6, <1>7, <1>8, <1>9, <1>10, <1>11 DEF Step

LEMMA NextNumbers ==
  ASSUME Typed, NumInv, [Next]_vars PROVE NumInv' /\ NumbersKept
<1>0. work \in Trees /\ head \in Trees /\ tags \in Seq(Trees)
  BY DEF Typed, TypeOK
<1>1. CASE Step
  BY <1>1, StepNumbers
<1>2. ASSUME UNCHANGED files PROVE NumInv' /\ NumbersKept
  BY <1>2, KeptSame DEF NumInv, NumbersKept, files
<1>3. CASE RepairLands
  <2>1. /\ \A tree \in ToSet(tags') : tree \in ToSet(tags) \cup {work}
        /\ work' = work /\ head' = work
    BY <1>0, <1>3, AppendedTree DEF RepairLands
  <2> QED
    BY <2>1, KeptSame DEF NumInv, NumbersKept
<1>4. CASE RepairFails
  BY <1>4 DEF RepairFails, NumInv, NumbersKept
<1>5. CASE Undo
  <2> DEFINE to == tags[Len(tags) - 1]
  <2>1. Len(tags) >= 2 /\ work' = HardReset(to) /\ head' = to /\ tags' = Front(tags)
    BY <1>5 DEF Undo
  <2>2. to \in ToSet(tags) /\ ToSet(tags') \subseteq ToSet(tags) /\ Len(tags') < Len(tags)
    BY <1>0, <2>1, TagsShape
  <2>3. work'.ledger = to.ledger
    BY <2>1 DEF HardReset
  <2> HIDE DEF to
  <2> QED
    BY <2>1, <2>2, <2>3 DEF NumInv, NumbersKept
<1> QED
  BY <1>1, <1>2, <1>3, <1>4, <1>5
  DEF Next, Confirm, Add, ApproveScr, Crash, vars, files

\* Each promise keeps its number, whatever is rebuilt, retired and promised again.
THEOREM PromisesKeepTheirNumbers == Spec => NumbersStay
<1>1. Init => NumInv
  <2> SUFFICES ASSUME Init PROVE NumInv
    OBVIOUS
  <2>1. Distinct(work.ledger)
    BY DEF Init, Distinct
  <2>2. head = work /\ tags = <<work>>
    BY DEF Init
  <2>3. \A tree \in ToSet(tags) : tree = work
    BY <2>2 DEF ToSet
  <2> QED
    BY <2>1, <2>2, <2>3 DEF NumInv
<1>2. Spec => []NumInv
  BY <1>1, AlwaysTyped, NextNumbers, PTL DEF Spec
<1>3. Typed /\ NumInv /\ [Next]_vars =>
        [/\ \A i, j \in DOMAIN work'.ledger :
              KeyOf(work'.ledger[i]) = KeyOf(work'.ledger[j]) => i = j
         /\ \/ Len(tags') < Len(tags)
            \/ head' = head /\ work'.ledger = head.ledger
            \/ \A i \in DOMAIN work.ledger :
                 i \in DOMAIN work'.ledger /\ KeyOf(work'.ledger[i]) = KeyOf(work.ledger[i])]_vars
  <2> SUFFICES ASSUME Typed, NumInv, [Next]_vars
               PROVE  /\ Distinct(work'.ledger) /\ NumbersKept
    BY DEF Distinct, NumbersKept, Kept
  <2> QED
    BY NextNumbers DEF NumInv
<1> QED
  BY <1>2, <1>3, AlwaysTyped, PTL DEF Spec, NumbersStay
=============================================================================
