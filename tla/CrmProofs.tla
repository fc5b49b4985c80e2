------------------------------- MODULE CrmProofs -------------------------------
(***************************************************************************)
(* Customers, leads and campaigns keep their promises for every number of  *)
(* customers, captures, loggers, dispatchers, versions and crashes.        *)
(*                                                                         *)
(* CaptureInv: a capture that found no open lead under the lock on its     *)
(* interest is still right when it writes, and no two decide about one     *)
(* interest, so an interest has one open lead; a lead has as many touches  *)
(* as intakes name it.  SendInv: a message is claimed by one dispatcher,   *)
(* the provider was called no oftener than the row counts and crashes      *)
(* explain, and a message deferred by quiet hours wakes when they end.     *)
(*                                                                         *)
(* The first section is about numbers and sequences: every set of naturals *)
(* that is not empty has a least member, and from that a set that holds 0  *)
(* and every successor holds them all.  What sums compute follows.         *)
(***************************************************************************)
EXTENDS Campaigns, FiniteSetTheorems, NaturalsInduction, WellFoundedInduction, TLAPS

--------------------------------------------------------------------------------
(* Numbers, sequences and sums *)

\* A set of naturals that is not empty has a least member.
LEMMA LeastNat ==
    ASSUME NEW M, M \subseteq Nat, M # {}
    PROVE  \E m \in M : \A x \in M : m <= x
<1> DEFINE Below == {ss \in Nat \X Nat : ss[1] < ss[2]}
<1>1. IsWellFoundedOn(Below, Nat)
  BY NatLessThanWellFounded DEF OpToRel
<1>2. PICK m \in M : \A g \in M : ~(<<g, m>> \in Below)
  <2> HIDE DEF Below
  <2> QED
    BY <1>1, WFMin
<1>3. ASSUME NEW x \in M, x < m PROVE FALSE
  <2>1. <<x, m>> \in Nat \X Nat /\ <<x, m>>[1] < <<x, m>>[2]
    BY <1>3
  <2>2. <<x, m>> \in Below
    BY <2>1
  <2> QED
    BY <1>2, <2>2
<1> QED
  BY <1>3

\* Induction, for a set of naturals.
LEMMA EveryNat ==
    ASSUME NEW Good, 0 \in Good, \A n \in Nat : n \in Good => n + 1 \in Good
    PROVE  \A n \in Nat : n \in Good
<1> SUFFICES ASSUME NEW n \in Nat, n \notin Good PROVE FALSE
  OBVIOUS
<1> DEFINE Bad == {x \in Nat : x \notin Good}
<1>1. Bad \subseteq Nat /\ Bad # {}
  OBVIOUS
<1>2. PICK m \in Bad : \A x \in Bad : m <= x
  <2> HIDE DEF Bad
  <2> QED
    BY <1>1, LeastNat
<1>3. m \in Nat /\ m # 0 /\ m - 1 \in Nat
  BY <1>2
<1>4. m - 1 \in Good
  BY <1>2, <1>3
<1>5. (m - 1) + 1 = m
  BY <1>3
<1> QED
  BY <1>2, <1>3, <1>4, <1>5

\* A function on an initial segment is a sequence.
LEMMA FunctionIsSeq ==
    ASSUME NEW S, NEW n \in Nat, NEW f \in [1..n -> S]
    PROVE  f \in Seq(S) /\ Len(f) = n
OBVIOUS

\* One row more, at the end.
LEMMA AppendedRow ==
    ASSUME NEW S, NEW s \in Seq(S), NEW x \in S
    PROVE  /\ Append(s, x) \in Seq(S) /\ Len(Append(s, x)) = Len(s) + 1
           /\ Append(s, x)[Len(s) + 1] = x
           /\ \A i \in 1..Len(s) : Append(s, x)[i] = s[i]
           /\ DOMAIN Append(s, x) = 1..(Len(s) + 1)
OBVIOUS

\* One row written over.
LEMMA WrittenRow ==
    ASSUME NEW S, NEW s \in Seq(S), NEW i \in 1..Len(s), NEW x \in S
    PROVE  LET t == [s EXCEPT ![i] = x] IN
           /\ t \in Seq(S) /\ Len(t) = Len(s) /\ DOMAIN t = 1..Len(s) /\ t[i] = x
           /\ \A j \in 1..Len(s) : j # i => t[j] = s[j]
OBVIOUS

\* f holds the running sums of the n entries of s.
Adds(f, s, n) ==
    /\ n \in Nat /\ Len(s) = n
    /\ f \in [0..n -> Int] /\ f[0] = 0
    /\ \A i \in 1..n : f[i] = f[i - 1] + s[i]

\* Running sums determine the total.
LEMMA TotalIs ==
    ASSUME NEW n, NEW s, NEW f, Adds(f, s, n)
    PROVE  Total(s) = f[n]
<1>0. /\ n \in Nat /\ Len(s) = n /\ f \in [0..n -> Int] /\ f[0] = 0
      /\ \A i \in 1..n : f[i] = f[i - 1] + s[i]
  BY DEF Adds
<1> DEFINE Runs(r) == r = [i \in 0..Len(s) |-> IF i = 0 THEN 0 ELSE r[i - 1] + s[i]]
           R == CHOOSE r : Runs(r)
<1>1. Total(s) = R[n]
  BY <1>0 DEF Total
<1>2. Runs(f)
  <2>1. \A i \in 0..n : f[i] = IF i = 0 THEN 0 ELSE f[i - 1] + s[i]
    <3> SUFFICES ASSUME NEW i \in 0..n, i # 0 PROVE f[i] = f[i - 1] + s[i]
      BY <1>0
    <3>1. i \in 1..n
      BY <1>0
    <3> QED
      BY <1>0, <3>1
  <2> QED
    BY <1>0, <2>1
<1>3. Runs(R)
  <2> HIDE DEF Runs
  <2> QED
    BY <1>2
<1> HIDE DEF R
<1> DEFINE Good == {i \in Nat : i <= n => R[i] = f[i]}
<1>4. \A i \in 0..n : R[i] = IF i = 0 THEN 0 ELSE R[i - 1] + s[i]
  BY <1>0, <1>3
<1> HIDE DEF Runs
<1>5. 0 \in Good
  BY <1>0, <1>4
<1>6. ASSUME NEW i \in Nat, i \in Good PROVE i + 1 \in Good
  <2> SUFFICES ASSUME i + 1 <= n PROVE R[i + 1] = f[i + 1]
    OBVIOUS
  <2>1. i + 1 \in 0..n /\ i + 1 \in 1..n /\ i + 1 # 0 /\ (i + 1) - 1 = i /\ i <= n
    BY <1>0
  <2>2. R[i] = f[i]
    BY <1>6, <2>1
  <2>3. R[i + 1] = R[(i + 1) - 1] + s[i + 1]
    BY <1>4, <2>1
  <2>4. f[i + 1] = f[(i + 1) - 1] + s[i + 1]
    BY <1>0, <2>1
  <2> QED
    BY <2>1, <2>2, <2>3, <2>4
<1>7. n \in Good
  <2> HIDE DEF Good
  <2> QED
    BY <1>0, <1>5, <1>6, EveryNat
<1> QED
  BY <1>0, <1>1, <1>7

\* Whatever the model and however many touches, the weights hand out the whole of a lead.
LEMMA WeightsAreWhole ==
    ASSUME NEW n \in Nat \ {0}, NEW model \in AttributionModel
    PROVE  Total(attributionWeights(model, n)) = 10000
<1> DEFINE w == attributionWeights(model, n)
<1>0. Len(w) = n /\ n \in Nat
  <2> DEFINE one(i) == CASE model = "first_touch" -> IF i = 1 THEN 10000 ELSE 0
                         [] model = "last_touch"  -> IF i = n THEN 10000 ELSE 0
                         [] model = "linear"      ->
                               (10000 \div n) + (IF i <= 10000 - n * (10000 \div n) THEN 1 ELSE 0)
  <2>1. w = [i \in 1..n |-> one(i)]
    BY DEF attributionWeights
  <2> HIDE DEF one, w
  <2> QED
    BY <2>1
<1>1. CASE model = "first_touch"
  <2> DEFINE f == [i \in 0..n |-> IF i = 0 THEN 0 ELSE 10000]
  <2>1. \A i \in 1..n : w[i] = IF i = 1 THEN 10000 ELSE 0
    BY <1>1 DEF attributionWeights
  <2> HIDE DEF w
  <2>2. f \in [0..n -> Int] /\ f[0] = 0 /\ f[n] = 10000
    OBVIOUS
  <2>3. \A i \in 1..n : f[i] = f[i - 1] + w[i]
    BY <2>1
  <2> HIDE DEF f
  <2>4. Adds(f, w, n)
    BY <1>0, <2>2, <2>3 DEF Adds
  <2>5. Total(w) = f[n]
    BY <2>4, TotalIs
  <2> QED
    BY <2>2, <2>5 DEF w
<1>2. CASE model = "last_touch"
  <2> DEFINE f == [i \in 0..n |-> IF i = n THEN 10000 ELSE 0]
  <2>1. \A i \in 1..n : w[i] = IF i = n THEN 10000 ELSE 0
    BY <1>2 DEF attributionWeights
  <2> HIDE DEF w
  <2>2. f \in [0..n -> Int] /\ f[0] = 0 /\ f[n] = 10000
    OBVIOUS
  <2>3. \A i \in 1..n : f[i] = f[i - 1] + w[i]
    BY <2>1
  <2> HIDE DEF f
  <2>4. Adds(f, w, n)
    BY <1>0, <2>2, <2>3 DEF Adds
  <2>5. Total(w) = f[n]
    BY <2>4, TotalIs
  <2> QED
    BY <2>2, <2>5 DEF w
<1>3. CASE model = "linear"
  <2> DEFINE q == 10000 \div n
             rem == 10000 - n * q
             f == [i \in 0..n |-> i * q + (IF i <= rem THEN i ELSE rem)]
  <2>1. \A i \in 1..n : w[i] = q + (IF i <= rem THEN 1 ELSE 0)
    BY <1>3 DEF attributionWeights
  <2>2. q \in Nat /\ rem \in Nat /\ rem < n /\ n * q + rem = 10000
    OBVIOUS
  <2> HIDE DEF w, q, rem
  <2>3. f \in [0..n -> Int]
    <3>1. \A i \in 0..n : i * q + (IF i <= rem THEN i ELSE rem) \in Int
      BY <2>2
    <3> QED
      BY <3>1
  <2>4. f[0] = 0
    <3>1. 0 * q = 0 /\ 0 <= rem
      BY <2>2
    <3> QED
      BY <3>1
  <2>5. f[n] = 10000
    BY <2>2
  <2>6. ASSUME NEW i \in 1..n PROVE f[i] = f[i - 1] + w[i]
    <3>1. i \in 0..n /\ i - 1 \in 0..n
      OBVIOUS
    <3>2. i * q = (i - 1) * q + q
      BY <2>2
    <3>3. /\ f[i] = i * q + (IF i <= rem THEN i ELSE rem)
          /\ f[i - 1] = (i - 1) * q + (IF i - 1 <= rem THEN i - 1 ELSE rem)
      BY <3>1
    <3>4. i * q \in Int /\ (i - 1) * q \in Int
      BY <2>2
    <3>5. w[i] = q + (IF i <= rem THEN 1 ELSE 0)
      BY <2>1
    <3> HIDE DEF f
    <3> QED
      BY <2>2, <3>2, <3>3, <3>4, <3>5
  <2> HIDE DEF f
  <2>7. Adds(f, w, n)
    BY <1>0, <2>3, <2>4, <2>6 DEF Adds
  <2>8. Total(w) = f[n]
    BY <2>7, TotalIs
  <2> QED
    BY <2>5, <2>8 DEF w
<1> QED
  BY <1>1, <1>2, <1>3 DEF AttributionModel

--------------------------------------------------------------------------------
(* Captures: one open lead per interest, one touch per intake *)

IntakeOutcome == {"none", "created", "merged_into_existing", "rejected"}
IntakeRow == [outcome : IntakeOutcome, lead : 0..MaxLead]
CaptureRow ==
    {Idle} \cup [phase : {"received"}, in : LeadCaptureInput]
           \cup [phase : {"decided"}, in : LeadCaptureInput, party : PartyId, lead : 0..MaxLead]

Deciding(c) == capture[c].phase = "decided"

\* The rows a capture reads and writes.
CaptureTyped ==
    /\ parties \in Seq(PartyView) /\ Len(parties) <= MaxParty
    /\ leads \in Seq(LeadView) /\ Len(leads) <= MaxLead
    /\ touches \in Seq(Seq(Source)) /\ Len(touches) = Len(leads)
    /\ intakes \in [IntakeKey -> IntakeRow]
    /\ capture \in [Capturer -> CaptureRow]
    /\ \A l \in Lead : leads[l].party \in Party /\ touches[l] # <<>>

\* A transaction that holds the lock on an interest and found no open lead is right until
\* it commits, and no other holds the same lock.
DecisionsStand ==
    \A c \in Capturer : Deciding(c) =>
        /\ capture[c].party \in Party /\ capture[c].lead <= Len(leads)
        /\ capture[c].lead = 0 =>
            \A l \in Lead : leads[l].party = capture[c].party
                            /\ leads[l].interest = capture[c].in.interest => Terminal(l)

DecisionsApart ==
    \A c, d \in Capturer :
        Deciding(c) /\ Deciding(d) /\ capture[c].party = capture[d].party
        /\ capture[c].in.interest = capture[d].in.interest => c = d

RecordedFor(l) == {k \in IntakeKey : intakes[k].lead = l}

\* The intakes recorded against a lead are finitely many and counted by its touches; an
\* intake names a lead that exists, and none where nothing is recorded.
IntakesCounted ==
    /\ \A k \in IntakeKey :
        intakes[k].lead <= Len(leads) /\ (intakes[k].outcome = "none" => intakes[k].lead = 0)
    /\ \A l \in Lead :
        IsFiniteSet(RecordedFor(l)) /\ Len(touches[l]) = Cardinality(RecordedFor(l))

CaptureInv == CaptureTyped /\ DecisionsStand /\ DecisionsApart /\ IntakesCounted /\ OneOpenLead

\* What the phases of a capture carry.
LEMMA CaptureRows ==
    ASSUME NEW t \in CaptureRow
    PROVE  /\ t.phase \in {"idle", "received", "decided"}
           /\ t.phase # "idle" => t.in \in LeadCaptureInput
           /\ t.phase = "decided" => t.party \in PartyId /\ t.lead \in 0..MaxLead
BY DEF CaptureRow, Idle

\* A capture not under way is a row of its own.
LEMMA IdleRow == Idle \in CaptureRow /\ Idle.phase = "idle"
BY DEF CaptureRow, Idle

\* The transactions in flight after the step were in flight before it.
CapturesShrink ==
    /\ capture' \in [Capturer -> CaptureRow]
    /\ \A c \in Capturer : capture'[c] = capture[c] \/ capture'[c] = Idle

\* A capture that ends leaves the others as they were.
LEMMA CaptureEnds ==
    ASSUME CaptureInv, NEW c \in Capturer, SetCapture(c, Idle)
    PROVE  CapturesShrink /\ capture'[c] = Idle
BY IdleRow DEF CaptureInv, CaptureTyped, SetCapture, CapturesShrink

\* Leaving the captures alone ends none.
LEMMA CapturesStay == ASSUME CaptureInv, UNCHANGED capture PROVE CapturesShrink
BY DEF CaptureInv, CaptureTyped, CapturesShrink

\* Parties are added and never dropped.
PartiesGrow == parties' \in Seq(PartyView) /\ Len(parties') <= MaxParty /\ Len(parties) <= Len(parties')

\* Leads keep their customer and their interest, and one that is finished stays finished.
LeadsMove ==
    /\ leads' \in Seq(LeadView) /\ Len(leads') = Len(leads)
    /\ \A l \in Lead :
        /\ leads'[l].party = leads[l].party /\ leads'[l].interest = leads[l].interest
        /\ leads[l].state \in {"handed_off", "closed"} => leads'[l].state \in {"handed_off", "closed"}

\* Working the leads, the clock and the customers disturb no capture.
LEMMA MovesKeepCaptures ==
    ASSUME CaptureInv, PartiesGrow, LeadsMove, CapturesShrink, UNCHANGED <<touches, intakes>>
    PROVE  CaptureInv'
<1>0. Len(leads) \in Nat /\ Len(parties) \in Nat /\ Len(parties') \in Nat /\ Lead' = Lead /\ Party \subseteq Party'
  BY DEF CaptureInv, CaptureTyped, PartiesGrow, LeadsMove, Lead, Party
<1>1. CaptureTyped'
  BY <1>0 DEF CaptureInv, CaptureTyped, PartiesGrow, LeadsMove, CapturesShrink, Lead
<1>2. \A c \in Capturer : Deciding(c)' => Deciding(c) /\ capture'[c] = capture[c]
  BY IdleRow DEF CapturesShrink, Deciding
<1>3. DecisionsStand'
  BY <1>0, <1>2 DEF CaptureInv, DecisionsStand, LeadsMove, Terminal, Lead
<1>4. DecisionsApart'
  BY <1>2 DEF CaptureInv, DecisionsApart
<1>5. IntakesCounted'
  BY <1>0 DEF CaptureInv, IntakesCounted, RecordedFor, LeadsMove, Lead
<1>6. OneOpenLead'
  BY <1>0 DEF CaptureInv, OneOpenLead, LeadsMove, Terminal, Lead
<1> QED
  BY <1>1, <1>3, <1>4, <1>5, <1>6 DEF CaptureInv

\* A key is recorded once, so the lead it is recorded for gains exactly one intake.
LEMMA IntakeRecorded ==
    ASSUME CaptureInv, NEW key \in IntakeKey, NEW outcome \in IntakeOutcome \ {"none"},
           NEW l \in 0..MaxLead, recordIntake(key, outcome, l)
    PROVE  /\ intakes' \in [IntakeKey -> IntakeRow]
           /\ intakes'[key] = [outcome |-> outcome, lead |-> l]
           /\ \A k \in IntakeKey : k # key => intakes'[k] = intakes[k]
           /\ intakes[key].lead = 0
           /\ \A m \in Nat \ {0, l} : RecordedFor(m)' = RecordedFor(m)
           /\ l # 0 => RecordedFor(l)' = RecordedFor(l) \cup {key} /\ key \notin RecordedFor(l)
<1>1. [outcome |-> outcome, lead |-> l] \in IntakeRow
  BY DEF IntakeRow
<1>2. /\ intakes' \in [IntakeKey -> IntakeRow]
      /\ intakes'[key] = [outcome |-> outcome, lead |-> l]
      /\ \A k \in IntakeKey : k # key => intakes'[k] = intakes[k]
  BY <1>1 DEF recordIntake, CaptureInv, CaptureTyped
<1>3. intakes[key].lead = 0
  BY DEF recordIntake, CaptureInv, IntakesCounted
<1>4. intakes'[key].lead = l
  BY <1>2
<1>5. ASSUME NEW m \in Nat \ {0, l} PROVE RecordedFor(m)' = RecordedFor(m)
  BY <1>2, <1>3, <1>4 DEF RecordedFor
<1>6. ASSUME l # 0 PROVE RecordedFor(l)' = RecordedFor(l) \cup {key} /\ key \notin RecordedFor(l)
  BY <1>2, <1>3, <1>4, <1>6 DEF RecordedFor
<1> QED
  BY <1>2, <1>3, <1>5, <1>6

\* A refused customer is recorded for no lead.
LEMMA RefusalKeepsCaptures ==
    ASSUME CaptureInv, NEW key \in IntakeKey, recordIntake(key, "rejected", 0), CapturesShrink,
           UNCHANGED <<parties, leads, touches>>
    PROVE  CaptureInv'
<1>0. Len(leads) \in Nat /\ Lead' = Lead /\ Party' = Party /\ 0 \in 0..MaxLead
  BY LeadAssumption DEF CaptureInv, CaptureTyped, Lead, Party
<1>1. /\ intakes' \in [IntakeKey -> IntakeRow]
      /\ intakes'[key] = [outcome |-> "rejected", lead |-> 0]
      /\ \A k \in IntakeKey : k # key => intakes'[k] = intakes[k]
      /\ \A m \in Nat \ {0} : RecordedFor(m)' = RecordedFor(m)
  BY <1>0, IntakeRecorded DEF IntakeOutcome
<1>2. CaptureTyped'
  BY <1>0, <1>1 DEF CaptureInv, CaptureTyped, CapturesShrink
<1>3. \A c \in Capturer : Deciding(c)' => Deciding(c) /\ capture'[c] = capture[c]
  BY IdleRow DEF CapturesShrink, Deciding
<1>4. DecisionsStand' /\ DecisionsApart'
  BY <1>0, <1>3 DEF CaptureInv, DecisionsStand, DecisionsApart, Terminal
<1>5. \A l \in Lead : l \in Nat \ {0}
  BY DEF Lead
<1>6. \A k \in IntakeKey :
        intakes'[k].lead <= Len(leads') /\ (intakes'[k].outcome = "none" => intakes'[k].lead = 0)
  <2> TAKE k \in IntakeKey
  <2>1. CASE k = key
    BY <1>0, <1>1, <2>1
  <2>2. CASE k # key
    BY <1>1, <2>2 DEF CaptureInv, IntakesCounted
  <2> QED
    BY <2>1, <2>2
<1>7. IntakesCounted'
  BY <1>0, <1>1, <1>5, <1>6 DEF CaptureInv, IntakesCounted
<1>8. OneOpenLead'
  BY <1>0 DEF CaptureInv, OneOpenLead, Terminal
<1> QED
  BY <1>2, <1>4, <1>7, <1>8 DEF CaptureInv

\* A capture that joins an open lead adds one touch to it and one intake.
LEMMA MergeKeepsCaptures ==
    ASSUME CaptureInv, NEW l \in Lead, NEW in \in LeadCaptureInput, MergeIntoLead(l, in),
           CapturesShrink, UNCHANGED parties
    PROVE  CaptureInv'
<1>0. /\ Len(leads) \in Nat /\ Len(leads) <= MaxLead /\ Lead' = Lead /\ Party' = Party /\ leads' = leads
      /\ l \in 0..MaxLead /\ l # 0 /\ in.key \in IntakeKey /\ in.source \in Source
      /\ Lead = 1..Len(touches)
  BY LeadAssumption DEF CaptureInv, CaptureTyped, Lead, Party, MergeIntoLead, LeadCaptureInput
<1>1. /\ intakes' \in [IntakeKey -> IntakeRow]
      /\ intakes'[in.key] = [outcome |-> "merged_into_existing", lead |-> l]
      /\ \A k \in IntakeKey : k # in.key => intakes'[k] = intakes[k]
      /\ \A m \in Nat \ {0, l} : RecordedFor(m)' = RecordedFor(m)
      /\ RecordedFor(l)' = RecordedFor(l) \cup {in.key} /\ in.key \notin RecordedFor(l)
  BY <1>0, IntakeRecorded DEF IntakeOutcome, MergeIntoLead
<1>2. /\ touches' \in Seq(Seq(Source)) /\ Len(touches') = Len(touches)
      /\ \A m \in Lead : m # l => touches'[m] = touches[m]
      /\ touches'[l] # <<>> /\ Len(touches'[l]) = Len(touches[l]) + 1
  <2>1. touches[l] \in Seq(Source) /\ Append(touches[l], in.source) \in Seq(Source)
    BY <1>0 DEF CaptureInv, CaptureTyped
  <2>2. touches' = [touches EXCEPT ![l] = Append(touches[l], in.source)]
    BY DEF MergeIntoLead, recordSourceTouch
  <2> DEFINE S == Seq(Source)
             x == Append(touches[l], in.source)
  <2>3. x # <<>> /\ Len(x) = Len(touches[l]) + 1
    BY <2>1
  <2>4. touches \in Seq(S) /\ x \in S
    BY <2>1 DEF CaptureInv, CaptureTyped
  <2> HIDE DEF S, x
  <2>5. [touches EXCEPT ![l] = x] \in Seq(S) /\ Len([touches EXCEPT ![l] = x]) = Len(touches)
        /\ [touches EXCEPT ![l] = x][l] = x
        /\ \A j \in 1..Len(touches) : j # l => [touches EXCEPT ![l] = x][j] = touches[j]
    BY <1>0, <2>4, WrittenRow
  <2> QED
    BY <1>0, <2>2, <2>3, <2>5 DEF S, x
<1>3. CaptureTyped'
  BY <1>0, <1>1, <1>2 DEF CaptureInv, CaptureTyped, CapturesShrink
<1>4. \A c \in Capturer : Deciding(c)' => Deciding(c) /\ capture'[c] = capture[c]
  BY IdleRow DEF CapturesShrink, Deciding
<1>5. DecisionsStand' /\ DecisionsApart'
  BY <1>0, <1>4 DEF CaptureInv, DecisionsStand, DecisionsApart, Terminal
<1>6. \A k \in IntakeKey :
        intakes'[k].lead <= Len(leads') /\ (intakes'[k].outcome = "none" => intakes'[k].lead = 0)
  <2> TAKE k \in IntakeKey
  <2>1. CASE k = in.key
    BY <1>0, <1>1, <2>1 DEF Lead
  <2>2. CASE k # in.key
    BY <1>0, <1>1, <2>2 DEF CaptureInv, IntakesCounted
  <2> QED
    BY <2>1, <2>2
<1>7. ASSUME NEW m \in Lead
      PROVE  IsFiniteSet(RecordedFor(m)') /\ Len(touches'[m]) = Cardinality(RecordedFor(m)')
  <2>0. IsFiniteSet(RecordedFor(m)) /\ Len(touches[m]) = Cardinality(RecordedFor(m))
    BY DEF CaptureInv, IntakesCounted
  <2>1. CASE m = l
    BY <1>1, <1>2, <2>0, <2>1, FS_AddElement
  <2>2. CASE m # l
    <3>1. m \in Nat \ {0, l}
      BY <2>2 DEF Lead
    <3> QED
      BY <1>1, <1>2, <2>0, <2>2, <3>1
  <2> QED
    BY <2>1, <2>2
<1>8. IntakesCounted'
  BY <1>0, <1>6, <1>7 DEF IntakesCounted
<1>9. OneOpenLead'
  BY <1>0 DEF CaptureInv, OneOpenLead, Terminal
<1> QED
  BY <1>3, <1>5, <1>8, <1>9 DEF CaptureInv

\* The lead a capture inserts is a row of the table, open and of its interest.
LEMMA NewLeadTyped ==
    ASSUME NEW p \in PartyId, NEW in \in LeadCaptureInput, sla \in SlaPolicy \cup {NoSla}
    PROVE  /\ NewLead(p, in) \in LeadView /\ NewLead(p, in).party = p
           /\ NewLead(p, in).interest = in.interest /\ NewLead(p, in).state = "new"
<1>1. sla.respond \in Nat \cup {Never} /\ sla.escalate \in Nat \cup {Never}
  BY DEF SlaPolicy, NoSla
<1> QED
  BY <1>1 DEF NewLead, LeadView, LeadState, LeadCaptureInput

\* A new lead of a customer's interest that nobody else is deciding about and that has no
\* open lead: it is the one open lead, with one touch and one intake.
LEMMA CreateKeepsCaptures ==
    ASSUME CaptureInv, PartiesGrow, NEW p \in Party', NEW in \in LeadCaptureInput, CreateLead(p, in),
           sla \in SlaPolicy \cup {NoSla}, CapturesShrink,
           \A c \in Capturer : capture'[c].phase = "decided" =>
                ~(capture'[c].party = p /\ capture'[c].in.interest = in.interest),
           \A l \in Lead : leads[l].party = p /\ leads[l].interest = in.interest => Terminal(l)
    PROVE  CaptureInv' /\ Len(leads') = Len(leads) + 1
<1> DEFINE n == Len(leads) + 1
           x == NewLead(p, in)
<1>0. /\ Len(leads) \in Nat /\ n \in 1..MaxLead /\ in.key \in IntakeKey /\ in.source \in Source
      /\ p \in PartyId /\ Party \subseteq Party' /\ Len(touches) = Len(leads)
  BY LeadAssumption, ContactAssumption
     DEF CaptureInv, CaptureTyped, CreateLead, LeadCaptureInput, PartiesGrow, Party, PartyId
<1>1. x \in LeadView /\ x.party = p /\ x.interest = in.interest /\ x.state = "new"
  BY <1>0, NewLeadTyped
<1> HIDE DEF x
<1>2. /\ leads' \in Seq(LeadView) /\ Len(leads') = n /\ leads'[n] = x
      /\ \A l \in 1..Len(leads) : leads'[l] = leads[l]
  BY <1>1, AppendedRow DEF CreateLead, CaptureInv, CaptureTyped, x
<1>3. /\ touches' \in Seq(Seq(Source)) /\ Len(touches') = n /\ touches'[n] = <<in.source>>
      /\ \A l \in 1..Len(leads) : touches'[l] = touches[l]
  <2> DEFINE S == Seq(Source)
             y == <<in.source>>
  <2>1. y \in S /\ touches \in Seq(S) /\ touches' = Append(touches, y)
    BY <1>0 DEF CreateLead, CaptureInv, CaptureTyped
  <2> HIDE DEF S, y
  <2>2. /\ Append(touches, y) \in Seq(S) /\ Len(Append(touches, y)) = Len(touches) + 1
        /\ Append(touches, y)[Len(touches) + 1] = y
        /\ \A i \in 1..Len(touches) : Append(touches, y)[i] = touches[i]
    BY <2>1, AppendedRow
  <2> QED
    BY <1>0, <2>1, <2>2 DEF S, y
<1>4. Lead' = 1..n /\ Lead = 1..Len(leads) /\ \A l \in Lead' : l # n => l \in Lead
  BY <1>0, <1>2 DEF Lead
<1>5. /\ intakes' \in [IntakeKey -> IntakeRow]
      /\ intakes'[in.key] = [outcome |-> "created", lead |-> n]
      /\ \A k \in IntakeKey : k # in.key => intakes'[k] = intakes[k]
      /\ \A m \in Nat \ {0, n} : RecordedFor(m)' = RecordedFor(m)
      /\ {k \in IntakeKey : intakes'[k].lead = n} = RecordedFor(n) \cup {in.key}
  <2>1. n \in 0..MaxLead /\ n # 0 /\ "created" \in IntakeOutcome \ {"none"}
        /\ recordIntake(in.key, "created", n)
    BY <1>0 DEF IntakeOutcome, CreateLead
  <2> HIDE DEF n
  <2>2. PICK m \in 0..MaxLead : m = n
    BY <2>1
  <2>3. /\ intakes' \in [IntakeKey -> IntakeRow]
        /\ intakes'[in.key] = [outcome |-> "created", lead |-> m]
        /\ \A k \in IntakeKey : k # in.key => intakes'[k] = intakes[k]
        /\ \A o \in Nat \ {0, m} : RecordedFor(o)' = RecordedFor(o)
        /\ RecordedFor(m)' = RecordedFor(m) \cup {in.key}
    BY <1>0, <2>1, <2>2, IntakeRecorded
  <2> QED
    BY <2>2, <2>3 DEF RecordedFor
<1>6. CaptureTyped'
  <2>1. \A l \in Lead' : leads'[l].party \in Party' /\ touches'[l] # <<>>
    <3> TAKE l \in Lead'
    <3>1. CASE l = n
      <4>1. touches'[l] = <<in.source>> /\ <<in.source>> # <<>>
        BY <1>3, <3>1
      <4> QED
        BY <1>1, <1>2, <4>1, <3>1
    <3>2. CASE l # n
      BY <1>0, <1>2, <1>3, <1>4, <3>2 DEF CaptureInv, CaptureTyped
    <3> QED
      BY <3>1, <3>2
  <2> QED
    BY <1>0, <1>2, <1>3, <1>5, <2>1 DEF CaptureTyped, CapturesShrink, PartiesGrow
<1>7. \A c \in Capturer : Deciding(c)' => Deciding(c) /\ capture'[c] = capture[c]
  BY IdleRow DEF CapturesShrink, Deciding
<1>8. \A l \in Lead : Terminal(l)' <=> Terminal(l)
  BY <1>2, <1>4 DEF Terminal
<1>9. DecisionsStand'
  <2> SUFFICES ASSUME NEW c \in Capturer, Deciding(c)'
               PROVE  /\ capture'[c].party \in Party' /\ capture'[c].lead <= n
                      /\ capture'[c].lead = 0 =>
                          \A l \in Lead' : leads'[l].party = capture'[c].party
                             /\ leads'[l].interest = capture'[c].in.interest => Terminal(l)'
    BY <1>2 DEF DecisionsStand
  <2>1. /\ capture'[c] = capture[c] /\ capture[c].party \in Party /\ capture[c].lead <= Len(leads)
        /\ capture[c].lead = 0 =>
            \A l \in Lead : leads[l].party = capture[c].party
                            /\ leads[l].interest = capture[c].in.interest => Terminal(l)
        /\ capture[c].lead \in Nat
    <3>1. capture[c] \in CaptureRow /\ capture[c].phase = "decided"
      BY <1>7 DEF CaptureInv, CaptureTyped, Deciding
    <3>2. capture[c].lead \in 0..MaxLead
      BY <3>1, CaptureRows
    <3> QED
      BY <1>7, <3>2, LeadAssumption DEF CaptureInv, DecisionsStand
  <2>2. ~(capture'[c].party = p /\ capture'[c].in.interest = in.interest)
    BY DEF Deciding
  <2>3. ASSUME capture'[c].lead = 0, NEW l \in Lead', leads'[l].party = capture'[c].party,
               leads'[l].interest = capture'[c].in.interest
        PROVE  Terminal(l)'
    <3>1. l # n
      BY <1>1, <1>2, <2>2, <2>3
    <3>2. l \in Lead /\ leads'[l] = leads[l]
      BY <1>2, <1>4, <3>1
    <3> QED
      BY <1>8, <2>1, <2>3, <3>2
  <2> QED
    BY <1>0, <2>1, <2>3
<1>10. DecisionsApart'
  BY <1>7 DEF CaptureInv, DecisionsApart
<1>11. IntakesCounted'
  <2>1. \A k \in IntakeKey :
          intakes'[k].lead <= n /\ (intakes'[k].outcome = "none" => intakes'[k].lead = 0)
    <3> TAKE k \in IntakeKey
    <3>1. CASE k = in.key
      BY <1>0, <1>5, <3>1
    <3>2. CASE k # in.key
      <4>1. intakes'[k] = intakes[k] /\ intakes[k].lead <= Len(leads) /\ intakes[k].lead \in Nat
        BY <1>5, <3>2, LeadAssumption DEF CaptureInv, IntakesCounted, CaptureTyped, IntakeRow
      <4> QED
        BY <1>0, <4>1 DEF CaptureInv, IntakesCounted
    <3> QED
      BY <3>1, <3>2
  <2>2. RecordedFor(n) = {}
    BY <1>0 DEF CaptureInv, IntakesCounted, RecordedFor, CaptureTyped, IntakeRow
  <2>3. ASSUME NEW m \in Lead'
        PROVE  IsFiniteSet(RecordedFor(m)') /\ Len(touches'[m]) = Cardinality(RecordedFor(m)')
    <3>1. CASE m = n
      <4>1. RecordedFor(m)' = {in.key}
        BY <1>5, <2>2, <3>1 DEF RecordedFor
      <4>2. Len(touches'[m]) = 1
        BY <1>3, <3>1
      <4> QED
        BY <4>1, <4>2, FS_Singleton
    <3>2. CASE m # n
      <4>1. m \in Lead /\ m \in Nat \ {0, n} /\ touches'[m] = touches[m]
        BY <1>0, <1>3, <1>4, <3>2
      <4> QED
        BY <1>5, <4>1 DEF CaptureInv, IntakesCounted
    <3> QED
      BY <3>1, <3>2
  <2> QED
    BY <1>2, <2>1, <2>3 DEF IntakesCounted
<1>12. OneOpenLead'
  <2> SUFFICES ASSUME NEW k \in Lead', NEW l \in Lead', leads'[k].party = leads'[l].party,
                      leads'[k].interest = leads'[l].interest, ~Terminal(k)', ~Terminal(l)', k # l
               PROVE  FALSE
    BY DEF OneOpenLead
  <2>1. ASSUME NEW m \in Lead', m # n, leads'[m].party = p, leads'[m].interest = in.interest
        PROVE  Terminal(m)'
    BY <1>2, <1>4, <1>8, <2>1
  <2>2. k # n /\ l # n
    BY <1>1, <1>2, <2>1
  <2> QED
    BY <1>2, <1>4, <1>8, <2>2 DEF CaptureInv, OneOpenLead
<1> QED
  BY <1>2, <1>6, <1>9, <1>10, <1>11, <1>12 DEF CaptureInv

--------------------------------------------------------------------------------
(* Customers *)

\* SharedContactsAreDeclared, of any list of customers.
Declared(ps) ==
    \A p, q \in DOMAIN ps :
        p # q /\ ps[p].status = "active" /\ ps[q].status = "active" /\ SameContact(ps[p], ps[q]) =>
            ps[p].override \/ ps[q].override

PartyList(ps) == ps \in Seq(PartyView) /\ Len(ps) <= MaxParty /\ Declared(ps)

PartiesInv == PartiesTypeOK /\ SharedContactsAreDeclared

\* The invariant of the customers, said of the list of them.
LEMMA PartiesAreListed == PartiesInv <=> PartiesTypeOK /\ PartyList(parties)
BY DEF PartiesInv, PartiesTypeOK, PartyList, Declared, SharedContactsAreDeclared, Active, Party

\* A customer is created under the decision on its contacts, or not at all.
LEMMA CreationIsListed ==
    ASSUME NEW ps, PartyList(ps), NEW d \in PartyDetails, NEW allow \in BOOLEAN
    PROVE  LET new == createPartyWithin(ps, d, allow)
           IN  PartyList(new) /\ Len(ps) <= Len(new)
<1> DEFINE x == NewParty(ps, d)
           stays == (identifyingCollisions(ps, d, 0) # {} /\ ~allow) \/ Len(ps) = MaxParty
<1>0. Len(ps) \in Nat /\ DOMAIN ps = 1..Len(ps) /\ ps \in Seq(PartyView)
      /\ MaxParty \in Nat /\ Len(ps) <= MaxParty
  BY ContactAssumption DEF PartyList
<1>1. CASE stays
  <2>1. createPartyWithin(ps, d, allow) = ps
    BY <1>1, Zenon DEF createPartyWithin
  <2>2. Len(ps) <= Len(ps)
    BY <1>0
  <2> QED
    BY <2>1, <2>2
<1>2. CASE ~stays
  <2>1. Len(ps) < MaxParty /\ createPartyWithin(ps, d, allow) = Append(ps, x)
    <3>1. Len(ps) < MaxParty
      <4>1. Len(ps) # MaxParty
        BY <1>2, Zenon
      <4> HIDE DEF stays
      <4> QED
        <5>1. Len(ps) \in Nat /\ MaxParty \in Nat /\ Len(ps) <= MaxParty
          BY <1>0
        <5> QED
          BY ONLY <4>1, <5>1
    <3>2. createPartyWithin(ps, d, allow) = IF stays THEN ps ELSE Append(ps, x)
      BY Zenon DEF createPartyWithin
    <3> HIDE DEF stays, x
    <3> QED
      BY <1>2, <3>1, <3>2
  <2>2. x \in PartyView /\ x.email = d.email /\ x.phone = d.phone
        /\ (x.override <=> identifyingCollisions(ps, d, 0) # {})
    <3> DEFINE hit == identifyingCollisions(ps, d, 0) # {}
    <3>1. hit \in BOOLEAN
      BY Zenon
    <3>2. x = [status |-> "active", email |-> d.email, phone |-> d.phone, override |-> hit, mergedInto |-> 0]
      BY Zenon DEF NewParty
    <3> HIDE DEF hit, x
    <3>3. x \in PartyView /\ x.email = d.email /\ x.phone = d.phone /\ x.override = hit
      BY <3>1, <3>2, ContactAssumption DEF PartyView, PartyDetails, PartyStatus
    <3> QED
      BY <3>3 DEF hit
  <2> HIDE DEF x
  <2> DEFINE new == Append(ps, x)
             n == Len(ps) + 1
  <2>3. /\ new \in Seq(PartyView) /\ Len(new) = n /\ new[n] = x
        /\ \A i \in 1..Len(ps) : new[i] = ps[i]
        /\ DOMAIN new = 1..n
    BY <1>0, <2>2, AppendedRow
  <2> HIDE DEF new
  <2>4. ASSUME NEW p \in DOMAIN ps, ps[p].status = "active",
               SameContact(ps[p], x) \/ SameContact(x, ps[p])
        PROVE  x.override
    <3>1. p \in identifyingCollisions(ps, d, 0)
      BY <1>0, <2>2, <2>4 DEF identifyingCollisions, SameContact
    <3> QED
      BY <2>2, <3>1
  <2>5. Declared(new)
    <3> SUFFICES ASSUME NEW p \in DOMAIN new, NEW q \in DOMAIN new, p # q,
                        new[p].status = "active", new[q].status = "active", SameContact(new[p], new[q])
                 PROVE  new[p].override \/ new[q].override
      BY DEF Declared
    <3>1. CASE p = n
      <4>1. q \in 1..Len(ps) /\ new[q] = ps[q] /\ new[p] = x /\ q \in DOMAIN ps
        BY <1>0, <2>3, <3>1
      <4> QED
        BY <2>4, <4>1
    <3>2. CASE q = n
      <4>1. p \in 1..Len(ps) /\ new[p] = ps[p] /\ new[q] = x /\ p \in DOMAIN ps
        BY <1>0, <2>3, <3>2
      <4> QED
        BY <2>4, <4>1
    <3>3. CASE p # n /\ q # n
      <4>1. p \in DOMAIN ps /\ q \in DOMAIN ps /\ new[p] = ps[p] /\ new[q] = ps[q]
        BY <1>0, <2>3, <3>3
      <4> QED
        BY <4>1 DEF PartyList, Declared
    <3> QED
      BY <3>1, <3>2, <3>3
  <2> QED
    BY <1>0, <2>1, <2>3, <2>5, ContactAssumption DEF PartyList, new
<1> QED
  BY <1>1, <1>2

\* Two rows of a batch, one after the other.
LEMMA BatchIsTwoCreations ==
    ASSUME NEW d \in PartyInput, NEW e \in PartyInput, importParties(<<d, e>>)
    PROVE  parties' = createPartyWithin(createPartyWithin(parties, d, FALSE), e, FALSE)
<1> DEFINE one == createPartyWithin(parties, d, FALSE)
           two == createPartyWithin(one, e, FALSE)
           rows == <<d, e>>
           Runs(r) == r = [n \in 0..Len(rows) |->
                              IF n = 0 THEN parties ELSE createPartyWithin(r[n - 1], rows[n], FALSE)]
           w == [n \in 0..2 |-> IF n = 0 THEN parties ELSE IF n = 1 THEN one ELSE two]
           R == CHOOSE r : Runs(r)
<1>1. parties' = R[2]
  BY DEF importParties
<1>2. Len(rows) = 2 /\ rows[1] = d /\ rows[2] = e
  OBVIOUS
<1> HIDE DEF rows
<1>3. Runs(w)
  <2> DEFINE v == [n \in 0..Len(rows) |->
                      IF n = 0 THEN parties ELSE createPartyWithin(w[n - 1], rows[n], FALSE)]
  <2>1. w[0] = parties /\ w[1] = one /\ w[2] = two
    OBVIOUS
  <2> HIDE DEF one, two
  <2>2. v[0] = parties
    BY <1>2
  <2>a. 1 \in 0..Len(rows) /\ 2 \in 0..Len(rows) /\ 1 - 1 = 0 /\ 2 - 1 = 1 /\ 1 # 0 /\ 2 # 0
    BY <1>2
  <2>b. ASSUME NEW n \in 0..Len(rows), n # 0 PROVE v[n] = createPartyWithin(w[n - 1], rows[n], FALSE)
    BY <2>b
  <2> HIDE DEF v, w
  <2>3. v[1] = createPartyWithin(w[0], d, FALSE)
    BY <1>2, <2>a, <2>b
  <2>4. v[2] = createPartyWithin(w[1], e, FALSE)
    BY <1>2, <2>a, <2>b
  <2>5. v[1] = one /\ v[2] = two
    BY <2>1, <2>3, <2>4 DEF one, two
  <2>6. \A n \in 0..2 : n = 0 \/ n = 1 \/ n = 2
    OBVIOUS
  <2>7. \A n \in 0..2 : v[n] = w[n]
    BY <2>1, <2>2, <2>5, <2>6
  <2>8. v = [n \in 0..2 |-> v[n]] /\ w = [n \in 0..2 |-> w[n]]
    BY <1>2 DEF v, w
  <2> HIDE DEF v, w
  <2>9. v = w
    BY <2>7, <2>8
  <2> QED
    BY <2>9 DEF v
<1>4. Runs(R)
  <2> HIDE DEF Runs, w
  <2> QED
    BY <1>3
<1> HIDE DEF R
<1>5. \A n \in 0..2 : R[n] = IF n = 0 THEN parties ELSE createPartyWithin(R[n - 1], rows[n], FALSE)
  BY <1>2, <1>4
<1> HIDE DEF Runs
<1>6. R[0] = parties
  BY <1>5
<1>a. 1 \in 0..2 /\ 2 \in 0..2 /\ 1 - 1 = 0 /\ 2 - 1 = 1 /\ 1 # 0 /\ 2 # 0
  OBVIOUS
<1>b. ASSUME NEW n \in 0..2, n # 0 PROVE R[n] = createPartyWithin(R[n - 1], rows[n], FALSE)
  BY <1>5, <1>b
<1>7. R[1] = createPartyWithin(R[0], d, FALSE)
  BY <1>2, <1>a, <1>b
<1>8. R[2] = createPartyWithin(R[1], e, FALSE)
  BY <1>2, <1>a, <1>b
<1> QED
  BY <1>1, <1>6, <1>7, <1>8

\* Every operation on customers keeps the types and the declarations, and drops nobody.
LEMMA PartiesStep ==
    ASSUME PartiesInv, PartiesNext
    PROVE  PartiesInv' /\ PartiesGrow
<1>0. /\ parties \in Seq(PartyView) /\ Len(parties) <= MaxParty /\ Len(parties) \in Nat
      /\ PartyList(parties) /\ DOMAIN parties = 1..Len(parties) /\ Party = 1..Len(parties) /\ MaxParty \in Nat
      /\ channelConsent \in [PartyId -> ConsentState \cup {"none"}]
      /\ acquiredFrom \in [Stock -> 0..MaxParty]
  BY PartiesAreListed, ContactAssumption DEF PartiesInv, PartiesTypeOK, Party
<1>p. Party \subseteq PartyId
  BY <1>0 DEF PartyId
<1>1. ASSUME NEW ps, PartyList(ps), parties' = ps, Len(parties) <= Len(ps),
             channelConsent' \in [PartyId -> ConsentState \cup {"none"}],
             acquiredFrom' \in [Stock -> 0..MaxParty]
      PROVE  PartiesInv' /\ PartiesGrow
  <2>1. PartiesTypeOK'
    BY <1>1 DEF PartiesTypeOK, PartyList
  <2>2. PartiesInv' <=> PartiesTypeOK' /\ PartyList(parties)'
    BY PartiesAreListed, PTL
  <2>3. PartyList(parties)'
    BY <1>1 DEF PartyList, Declared, SameContact
  <2> QED
    BY <1>1, <2>1, <2>2, <2>3 DEF PartiesGrow, PartyList
<1>2. ASSUME UNCHANGED parties,
             channelConsent' \in [PartyId -> ConsentState \cup {"none"}],
             acquiredFrom' \in [Stock -> 0..MaxParty]
      PROVE  PartiesInv' /\ PartiesGrow
  BY <1>0, <1>1, <1>2
<1>3. ASSUME NEW d \in PartyInput, NEW allow \in BOOLEAN, createParty(d, allow)
      PROVE  PartiesInv' /\ PartiesGrow
  <2>1. d \in PartyDetails
    BY ContactAssumption
  <2> DEFINE new == createPartyWithin(parties, d, allow)
  <2>2. PartyList(new) /\ Len(parties) <= Len(new)
    BY <1>0, <2>1, CreationIsListed
  <2>3. parties' = new /\ UNCHANGED <<channelConsent, acquiredFrom>>
    BY <1>3 DEF createParty
  <2> HIDE DEF new
  <2> QED
    BY <1>0, <1>1, <2>2, <2>3
<1>4. ASSUME NEW d \in PartyInput, NEW e \in PartyInput, importParties(<<d, e>>)
      PROVE  PartiesInv' /\ PartiesGrow
  <2>1. d \in PartyDetails /\ e \in PartyDetails
    BY ContactAssumption
  <2> DEFINE one == createPartyWithin(parties, d, FALSE)
             two == createPartyWithin(one, e, FALSE)
  <2>2. PartyList(one) /\ Len(parties) <= Len(one)
    BY <1>0, <2>1, CreationIsListed
  <2>3. parties' = two /\ UNCHANGED <<channelConsent, acquiredFrom>>
    BY <1>4, BatchIsTwoCreations DEF importParties
  <2> HIDE DEF one
  <2>4. PartyList(two) /\ Len(one) <= Len(two)
    BY <2>1, <2>2, CreationIsListed
  <2> HIDE DEF two
  <2>5. Len(one) \in Nat /\ Len(two) \in Nat
    BY <2>2, <2>4 DEF PartyList
  <2>6. Len(parties) <= Len(two)
    BY <1>0, <2>2, <2>4, <2>5
  <2> QED
    BY <1>0, <1>1, <2>3, <2>4, <2>6
<1>5. ASSUME NEW p \in Party, NEW d \in PartyInput, NEW allow \in BOOLEAN, updateParty(p, d, allow)
      PROVE  PartiesInv' /\ PartiesGrow
  <2> DEFINE sharing == identifyingCollisions(parties, d, p) # {}
             x == [parties[p] EXCEPT !.email = d.email, !.phone = d.phone, !.override = sharing]
             new == [parties EXCEPT ![p] = x]
  <2>1. parties' = new /\ UNCHANGED <<channelConsent, acquiredFrom>>
    <3>1. parties' = [parties EXCEPT ![p].email = d.email, ![p].phone = d.phone, ![p].override = sharing]
      BY <1>5, Zenon DEF updateParty
    <3> HIDE DEF sharing
    <3>2. [parties EXCEPT ![p].email = d.email, ![p].phone = d.phone, ![p].override = sharing] = new
      BY <1>0
    <3> QED
      BY <1>5, <3>1, <3>2 DEF updateParty
  <2>2. parties[p] \in PartyView /\ p \in 1..Len(parties) /\ d \in PartyDetails /\ sharing \in BOOLEAN
    BY <1>0, ContactAssumption
  <2>3. x \in PartyView /\ x.email = d.email /\ x.phone = d.phone /\ x.override = sharing
        /\ x.status = parties[p].status
    <3> HIDE DEF sharing
    <3> QED
      BY <2>2 DEF PartyView, PartyDetails
  <2> HIDE DEF x
  <2>4. /\ new \in Seq(PartyView) /\ Len(new) = Len(parties) /\ DOMAIN new = 1..Len(parties) /\ new[p] = x
        /\ \A j \in 1..Len(parties) : j # p => new[j] = parties[j]
    BY <1>0, <2>2, <2>3, WrittenRow
  <2> HIDE DEF new
  <2>5. ASSUME NEW q \in Party, q # p, parties[q].status = "active",
               SameContact(parties[q], x) \/ SameContact(x, parties[q])
        PROVE  x.override
    <3>1. q \in identifyingCollisions(parties, d, p)
      BY <1>0, <2>3, <2>5 DEF identifyingCollisions, SameContact
    <3>2. sharing
      BY <3>1, Zenon
    <3> HIDE DEF sharing
    <3> QED
      BY <2>3, <3>2
  <2> HIDE DEF sharing
  <2>6. Declared(new)
    <3> SUFFICES ASSUME NEW a \in DOMAIN new, NEW b \in DOMAIN new, a # b,
                        new[a].status = "active", new[b].status = "active", SameContact(new[a], new[b])
                 PROVE  new[a].override \/ new[b].override
      BY DEF Declared
    <3>1. CASE a = p
      BY <1>0, <2>4, <2>5, <3>1
    <3>2. CASE b = p
      BY <1>0, <2>4, <2>5, <3>2
    <3>3. CASE a # p /\ b # p
      BY <1>0, <2>4, <3>3 DEF PartyList, Declared
    <3> QED
      BY <3>1, <3>2, <3>3
  <2>7. PartyList(new) /\ Len(parties) <= Len(new)
    BY <1>0, <2>4, <2>6 DEF PartyList
  <2> QED
    BY <1>0, <1>1, <2>1, <2>7
<1>6. ASSUME NEW p \in Party, NEW state \in ConsentState, setPartyConsent(p, state)
      PROVE  PartiesInv' /\ PartiesGrow
  BY <1>0, <1>2, <1>6 DEF setPartyConsent
<1>7. ASSUME NEW p \in Party, NEW q \in Party, mergeParties(p, q)
      PROVE  PartiesInv' /\ PartiesGrow
  <2> DEFINE x == [parties[q] EXCEPT !.status = "merged", !.mergedInto = p]
             new == [parties EXCEPT ![q] = x]
  <2>1. parties' = new
    BY <1>0, <1>7 DEF mergeParties
  <2>2. x \in PartyView /\ x.status = "merged"
    <3>1. parties[q] \in PartyView /\ p \in 0..MaxParty
      BY <1>0
    <3> QED
      BY <3>1 DEF PartyView, PartyStatus
  <2> HIDE DEF x
  <2>3. /\ new \in Seq(PartyView) /\ Len(new) = Len(parties) /\ DOMAIN new = 1..Len(parties) /\ new[q] = x
        /\ \A j \in 1..Len(parties) : j # q => new[j] = parties[j]
    BY <1>0, <2>2, WrittenRow
  <2> HIDE DEF new
  <2>4. PartyList(new) /\ Len(parties) <= Len(new)
    BY <1>0, <2>2, <2>3 DEF PartyList, Declared
  <2>5. channelConsent' \in [PartyId -> ConsentState \cup {"none"}]
    BY <1>0, <1>7, <1>p DEF mergeParties, AdoptedConsents
  <2>6. acquiredFrom' \in [Stock -> 0..MaxParty]
    BY <1>0, <1>7 DEF mergeParties
  <2> QED
    BY <1>0, <1>1, <2>1, <2>4, <2>5, <2>6
<1>8. ASSUME NEW s \in Stock, NEW p \in Party, StockAcquired(s, p)
      PROVE  PartiesInv' /\ PartiesGrow
  <2>1. acquiredFrom' \in [Stock -> 0..MaxParty]
    BY <1>0, <1>8 DEF StockAcquired
  <2> QED
    BY <1>0, <1>2, <1>8, <2>1 DEF StockAcquired
<1> QED
  BY <1>3, <1>4, <1>5, <1>6, <1>7, <1>8 DEF PartiesNext

--------------------------------------------------------------------------------
(* The steps of a capture *)

\* What a capture asks for names known contacts, sources and interests.
LEMMA InputOfCapture ==
    ASSUME CaptureInv, NEW c \in Capturer, capture[c].phase # "idle"
    PROVE  /\ capture[c].in \in LeadCaptureInput /\ capture[c].in.key \in IntakeKey
           /\ capture[c].in.party \in PartyDetails /\ capture[c].in.partyId \in 0..MaxParty
<1>1. capture[c] \in CaptureRow
  BY DEF CaptureInv, CaptureTyped
<1>2. capture[c].in \in LeadCaptureInput
  BY <1>1, CaptureRows
<1> QED
  BY <1>2 DEF LeadCaptureInput

\* The customer a capture resolves to is a live one, or a new one, or a refusal.
LEMMA ResolvedParty ==
    ASSUME CaptureInv, NEW in \in LeadCaptureInput
    PROVE  /\ resolveParty(in) = 0 => identifyingCollisions(parties, in.party, 0) = {}
           /\ resolveParty(in) \in Party \cup {0, Never}
<1> DEFINE matches == identifyingCollisions(parties, in.party, 0)
<1>0. in.partyId \in 0..MaxParty /\ Party = 1..Len(parties) /\ Len(parties) \in Nat
  BY DEF LeadCaptureInput, CaptureInv, CaptureTyped, Party
<1>1. CASE in.partyId # 0
  BY <1>0, <1>1 DEF resolveParty, Active, Never
<1>2. CASE in.partyId = 0 /\ in.party.email = NoContact /\ in.party.phone = NoContact
  BY <1>2 DEF resolveParty, Never
<1>3. CASE in.partyId = 0 /\ ~(in.party.email = NoContact /\ in.party.phone = NoContact)
  <2>1. resolveParty(in) = IF matches = {} THEN 0 ELSE CHOOSE p \in matches : \A q \in matches : p <= q
    BY <1>3 DEF resolveParty
  <2>2. matches \subseteq Nat /\ matches \subseteq Party /\ 0 \notin Party
    BY <1>0 DEF identifyingCollisions, CaptureInv, CaptureTyped
  <2> HIDE DEF matches
  <2>3. matches # {} => \E p \in matches : \A q \in matches : p <= q
    BY <2>2, LeastNat
  <2>4. matches # {} => resolveParty(in) \in Party /\ resolveParty(in) # 0
    BY <2>1, <2>2, <2>3
  <2> QED
    BY <2>1, <2>4 DEF matches
<1> QED
  BY <1>1, <1>2, <1>3

\* captureLeadWithin, up to the replay check.
LEMMA ReceivedStep ==
    ASSUME CaptureInv, NEW c \in Capturer, NEW in \in CaptureInput, captureReceived(c, in)
    PROVE  CaptureInv'
<1> DEFINE t == [phase |-> "received", in |-> in]
<1>1. t \in CaptureRow /\ t.phase = "received"
  BY LeadAssumption DEF CaptureRow
<1> HIDE DEF t
<1>2. /\ capture' \in [Capturer -> CaptureRow] /\ capture'[c] = t
      /\ \A d \in Capturer : d # c => capture'[d] = capture[d]
  BY <1>1 DEF captureReceived, SetCapture, CaptureInv, CaptureTyped, t
<1>3. \A d \in Capturer : Deciding(d)' => Deciding(d) /\ capture'[d] = capture[d]
  BY <1>1, <1>2 DEF Deciding
<1>4. UNCHANGED <<parties, leads, touches, intakes>>
  BY DEF captureReceived, partyVars
<1>5. Lead' = Lead /\ Party' = Party /\ \A l : Terminal(l)' <=> Terminal(l)
  BY <1>4 DEF Lead, Party, Terminal
<1>6. CaptureTyped'
  BY <1>2, <1>4, <1>5 DEF CaptureInv, CaptureTyped
<1>7. DecisionsStand' /\ DecisionsApart'
  BY <1>3, <1>4, <1>5 DEF CaptureInv, DecisionsStand, DecisionsApart
<1>8. IntakesCounted' /\ OneOpenLead'
  BY <1>4, <1>5 DEF CaptureInv, IntakesCounted, RecordedFor, OneOpenLead
<1> QED
  BY <1>6, <1>7, <1>8 DEF CaptureInv

\* captureLeadWithin, under the lock on the interest: the party and the open lead are read.
LEMMA DecidedStep ==
    ASSUME CaptureInv, NEW c \in Capturer, captureDecided(c)
    PROVE  CaptureInv'
<1> DEFINE in == capture[c].in
           p == resolveParty(in)
           open == OpenLeads(p, in.interest)
           l == IF open = {} THEN 0 ELSE CHOOSE k \in open : TRUE
           t == [phase |-> "decided", in |-> in, party |-> p, lead |-> l]
<1>1. capture[c].phase = "received" /\ p \in Party /\ ~InterestLocked(p, in.interest)
  BY DEF captureDecided
<1>2. in \in LeadCaptureInput
  BY <1>1, InputOfCapture
<1>3. Len(leads) \in Nat /\ Len(leads) <= MaxLead /\ MaxLead \in Nat /\ Party \subseteq PartyId
  BY LeadAssumption, ContactAssumption DEF CaptureInv, CaptureTyped, Party, PartyId
<1>4. l \in 0..Len(leads) /\ (l = 0 => open = {})
  <2>1. open \subseteq 1..Len(leads)
    BY DEF OpenLeads, Lead
  <2> HIDE DEF open
  <2>2. open # {} => (CHOOSE k \in open : TRUE) \in open
    OBVIOUS
  <2>3. open # {} => l \in 1..Len(leads)
    BY <2>1, <2>2
  <2>4. open = {} => l = 0
    OBVIOUS
  <2> HIDE DEF l
  <2> QED
    BY <1>3, <2>3, <2>4
<1>5. open = {} => \A k \in Lead : leads[k].party = p /\ leads[k].interest = in.interest => Terminal(k)
  BY DEF OpenLeads
<1>6. capture' = [capture EXCEPT ![c] = t]
  BY DEF captureDecided, SetCapture
<1>7. UNCHANGED <<parties, leads, touches, intakes>>
  BY DEF captureDecided, partyVars
<1> HIDE DEF in, p, open, l
<1>8. t \in CaptureRow /\ t.phase = "decided" /\ t.party = p /\ t.in = in /\ t.lead = l
  <2>1. l \in 0..MaxLead /\ p \in PartyId
    BY <1>1, <1>3, <1>4
  <2> QED
    BY <1>2, <2>1 DEF CaptureRow
<1> HIDE DEF t
<1>9. /\ capture' \in [Capturer -> CaptureRow] /\ capture'[c] = t
      /\ \A d \in Capturer : d # c => capture'[d] = capture[d]
  BY <1>6, <1>8 DEF CaptureInv, CaptureTyped
<1>10. Lead' = Lead /\ Party' = Party /\ \A k : Terminal(k)' <=> Terminal(k)
  BY <1>7 DEF Lead, Party, Terminal
<1>11. CaptureTyped'
  BY <1>7, <1>9, <1>10 DEF CaptureInv, CaptureTyped
<1>12. DecisionsStand'
  <2> SUFFICES ASSUME NEW d \in Capturer, Deciding(d)'
               PROVE  /\ capture'[d].party \in Party' /\ capture'[d].lead <= Len(leads')
                      /\ capture'[d].lead = 0 =>
                          \A k \in Lead' : leads'[k].party = capture'[d].party
                             /\ leads'[k].interest = capture'[d].in.interest => Terminal(k)'
    BY DEF DecisionsStand
  <2>1. CASE d = c
    BY <1>1, <1>3, <1>4, <1>5, <1>7, <1>8, <1>9, <1>10, <2>1
  <2>2. CASE d # c
    BY <1>7, <1>9, <1>10, <2>2 DEF CaptureInv, DecisionsStand, Deciding
  <2> QED
    BY <2>1, <2>2
<1>13. DecisionsApart'
  <2>1. \A d \in Capturer : Deciding(d) =>
            ~(capture[d].party = p /\ capture[d].in.interest = in.interest)
    BY <1>1 DEF InterestLocked, Deciding
  <2> QED
    BY <1>8, <1>9, <2>1 DEF CaptureInv, DecisionsApart, Deciding
<1>14. IntakesCounted' /\ OneOpenLead'
  BY <1>7, <1>10 DEF CaptureInv, IntakesCounted, RecordedFor, OneOpenLead
<1> QED
  BY <1>11, <1>12, <1>13, <1>14 DEF CaptureInv

\* captureLeadWithin: a capture that found its customer writes lead, touch and intake.
LEMMA WrittenStep ==
    ASSUME CaptureInv, sla \in SlaPolicy \cup {NoSla}, NEW c \in Capturer, captureWritten(c)
    PROVE  CaptureInv' /\ Len(leads) <= Len(leads')
<1> DEFINE t == capture[c]
<1>1. Deciding(c) /\ SetCapture(c, Idle) /\ UNCHANGED parties
  BY DEF captureWritten, Deciding, partyVars
<1>2. t.in \in LeadCaptureInput
  BY <1>1, InputOfCapture DEF Deciding
<1>3. CapturesShrink /\ capture'[c] = Idle
  BY <1>1, CaptureEnds
<1>4. PartiesGrow /\ Party' = Party /\ Len(leads) \in Nat
  BY <1>1 DEF PartiesGrow, CaptureInv, CaptureTyped, Party
<1>5. /\ t.party \in Party /\ t.lead <= Len(leads) /\ t.lead \in Nat
      /\ t.lead = 0 => \A l \in Lead : leads[l].party = t.party
                            /\ leads[l].interest = t.in.interest => Terminal(l)
  <2>1. t \in CaptureRow
    BY DEF CaptureInv, CaptureTyped
  <2>2. t.lead \in 0..MaxLead
    BY <1>1, <2>1, CaptureRows DEF Deciding
  <2> QED
    BY <1>1, <2>2, LeadAssumption DEF CaptureInv, DecisionsStand
<1>6. CASE t.lead = 0
  <2>1. CreateLead(t.party, t.in)
    BY <1>6 DEF captureWritten
  <2>2. ASSUME NEW d \in Capturer, capture'[d].phase = "decided", capture'[d].party = t.party,
               capture'[d].in.interest = t.in.interest
        PROVE  FALSE
    <3>1. capture'[d].phase = "decided" /\ capture'[d].party = t.party /\ capture'[d].in.interest = t.in.interest
      BY <2>2
    <3>2. d # c /\ capture'[d] = capture[d]
      BY <1>3, <3>1, IdleRow DEF CapturesShrink
    <3> QED
      BY <1>1, <3>1, <3>2 DEF CaptureInv, DecisionsApart, Deciding
  <2>3. CaptureInv' /\ Len(leads') = Len(leads) + 1
    <3> DEFINE p == t.party
               in == t.in
    <3>1. p \in Party' /\ in \in LeadCaptureInput /\ CreateLead(p, in)
          /\ (\A d \in Capturer : capture'[d].phase = "decided" =>
                ~(capture'[d].party = p /\ capture'[d].in.interest = in.interest))
          /\ \A l \in Lead : leads[l].party = p /\ leads[l].interest = in.interest => Terminal(l)
      BY <1>2, <1>4, <1>5, <1>6, <2>1, <2>2
    <3> HIDE DEF p, in
    <3> QED
      BY <1>3, <1>4, <3>1, CreateKeepsCaptures
  <2> QED
    BY <1>4, <2>3
<1>7. CASE t.lead # 0
  <2>1. MergeIntoLead(t.lead, t.in) /\ t.lead \in Lead
    BY <1>4, <1>5, <1>7 DEF captureWritten, Lead
  <2> QED
    BY <1>1, <1>2, <1>3, <1>4, <2>1, MergeKeepsCaptures DEF MergeIntoLead
<1> QED
  BY <1>6, <1>7

\* captureLeadWithin: a capture that creates its customer writes all four.
LEMMA NewCustomerStep ==
    ASSUME CaptureInv, PartiesInv, sla \in SlaPolicy \cup {NoSla}, NEW c \in Capturer,
           captureNewCustomer(c)
    PROVE  CaptureInv' /\ PartiesInv' /\ Len(leads) <= Len(leads')
<1> DEFINE in == capture[c].in
           p == Len(parties) + 1
           new == createPartyWithin(parties, in.party, FALSE)
<1>1. /\ capture[c].phase = "received" /\ resolveParty(in) = 0 /\ Len(parties) < MaxParty
      /\ parties' = new /\ CreateLead(p, in) /\ SetCapture(c, Idle)
      /\ UNCHANGED <<channelConsent, acquiredFrom>>
  BY DEF captureNewCustomer
<1>2. in \in LeadCaptureInput /\ in.party \in PartyDetails
  BY <1>1, InputOfCapture
<1>3. Len(parties) \in Nat /\ Len(leads) \in Nat /\ PartyList(parties) /\ MaxParty \in Nat
  BY PartiesAreListed, ContactAssumption DEF CaptureInv, CaptureTyped
<1>4. PartyList(new) /\ Len(parties) <= Len(new) /\ Len(new) = p
  <2>1. identifyingCollisions(parties, in.party, 0) = {}
    BY <1>1, <1>2, ResolvedParty
  <2>2. new = Append(parties, NewParty(parties, in.party))
    <3>1. Len(parties) # MaxParty
      BY <1>1, <1>3
    <3> QED
      BY <2>1, <3>1, Zenon DEF createPartyWithin
  <2>3. Len(Append(parties, NewParty(parties, in.party))) = p
    BY <1>3 DEF PartyList
  <2>4. PartyList(new) /\ Len(parties) <= Len(new)
    BY <1>2, <1>3, CreationIsListed
  <2> QED
    BY <2>2, <2>3, <2>4
<1> HIDE DEF new
<1>5. PartiesInv'
  <2>1. PartiesTypeOK'
    BY <1>1, <1>4 DEF PartiesInv, PartiesTypeOK, PartyList
  <2>2. PartiesInv' <=> PartiesTypeOK' /\ PartyList(parties)'
    BY PartiesAreListed, PTL
  <2>3. PartyList(parties)'
    BY <1>1, <1>4 DEF PartyList, Declared, SameContact
  <2> QED
    BY <2>1, <2>2, <2>3
<1>6. PartiesGrow /\ p \in Party'
  BY <1>1, <1>3, <1>4 DEF PartiesGrow, PartyList, Party
<1>7. CapturesShrink /\ capture'[c] = Idle
  BY <1>1, CaptureEnds
<1>8. \A l \in Lead : leads[l].party # p
  BY <1>3 DEF CaptureInv, CaptureTyped, Party
<1>9. ASSUME NEW d \in Capturer, capture'[d].phase = "decided", capture'[d].party = p PROVE FALSE
  <2>1. capture'[d] = capture[d]
    BY <1>7, <1>9, IdleRow DEF CapturesShrink
  <2>2. capture[d].party \in Party
    BY <1>9, <2>1 DEF CaptureInv, DecisionsStand, Deciding
  <2> QED
    BY <1>3, <1>9, <2>1, <2>2 DEF Party
<1> HIDE DEF p, in
<1>10. CaptureInv' /\ Len(leads') = Len(leads) + 1
  BY <1>1, <1>2, <1>6, <1>7, <1>8, <1>9, CreateKeepsCaptures
<1> QED
  BY <1>3, <1>5, <1>10

\* What no step of a capture touches.
OutsideCaptures ==
    <<channelConsent, acquiredFrom, sources, queues, sla, activities, logging, appointments,
      handoffs, attribution>>

\* Every step of a capture keeps customers, leads and intakes in agreement.
LEMMA CaptureStep ==
    ASSUME CaptureInv, PartiesInv, sla \in SlaPolicy \cup {NoSla}, CaptureNext
    PROVE  CaptureInv' /\ PartiesInv' /\ Len(leads) <= Len(leads') /\ UNCHANGED OutsideCaptures
<1> PICK c \in Capturer :
        \/ \E in \in CaptureInput : captureReceived(c, in)
        \/ captureRefused(c) \/ captureDecided(c) \/ captureWritten(c)
        \/ captureFailed(c) \/ captureNewCustomer(c)
  BY DEF CaptureNext
<1>0. Len(leads) \in Nat /\ Len(leads) <= Len(leads)
  BY DEF CaptureInv, CaptureTyped
<1>p. ASSUME UNCHANGED partyVars PROVE PartiesInv'
  BY <1>p DEF PartiesInv, PartiesTypeOK, SharedContactsAreDeclared, Party, Active, SameContact, partyVars
<1>1. ASSUME NEW in \in CaptureInput, captureReceived(c, in)
      PROVE  CaptureInv' /\ PartiesInv' /\ Len(leads) <= Len(leads') /\ UNCHANGED OutsideCaptures
  BY <1>0, <1>1, <1>p, ReceivedStep DEF captureReceived, OutsideCaptures, partyVars
<1>2. CASE captureRefused(c)
  <2>1. capture[c].phase # "idle" /\ SetCapture(c, Idle) /\ recordIntake(capture[c].in.key, "rejected", 0)
        /\ UNCHANGED <<parties, leads, touches>>
    BY <1>2 DEF captureRefused, partyVars
  <2>2. capture[c].in.key \in IntakeKey
    BY <2>1, InputOfCapture
  <2>3. CaptureInv'
    BY <2>1, <2>2, CaptureEnds, RefusalKeepsCaptures
  <2> QED
    BY <1>0, <1>2, <1>p, <2>3 DEF captureRefused, OutsideCaptures, partyVars
<1>3. CASE captureDecided(c)
  BY <1>0, <1>3, <1>p, DecidedStep DEF captureDecided, OutsideCaptures, partyVars
<1>4. CASE captureWritten(c)
  BY <1>4, <1>p, WrittenStep DEF captureWritten, OutsideCaptures, partyVars
<1>5. CASE captureFailed(c)
  <2>1. CapturesShrink
    BY <1>5, CaptureEnds DEF captureFailed
  <2>2. PartiesGrow /\ LeadsMove
    BY <1>5 DEF captureFailed, partyVars, PartiesGrow, LeadsMove, CaptureInv, CaptureTyped
  <2>3. CaptureInv'
    BY <1>5, <2>1, <2>2, MovesKeepCaptures DEF captureFailed
  <2> QED
    BY <1>0, <1>5, <1>p, <2>3 DEF captureFailed, OutsideCaptures, partyVars
<1>6. CASE captureNewCustomer(c)
  BY <1>6, NewCustomerStep DEF captureNewCustomer, OutsideCaptures
<1> QED
  BY <1>1, <1>2, <1>3, <1>4, <1>5, <1>6

--------------------------------------------------------------------------------
(* Working the leads *)

LoggedActivity == [kind : ActivityKind, direction : {"inbound", "outbound", "none"}, due : BOOLEAN]
LoggingRow ==
    {Idle} \cup [phase : {"checked"}, lead : 1..MaxLead, activity : LoggedActivity]
           \cup [phase : {"closing"}, number : Nat, state : {"completed", "cancelled"}]

\* A transaction in flight is about a lead and an activity that exist.
LoggingHolds(t, ls, n) ==
    (t.phase = "checked" => t.lead \in ls) /\ (t.phase = "closing" => t.number \in 1..n)

\* The rows that working the leads reads and writes.
WorkTyped ==
    /\ sources \in [Source -> {"none", "active", "retired"}] /\ queues \subseteq Queue
    /\ sla \in SlaPolicy \cup {NoSla}
    /\ activities \in Seq(ActivityView) /\ appointments \in Seq(AppointmentView)
    /\ logging \in [Logger -> LoggingRow]
    /\ \A g \in Logger : LoggingHolds(logging[g], Lead, Len(activities))
    /\ attribution = [m \in AttributionModel |-> attribution[m]]
    /\ CreditIsWhole

\* What the phases of logging an activity carry.
LEMMA LoggingRows ==
    ASSUME NEW t \in LoggingRow, t.phase = "checked"
    PROVE  t.lead \in 1..MaxLead /\ t.activity \in LoggedActivity
BY DEF LoggingRow, Idle

LEMMA ClosingRows ==
    ASSUME NEW t \in LoggingRow, t.phase = "closing"
    PROVE  t.number \in Nat /\ t.state \in {"completed", "cancelled"}
BY DEF LoggingRow, Idle

\* Nothing is being logged at first.
LEMMA LoggingIdle ==
    Idle \in LoggingRow /\ Idle.phase # "checked" /\ \A ls, n : LoggingHolds(Idle, ls, n)
BY DEF LoggingRow, LoggingHolds, Idle

\* Leads and activities are added, never taken away.
LEMMA LoggingGrows ==
    ASSUME NEW t, NEW ls, NEW ms, ls \subseteq ms, NEW n \in Nat, NEW m \in Nat, n <= m, LoggingHolds(t, ls, n)
    PROVE  LoggingHolds(t, ms, m)
BY DEF LoggingHolds

\* A row of one lead is written over.
LEMMA LeadWritten ==
    ASSUME CaptureInv, NEW l \in Lead, NEW row \in LeadView, leads' = [leads EXCEPT ![l] = row],
           row.party = leads[l].party, row.interest = leads[l].interest,
           Terminal(l) => row.state \in {"handed_off", "closed"}
    PROVE  LeadsMove
<1>1. leads \in Seq(LeadView) /\ l \in 1..Len(leads) /\ Lead = 1..Len(leads)
  BY DEF CaptureInv, CaptureTyped, Lead
<1>2. /\ leads' \in Seq(LeadView) /\ Len(leads') = Len(leads) /\ leads'[l] = row
      /\ \A j \in 1..Len(leads) : j # l => leads'[j] = leads[j]
  BY <1>1, WrittenRow
<1> QED
  BY <1>1, <1>2 DEF LeadsMove, Terminal

\* A step that writes the leads' rows, each within its lead, moves them.
LEMMA LeadsMapped ==
    ASSUME CaptureInv, NEW rows, leads' = rows, rows \in [Lead -> LeadView],
           \A l \in Lead : rows[l].party = leads[l].party /\ rows[l].interest = leads[l].interest
                           /\ rows[l].state = leads[l].state
    PROVE  LeadsMove
<1>1. Len(leads) \in Nat /\ Lead = 1..Len(leads)
  BY DEF CaptureInv, CaptureTyped, Lead
<1>2. rows \in Seq(LeadView) /\ Len(rows) = Len(leads)
  BY <1>1, FunctionIsSeq
<1> QED
  BY <1>2 DEF LeadsMove

\* Leaving the leads alone moves none.
LEMMA LeadsStay == ASSUME CaptureInv, UNCHANGED leads PROVE LeadsMove
BY DEF LeadsMove, CaptureInv, CaptureTyped

\* Credits computed from the touches as they are hand out whole leads.
LEMMA CreditsComputed ==
    ASSUME CaptureInv, WorkTyped, NEW m \in AttributionModel, computeAttribution(m)
    PROVE  attribution' = [n \in AttributionModel |-> attribution'[n]] /\ CreditIsWhole'
<1> DEFINE run == [l \in Lead |-> attributionWeights(m, Len(touches[l]))]
<1>1. attribution' = [attribution EXCEPT ![m] = run]
  BY DEF computeAttribution
<1>2. /\ attribution' = [n \in AttributionModel |-> attribution'[n]] /\ attribution'[m] = run
      /\ \A n \in AttributionModel : n # m => attribution'[n] = attribution[n]
  <2> HIDE DEF run
  <2> QED
    BY <1>1 DEF WorkTyped
<1>3. ASSUME NEW l \in Lead PROVE Total(run[l]) = 10000
  <2>1. Len(touches[l]) \in Nat \ {0}
    <3>1. touches[l] \in Seq(Source) /\ touches[l] # <<>>
      BY DEF CaptureInv, CaptureTyped, Lead
    <3> DEFINE q == touches[l]
    <3> HIDE DEF q
    <3>2. q \in Seq(Source) /\ q # <<>> => Len(q) \in Nat \ {0}
      OBVIOUS
    <3> QED
      BY <3>1, <3>2 DEF q
  <2>2. run[l] = attributionWeights(m, Len(touches[l]))
    OBVIOUS
  <2> QED
    BY <2>1, <2>2, WeightsAreWhole
<1>4. DOMAIN run = Lead
  OBVIOUS
<1> HIDE DEF run
<1>5. ASSUME NEW n \in AttributionModel, NEW l \in DOMAIN attribution'[n]
      PROVE  Total(attribution'[n][l]) = 10000
  <2>1. CASE n = m
    BY <1>2, <1>3, <1>4, <2>1
  <2>2. CASE n # m
    BY <1>2, <2>2 DEF WorkTyped, CreditIsWhole
  <2> QED
    BY <2>1, <2>2
<1> QED
  BY <1>2, <1>5 DEF CreditIsWhole

\* Every step of work on the leads moves them and keeps the other rows in their types.
LEMMA WorkStep ==
    ASSUME CaptureInv, WorkTyped, WorkNext
    PROVE  LeadsMove /\ WorkTyped' /\ UNCHANGED <<touches, intakes, capture>>
<1>0. /\ leads \in Seq(LeadView) /\ Len(leads) \in Nat /\ Lead = 1..Len(leads) /\ Lead \subseteq 1..MaxLead
      /\ \A l \in Lead : leads[l] \in LeadView
  BY LeadAssumption DEF CaptureInv, CaptureTyped, Lead
<1>s. UNCHANGED leads => LeadsMove
  BY LeadsStay
<1>w. LeadsMove => Lead' = Lead
  BY <1>0 DEF LeadsMove, Lead
<1>1. ASSUME NEW s \in Source, defineLeadSource(s) \/ retireLeadSource(s)
      PROVE  LeadsMove /\ WorkTyped' /\ UNCHANGED <<touches, intakes, capture>>
  <2>1. sources' \in [Source -> {"none", "active", "retired"}]
    BY <1>1 DEF defineLeadSource, retireLeadSource, WorkTyped
  <2>2. UNCHANGED <<queues, sla, leads, touches, intakes, capture, activities, logging,
                   appointments, handoffs, attribution>>
    BY <1>1 DEF defineLeadSource, retireLeadSource
  <2> QED
    BY <1>s, <1>w, <2>1, <2>2 DEF WorkTyped, CreditIsWhole
<1>2. ASSUME NEW q \in Queue, createQueue(q)
      PROVE  LeadsMove /\ WorkTyped' /\ UNCHANGED <<touches, intakes, capture>>
  <2>1. queues' \subseteq Queue
    BY <1>2 DEF createQueue, WorkTyped
  <2>2. UNCHANGED <<sources, sla, leads, touches, intakes, capture, activities, logging,
                   appointments, handoffs, attribution>>
    BY <1>2 DEF createQueue
  <2> QED
    BY <1>s, <1>w, <2>1, <2>2 DEF WorkTyped, CreditIsWhole
<1>3. ASSUME NEW policy \in SlaInput, setSlaPolicy(policy)
      PROVE  LeadsMove /\ WorkTyped' /\ UNCHANGED <<touches, intakes, capture>>
  <2>1. sla' \in SlaPolicy \cup {NoSla}
    BY <1>3, LeadAssumption DEF setSlaPolicy
  <2>2. UNCHANGED <<sources, queues, leads, touches, intakes, capture, activities, logging,
                   appointments, handoffs, attribution>>
    BY <1>3 DEF setSlaPolicy
  <2> QED
    BY <1>s, <1>w, <2>1, <2>2 DEF WorkTyped, CreditIsWhole
<1>4. ASSUME LeadsMove, UNCHANGED <<sources, queues, sla, activities, logging, appointments, attribution>>
      PROVE  WorkTyped'
  BY <1>w, <1>4 DEF WorkTyped, CreditIsWhole
<1>5. ASSUME NEW l \in Lead, NEW s \in LeadState, transitionLead(l, s)
      PROVE  LeadsMove /\ WorkTyped' /\ UNCHANGED <<touches, intakes, capture>>
  <2> DEFINE row == [leads[l] EXCEPT !.state = s]
  <2>1. row \in LeadView /\ row.party = leads[l].party /\ row.interest = leads[l].interest
    BY <1>0 DEF LeadView
  <2>2. ~Terminal(l)
    BY <1>5 DEF transitionLead, LEGAL_TRANSITIONS, Terminal
  <2>3. leads' = [leads EXCEPT ![l] = row]
    BY <1>5 DEF transitionLead, SetLead
  <2> HIDE DEF row
  <2>4. LeadsMove
    BY <2>1, <2>2, <2>3, LeadWritten
  <2> QED
    BY <1>4, <1>5, <2>4 DEF transitionLead
<1>6. ASSUME NEW l \in Lead, NEW o \in Owner \cup {Nobody}, NEW q \in Queue \cup {Nobody}, assignLead(l, o, q)
      PROVE  LeadsMove /\ WorkTyped' /\ UNCHANGED <<touches, intakes, capture>>
  <2> DEFINE to == IF leads[l].state = "new" /\ o # Nobody THEN "working" ELSE leads[l].state
             row == [leads[l] EXCEPT !.owner = o, !.queue = q, !.state = to]
  <2>1. leads' = [leads EXCEPT ![l] = row] /\ ~Terminal(l)
    BY <1>6 DEF assignLead, SetLead
  <2>2. to \in LeadState
    BY <1>0 DEF LeadView, LeadState
  <2> HIDE DEF to
  <2>3. row \in LeadView /\ row.party = leads[l].party /\ row.interest = leads[l].interest
    BY <1>0, <2>2 DEF LeadView
  <2> HIDE DEF row
  <2>4. LeadsMove
    BY <2>1, <2>3, LeadWritten
  <2> QED
    BY <1>4, <1>6, <2>4 DEF assignLead
<1>7. ASSUME NEW l \in Lead, handOffLead(l)
      PROVE  LeadsMove /\ WorkTyped' /\ UNCHANGED <<touches, intakes, capture>>
  <2> DEFINE row == [leads[l] EXCEPT !.state = "handed_off"]
  <2>1. row \in LeadView /\ row.party = leads[l].party /\ row.interest = leads[l].interest /\ row.state = "handed_off"
    BY <1>0 DEF LeadView, LeadState
  <2>2. leads' = [leads EXCEPT ![l] = row]
    BY <1>7 DEF handOffLead, SetLead
  <2> HIDE DEF row
  <2>3. LeadsMove
    BY <2>1, <2>2, LeadWritten
  <2> QED
    BY <1>4, <1>7, <2>3 DEF handOffLead
<1>8. ASSUME NEW g \in Logger, NEW l \in Lead, NEW a \in ActivityInput, logActivityChecked(g, l, a)
      PROVE  LeadsMove /\ WorkTyped' /\ UNCHANGED <<touches, intakes, capture>>
  <2> DEFINE t == [phase |-> "checked", lead |-> l, activity |-> a]
  <2>1. t \in LoggingRow /\ LoggingHolds(t, Lead, Len(activities))
    BY <1>0, LeadAssumption DEF LoggingRow, LoggedActivity, LoggingHolds
  <2> HIDE DEF t
  <2>2. logging' \in [Logger -> LoggingRow] /\ logging'[g] = t /\ \A h \in Logger : h # g => logging'[h] = logging[h]
    BY <1>8, <2>1 DEF logActivityChecked, WorkTyped, t
  <2>3. UNCHANGED <<sources, queues, sla, leads, touches, intakes, capture, activities,
                   appointments, handoffs, attribution>>
    BY <1>8 DEF logActivityChecked
  <2>4. \A h \in Logger : LoggingHolds(logging'[h], Lead, Len(activities))
    BY <2>1, <2>2 DEF WorkTyped
  <2> QED
    BY <1>s, <1>w, <2>2, <2>3, <2>4 DEF WorkTyped, CreditIsWhole
<1>9. ASSUME NEW l \in Lead, scheduleAppointment(l)
      PROVE  LeadsMove /\ WorkTyped' /\ UNCHANGED <<touches, intakes, capture>>
  <2> DEFINE row == [leads[l] EXCEPT !.state = "appointment_set"]
             x == [lead |-> l, state |-> "scheduled", rescheduleCount |-> 0]
  <2>1. row \in LeadView /\ row.party = leads[l].party /\ row.interest = leads[l].interest
    BY <1>0 DEF LeadView, LeadState
  <2>2. leads' = [leads EXCEPT ![l] = row] \/ UNCHANGED leads
    BY <1>0, <1>9 DEF scheduleAppointment, AdvanceToAppointment
  <2>3. ~Terminal(l)
    BY <1>9 DEF scheduleAppointment
  <2> HIDE DEF row
  <2>4. LeadsMove
    BY <1>s, <2>1, <2>2, <2>3, LeadWritten
  <2>5. x \in AppointmentView
    BY <1>0 DEF AppointmentView, AppointmentState
  <2>6. appointments' \in Seq(AppointmentView)
    BY <1>9, <2>5, AppendedRow DEF scheduleAppointment, WorkTyped
  <2>7. UNCHANGED <<sources, queues, sla, touches, intakes, capture, activities, logging, attribution>>
    BY <1>9 DEF scheduleAppointment
  <2> QED
    BY <1>w, <2>4, <2>6, <2>7 DEF WorkTyped, CreditIsWhole
<1>10. ASSUME runEscalationSweep
       PROVE  LeadsMove /\ WorkTyped' /\ UNCHANGED <<touches, intakes, capture>>
  <2> DEFINE row(l) == [leads[l] EXCEPT !.escalated = @ \/ EscalationDue(l)]
             rows == [l \in Lead |-> row(l)]
  <2>1. ASSUME NEW l \in Lead
        PROVE  row(l) \in LeadView /\ row(l).party = leads[l].party /\ row(l).interest = leads[l].interest
               /\ row(l).state = leads[l].state
    <3> DEFINE e == leads[l].escalated \/ EscalationDue(l)
    <3>1. e \in BOOLEAN
      BY Zenon
    <3>2. row(l) = [leads[l] EXCEPT !.escalated = e]
      BY Zenon
    <3> HIDE DEF e, row
    <3>3. leads[l] \in LeadView
      BY <1>0
    <3> QED
      BY <3>1, <3>2, <3>3 DEF LeadView
  <2>2. leads' = rows
    BY <1>10 DEF runEscalationSweep
  <2> HIDE DEF row
  <2>3. rows \in [Lead -> LeadView] /\ \A l \in Lead : rows[l] = row(l)
    BY <2>1
  <2> HIDE DEF rows
  <2>4. LeadsMove
    BY <2>1, <2>2, <2>3, LeadsMapped
  <2> QED
    BY <1>4, <1>10, <2>4 DEF runEscalationSweep
<1>11. ASSUME NEW g \in Logger, logActivityWritten(g)
       PROVE  LeadsMove /\ WorkTyped' /\ UNCHANGED <<touches, intakes, capture>>
  <2> DEFINE t == logging[g]
             row == [leads[t.lead] EXCEPT !.responded = TRUE]
             x == [lead |-> t.lead, kind |-> t.activity.kind, direction |-> t.activity.direction,
                   due |-> t.activity.due, state |-> "open"]
  <2>1. t \in LoggingRow /\ t.phase = "checked" /\ t.lead \in Lead
    BY <1>11 DEF logActivityWritten, WorkTyped, LoggingHolds
  <2>2. t.activity \in LoggedActivity
    BY <2>1, LoggingRows
  <2>3. row \in LeadView /\ row.party = leads[t.lead].party /\ row.interest = leads[t.lead].interest
        /\ row.state = leads[t.lead].state
    <3> DEFINE old == leads[t.lead]
    <3>1. old \in LeadView
      BY <1>0, <2>1
    <3> HIDE DEF old
    <3>2. LET new == [old EXCEPT !.responded = TRUE]
          IN  new \in LeadView /\ new.party = old.party /\ new.interest = old.interest /\ new.state = old.state
      BY <3>1 DEF LeadView
    <3> QED
      BY <3>2 DEF old
  <2>4. leads' = [leads EXCEPT ![t.lead] = row] \/ UNCHANGED leads
    BY <1>0, <1>11 DEF logActivityWritten, stampFirstResponse
  <2>5. x \in ActivityView
    <3>1. t.lead \in 1..MaxLead
      BY <1>0, <2>1
    <3> QED
      BY <2>2, <3>1 DEF ActivityView, LoggedActivity
  <2>6. activities' = Append(activities, x) /\ logging' = [logging EXCEPT ![g] = Idle]
        /\ UNCHANGED <<sources, queues, sla, touches, intakes, capture, appointments, attribution>>
    BY <1>11 DEF logActivityWritten
  <2> HIDE DEF row, x
  <2>7. LeadsMove
    <3> DEFINE l == t.lead
    <3>1. l \in Lead /\ (leads' = [leads EXCEPT ![l] = row] \/ UNCHANGED leads)
          /\ row.party = leads[l].party /\ row.interest = leads[l].interest /\ row.state = leads[l].state
      BY <2>1, <2>3, <2>4
    <3> HIDE DEF l
    <3> QED
      BY <1>s, <2>3, <3>1, LeadWritten DEF Terminal
  <2>8. activities' \in Seq(ActivityView) /\ Len(activities') = Len(activities) + 1
        /\ Len(activities) \in Nat
    BY <2>5, <2>6, AppendedRow DEF WorkTyped
  <2>9. logging' \in [Logger -> LoggingRow]
        /\ \A h \in Logger : LoggingHolds(logging'[h], Lead, Len(activities'))
    <3>1. \A h \in Logger : logging'[h] = Idle \/ logging'[h] = logging[h]
      BY <2>6 DEF WorkTyped
    <3>2. \A h \in Logger : LoggingHolds(logging[h], Lead, Len(activities'))
      BY <2>8, LoggingGrows DEF WorkTyped
    <3>3. logging' \in [Logger -> LoggingRow]
      BY <2>6, LoggingIdle DEF WorkTyped
    <3> QED
      BY <3>1, <3>2, <3>3, LoggingIdle
  <2> QED
    BY <1>w, <2>6, <2>7, <2>8, <2>9 DEF WorkTyped, CreditIsWhole
<1>12. ASSUME NEW g \in Logger, closeActivityWritten(g)
       PROVE  LeadsMove /\ WorkTyped' /\ UNCHANGED <<touches, intakes, capture>>
  <2> DEFINE t == logging[g]
             n == t.number
             x == [activities[n] EXCEPT !.state = t.state]
  <2>0. t \in LoggingRow /\ t.phase = "closing" /\ n \in 1..Len(activities)
    BY <1>12 DEF closeActivityWritten, WorkTyped, LoggingHolds
  <2>1. activities[n] \in ActivityView /\ activities \in Seq(ActivityView)
    BY <2>0 DEF WorkTyped
  <2>2. x \in ActivityView
    <3>1. t.state \in {"completed", "cancelled"}
      BY <2>0, ClosingRows
    <3> QED
      BY <2>1, <3>1 DEF ActivityView
  <2>3. activities' = [activities EXCEPT ![n] = x] /\ logging' = [logging EXCEPT ![g] = Idle]
    BY <1>12 DEF closeActivityWritten
  <2> HIDE DEF x, n
  <2>4. activities' \in Seq(ActivityView) /\ Len(activities') = Len(activities)
    BY <2>0, <2>1, <2>2, <2>3, WrittenRow
  <2>5. UNCHANGED <<sources, queues, sla, leads, touches, intakes, capture, appointments, attribution>>
    BY <1>12 DEF closeActivityWritten
  <2>6. logging' \in [Logger -> LoggingRow]
        /\ \A h \in Logger : LoggingHolds(logging'[h], Lead, Len(activities))
    BY <2>3, LoggingIdle DEF WorkTyped
  <2> QED
    BY <1>s, <1>w, <2>4, <2>5, <2>6 DEF WorkTyped, CreditIsWhole
<1>15. ASSUME NEW g \in Logger, NEW n \in 1..Len(activities), NEW s \in {"completed", "cancelled"},
              closeActivityChecked(g, n, s)
       PROVE  LeadsMove /\ WorkTyped' /\ UNCHANGED <<touches, intakes, capture>>
  <2> DEFINE t == [phase |-> "closing", number |-> n, state |-> s]
  <2>1. t \in LoggingRow /\ LoggingHolds(t, Lead, Len(activities))
    BY DEF LoggingRow, LoggingHolds
  <2> HIDE DEF t
  <2>2. logging' \in [Logger -> LoggingRow] /\ logging'[g] = t /\ \A h \in Logger : h # g => logging'[h] = logging[h]
    BY <1>15, <2>1 DEF closeActivityChecked, WorkTyped, t
  <2>3. UNCHANGED <<sources, queues, sla, leads, touches, intakes, capture, activities,
                   appointments, handoffs, attribution>>
    BY <1>15 DEF closeActivityChecked
  <2>4. \A h \in Logger : LoggingHolds(logging'[h], Lead, Len(activities))
    BY <2>1, <2>2 DEF WorkTyped
  <2> QED
    BY <1>s, <1>w, <2>2, <2>3, <2>4 DEF WorkTyped, CreditIsWhole
<1>13. ASSUME NEW n \in 1..Len(appointments),
              rescheduleAppointment(n) \/ \E s \in AppointmentState : setAppointmentState(n, s)
       PROVE  LeadsMove /\ WorkTyped' /\ UNCHANGED <<touches, intakes, capture>>
  <2>1. appointments[n] \in AppointmentView /\ appointments \in Seq(AppointmentView)
    BY DEF WorkTyped
  <2>2. \E x \in AppointmentView : appointments' = [appointments EXCEPT ![n] = x]
    <3>1. CASE rescheduleAppointment(n)
      <4> DEFINE x == [appointments[n] EXCEPT !.rescheduleCount = appointments[n].rescheduleCount + 1]
      <4>1. x \in AppointmentView
        BY <2>1 DEF AppointmentView
      <4>2. appointments' = [appointments EXCEPT ![n] = x]
        BY <3>1 DEF rescheduleAppointment
      <4> QED
        BY <4>1, <4>2
    <3>2. ASSUME NEW s \in AppointmentState, setAppointmentState(n, s)
          PROVE  \E x \in AppointmentView : appointments' = [appointments EXCEPT ![n] = x]
      <4> DEFINE x == [appointments[n] EXCEPT !.state = s]
      <4>1. x \in AppointmentView
        BY <2>1 DEF AppointmentView
      <4>2. appointments' = [appointments EXCEPT ![n] = x]
        BY <3>2 DEF setAppointmentState
      <4> QED
        BY <4>1, <4>2
    <3> QED
      BY <1>13, <3>1, <3>2
  <2>3. appointments' \in Seq(AppointmentView)
    BY <2>1, <2>2, WrittenRow
  <2>4. UNCHANGED <<sources, queues, sla, leads, touches, intakes, capture, activities, logging, attribution>>
    BY <1>13 DEF rescheduleAppointment, setAppointmentState
  <2> QED
    BY <1>s, <1>w, <2>3, <2>4 DEF WorkTyped, CreditIsWhole
<1>14. ASSUME NEW m \in AttributionModel, computeAttribution(m)
       PROVE  LeadsMove /\ WorkTyped' /\ UNCHANGED <<touches, intakes, capture>>
  <2>1. attribution' = [n \in AttributionModel |-> attribution'[n]] /\ CreditIsWhole'
    BY <1>14, CreditsComputed
  <2>2. UNCHANGED <<sources, queues, sla, leads, touches, intakes, capture, activities, logging, appointments>>
    BY <1>14 DEF computeAttribution
  <2> QED
    BY <1>s, <1>w, <2>1, <2>2 DEF WorkTyped
<1> QED
  BY <1>1, <1>2, <1>3, <1>5, <1>6, <1>7, <1>8, <1>9, <1>10, <1>11, <1>12, <1>13, <1>14, <1>15 DEF WorkNext

--------------------------------------------------------------------------------
(* Sends *)

DispatchRow ==
    {Idle} \cup [phase : {"sending"}, send : (1..MaxVersion) \X PartyId, contact : Email \cup {NoContact}]
ProviderRow == [count : Nat, contact : Email \cup {NoContact}]
Unexecuted == {"draft", "approved"}

\* The rows of campaigns.
SendTyped ==
    /\ minute \in 0..(Day - 1) /\ steady \in 0..Day /\ suppressed \subseteq Email
    /\ consent \in [PartyId -> ConsentState]
    /\ versions \in Seq(CampaignVersionView) /\ Len(versions) <= MaxVersion
    /\ sends \in [1..MaxVersion -> [PartyId -> SendView]]
    /\ dispatch \in [Dispatcher -> DispatchRow]
    /\ provider \in [1..MaxVersion -> [PartyId -> ProviderRow]]
    /\ crashes \in Nat

\* Nothing has gone out for a version that is not executed.
FreshUntilExecuted ==
    \A v \in 1..MaxVersion : v \notin Version \/ versions[v].state \in Unexecuted =>
        \A p \in PartyId : provider[v][p].count = 0

\* A dispatch in flight is about a message that waits, of a version that was executed, and
\* is alone with it.
ClaimsHold ==
    \A d \in Dispatcher : dispatch[d] # Idle =>
        /\ dispatch[d].send[1] \in Version /\ versions[dispatch[d].send[1]].state \notin Unexecuted
        /\ Waiting(dispatch[d].send[1], dispatch[d].send[2])

ClaimsApart ==
    \A d, e \in Dispatcher :
        dispatch[d] # Idle /\ dispatch[e] # Idle /\ dispatch[d].send = dispatch[e].send => d = e

\* RetriesAreBounded, for the versions not drafted yet too.
RetriesCounted ==
    \A v \in 1..MaxVersion, p \in PartyId :
        /\ provider[v][p].count <= sends[v][p].attempts + crashes
        /\ Waiting(v, p) => sends[v][p].attempts < MAX_ATTEMPTS

\* u ticks after minute m the quiet hours end; or that is an hour off, and the clock was
\* changed while the message waited.
EndOfQuiet == {QuietHours.end, QuietHours.end + Day}
HourOff ==
    {QuietHours.end + ClockChange - Day, QuietHours.end + ClockChange, QuietHours.end + ClockChange + Day,
     QuietHours.end - ClockChange, QuietHours.end - ClockChange + Day,
     QuietHours.end - ClockChange + 2 * Day}
WakesRight(m, s, u) == u <= Day /\ (m + u \in EndOfQuiet \/ (u <= s /\ m + u \in HourOff))

\* Every deferred message wakes at the minute the quiet hours end, or an hour off.
WakesAtTheEnd ==
    \A v \in 1..MaxVersion, p \in PartyId :
        sends[v][p].state = "deferred_quiet_hours" /\ sends[v][p].availableIn > 0 =>
            WakesRight(minute, steady, sends[v][p].availableIn)

SendInv ==
    SendTyped /\ FreshUntilExecuted /\ ClaimsHold /\ ClaimsApart /\ RetriesCounted /\ WakesAtTheEnd

\* A dispatcher at work names one message.
LEMMA DispatchRows ==
    ASSUME NEW t \in DispatchRow, t # Idle
    PROVE  /\ t.send \in (1..MaxVersion) \X PartyId /\ t.send[1] \in 1..MaxVersion
           /\ t.send[2] \in PartyId /\ t.send = <<t.send[1], t.send[2]>>
           /\ t.contact \in Email \cup {NoContact}
BY DEF DispatchRow

\* One send is written over.
LEMMA SendWritten ==
    ASSUME SendInv, NEW v \in 1..MaxVersion, NEW p \in PartyId, NEW row \in SendView, SetSend(v, p, row)
    PROVE  /\ sends' \in [1..MaxVersion -> [PartyId -> SendView]] /\ sends'[v][p] = row
           /\ \A w \in 1..MaxVersion, q \in PartyId : w # v \/ q # p => sends'[w][q] = sends[w][q]
BY DEF SendInv, SendTyped, SetSend

\* The row of a message has a known state and a bounded number of attempts.
LEMMA SendRows ==
    ASSUME SendInv, NEW v \in 1..MaxVersion, NEW p \in PartyId
    PROVE  /\ sends[v][p] \in SendView /\ sends[v][p].attempts \in 0..MAX_ATTEMPTS
           /\ sends[v][p].availableIn \in Nat /\ provider[v][p] \in ProviderRow
           /\ provider[v][p].count \in Nat /\ MAX_ATTEMPTS \in Nat \ {0} /\ crashes \in Nat
BY CampaignAssumption DEF SendInv, SendTyped, SendView, ProviderRow

\* A message nobody has claimed is settled or deferred: the row keeps its count, does not
\* begin to wait, and wakes at the end of the quiet hours if it is deferred.
LEMMA SettledUnclaimed ==
    ASSUME SendInv, NEW v \in 1..MaxVersion, NEW p \in PartyId, NEW row \in SendView, SetSend(v, p, row),
           ~SendClaimed(v, p), row.attempts = sends[v][p].attempts,
           row.state \in {"pending", "deferred_quiet_hours"} => Waiting(v, p),
           row.state = "deferred_quiet_hours" /\ row.availableIn > 0 =>
                WakesRight(minute, steady, row.availableIn),
           UNCHANGED <<minute, steady, suppressed, consent, versions, dispatch, provider, crashes>>
    PROVE  SendInv'
<1>0. /\ sends' \in [1..MaxVersion -> [PartyId -> SendView]] /\ sends'[v][p] = row
      /\ \A w \in 1..MaxVersion, q \in PartyId : w # v \/ q # p => sends'[w][q] = sends[w][q]
  BY SendWritten
<1>1. SendTyped'
  BY <1>0 DEF SendInv, SendTyped
<1>2. FreshUntilExecuted' /\ ClaimsApart' /\ Version' = Version
  BY DEF SendInv, FreshUntilExecuted, ClaimsApart, Version
<1>3. ClaimsHold'
  <2> SUFFICES ASSUME NEW d \in Dispatcher, dispatch[d] # Idle
               PROVE  /\ dispatch[d].send[1] \in Version /\ versions[dispatch[d].send[1]].state \notin Unexecuted
                      /\ Waiting(dispatch[d].send[1], dispatch[d].send[2])'
    BY <1>2 DEF ClaimsHold
  <2> DEFINE w == dispatch[d].send[1]
             q == dispatch[d].send[2]
  <2>1. w \in 1..MaxVersion /\ q \in PartyId /\ dispatch[d].send = <<w, q>>
    BY DispatchRows DEF SendInv, SendTyped
  <2>2. w # v \/ q # p
    BY <2>1 DEF SendClaimed
  <2>3. sends'[w][q] = sends[w][q] /\ UNCHANGED dispatch
    BY <1>0, <2>1, <2>2
  <2> QED
    BY <2>3 DEF SendInv, ClaimsHold, Waiting
<1>4. RetriesCounted'
  <2> SUFFICES ASSUME NEW w \in 1..MaxVersion, NEW q \in PartyId
               PROVE  /\ provider[w][q].count <= sends'[w][q].attempts + crashes
                      /\ Waiting(w, q)' => sends'[w][q].attempts < MAX_ATTEMPTS
    BY DEF RetriesCounted
  <2>1. CASE w = v /\ q = p
    BY <1>0, <2>1 DEF SendInv, RetriesCounted, Waiting
  <2>2. CASE w # v \/ q # p
    BY <1>0, <2>2 DEF SendInv, RetriesCounted, Waiting
  <2> QED
    BY <2>1, <2>2
<1>5. WakesAtTheEnd'
  BY <1>0 DEF SendInv, WakesAtTheEnd
<1> QED
  BY <1>1, <1>2, <1>3, <1>4, <1>5 DEF SendInv

\* The constants of the clock.
LEMMA ClockBounds ==
    /\ Day \in Nat \ {0} /\ QuietHours.end \in 0..(Day - 1)
    /\ ClockChange \in 1..(Day - 1) /\ ClockChange \in Nat
BY CampaignAssumption

\* The quiet hours end at the minute the deferral says.
LEMMA QuietHoursEnd ==
    ASSUME minute \in 0..(Day - 1)
    PROVE  quietHoursEndAfter(minute) \in Nat /\ WakesRight(minute, steady, quietHoursEndAfter(minute))
BY ClockBounds DEF quietHoursEndAfter, WakesRight, EndOfQuiet

\* An ordinary minute, or one in which the clock is changed, leaves a waiting message right.
LEMMA MinutesPass ==
    ASSUME minute \in 0..(Day - 1), steady \in 0..Day, WallClock, NEW u \in Nat, u > 1, WakesRight(minute, steady, u)
    PROVE  WakesRight(minute', steady', u - 1)
<1> DEFINE end == QuietHours.end
           C == ClockChange
<1>0. /\ Day \in Nat \ {0} /\ end \in 0..(Day - 1) /\ C \in 1..(Day - 1) /\ C \in Nat
      /\ EndOfQuiet = {end, end + Day}
      /\ HourOff = {end + C - Day, end + C, end + C + Day, end - C, end - C + Day, end - C + 2 * Day}
  BY ClockBounds DEF EndOfQuiet, HourOff
<1>1. /\ u <= Day /\ minute \in Int /\ steady \in Int
      /\ minute + u \in EndOfQuiet \/ (u <= steady /\ minute + u \in HourOff)
  BY DEF WakesRight
<1> HIDE DEF end, C
<1>2. CASE minute' = (minute + 1) % Day /\ steady' = Elapsed(steady)
  <2>1. minute' \in {minute + 1, minute + 1 - Day} /\ minute' \in 0..(Day - 1)
    BY <1>0, <1>1, <1>2
  <2>2. u <= steady => u - 1 <= steady'
    BY <1>1, <1>2 DEF Elapsed
  <2>s. PICK w \in Int : w = minute + u
    BY <1>1
  <2>t. minute' + (u - 1) \in {w, w - Day} /\ minute' + (u - 1) > 0
    <3>0. minute' \in Int /\ minute' >= 0 /\ minute \in Int /\ Day \in Int /\ u \in Int /\ u > 1
      BY <1>0, <1>1, <2>1
    <3>1. CASE minute' = minute + 1
      BY ONLY <2>s, <3>0, <3>1
    <3>2. CASE minute' = minute + 1 - Day
      BY ONLY <2>s, <3>0, <3>2
    <3> QED
      BY <2>1, <3>1, <3>2
  <2>3. CASE minute + u \in EndOfQuiet
    <3>1. minute' + (u - 1) \in EndOfQuiet
      BY <1>0, <2>s, <2>t, <2>3
    <3> QED
      BY <1>0, <1>1, <3>1 DEF WakesRight
  <2>4. CASE u <= steady /\ minute + u \in HourOff
    <3>1. minute' + (u - 1) \in HourOff
      <4>1. CASE w \in {end + C - Day, end + C, end + C + Day}
        BY <1>0, <2>t, <4>1
      <4>2. CASE w \in {end - C, end - C + Day, end - C + 2 * Day}
        BY <1>0, <2>t, <4>2
      <4> QED
        BY <1>0, <2>s, <2>4, <4>1, <4>2
    <3> QED
      BY <1>0, <1>1, <2>2, <2>4, <3>1 DEF WakesRight
  <2> QED
    BY <1>1, <2>3, <2>4
<1>3. ASSUME steady = 0, steady' = Day, NEW shift \in {C, Day - C}, minute' = (minute + 1 + shift) % Day
      PROVE  WakesRight(minute', steady', u - 1)
  <2>1. minute' \in {minute + 1 + shift, minute + 1 + shift - Day}
    BY <1>0, <1>1, <1>3
  <2>2. minute + u \in EndOfQuiet
    BY <1>1, <1>3
  <2>3. minute' + (u - 1) \in HourOff
    BY <1>0, <1>1, <1>3, <2>1, <2>2
  <2> QED
    BY <1>0, <1>1, <1>3, <2>3 DEF WakesRight
<1> QED
  BY <1>2, <1>3 DEF WallClock, C

\* What the wall clock may show.
LEMMA ClockMoves ==
    ASSUME minute \in 0..(Day - 1), steady \in 0..Day, WallClock
    PROVE  minute' \in 0..(Day - 1) /\ steady' \in 0..Day
<1>1. minute \in Int /\ steady \in Int /\ Day \in Nat \ {0} /\ ClockChange \in Nat /\ Day - ClockChange \in Nat
  BY ClockBounds
<1>2. \A i \in Nat : i % Day \in 0..(Day - 1)
  BY <1>1
<1>3. minute + 1 \in Nat /\ minute + 1 + ClockChange \in Nat /\ minute + 1 + (Day - ClockChange) \in Nat
  BY <1>1
<1> QED
  BY <1>1, <1>2, <1>3 DEF WallClock, Elapsed

\* The minute a message wakes at, on the face of the clock.
LEMMA WakingMinute ==
    ASSUME NEW m \in 0..(Day - 1), NEW s \in 0..Day, NEW u \in Nat, WakesRight(m, s, u)
    PROVE  \/ (m + u) % Day = QuietHours.end
           \/ /\ u <= s
              /\ (m + u) % Day \in {(QuietHours.end + ClockChange) % Day,
                                    (QuietHours.end + Day - ClockChange) % Day}
<1> DEFINE end == QuietHours.end
           C == ClockChange
<1>0. /\ Day \in Nat \ {0} /\ end \in 0..(Day - 1) /\ C \in 1..(Day - 1) /\ C \in Nat /\ m \in Int
      /\ EndOfQuiet = {end, end + Day}
      /\ HourOff = {end + C - Day, end + C, end + C + Day, end - C, end - C + Day, end - C + 2 * Day}
  BY ClockBounds DEF EndOfQuiet, HourOff
<1> HIDE DEF end, C
<1>1. CASE m + u \in EndOfQuiet
  <2>1. (m + u) % Day = end
    BY <1>0, <1>1
  <2> QED
    BY <2>1 DEF end
<1>2. CASE u <= s /\ m + u \in HourOff
  <2>1. CASE m + u \in {end + C - Day, end + C, end + C + Day}
    <3>1. (m + u) % Day = (end + C) % Day
      BY <1>0, <2>1
    <3> QED
      BY <1>2, <3>1 DEF end, C
  <2>2. CASE m + u \in {end - C, end - C + Day, end - C + 2 * Day}
    <3>1. (m + u) % Day = (end + Day - C) % Day
      BY <1>0, <2>2
    <3> QED
      BY <1>2, <3>1 DEF end, C
  <2> QED
    BY <1>0, <1>2, <2>1, <2>2
<1> QED
  BY <1>1, <1>2 DEF WakesRight

\* The versions after the step: as many or more, each no earlier in its life, and executed
\* only in the step that prepares its messages.
LEMMA VersionsKeepSends ==
    ASSUME SendInv, versions' \in Seq(CampaignVersionView), Len(versions') <= MaxVersion,
           Len(versions) <= Len(versions'),
           \A v \in Version : versions'[v].state \in Unexecuted <=> versions[v].state \in Unexecuted,
           \A v \in 1..Len(versions') : v \notin Version => versions'[v].state \in Unexecuted,
           UNCHANGED <<minute, steady, suppressed, consent, sends, dispatch, provider, crashes>>
    PROVE  SendInv'
<1>1. Len(versions) \in Nat /\ Len(versions') \in Nat /\ Version \subseteq Version' /\ Version' = 1..Len(versions')
  BY DEF SendInv, SendTyped, Version
<1>2. SendTyped'
  BY DEF SendInv, SendTyped
<1>3. FreshUntilExecuted'
  <2> SUFFICES ASSUME NEW v \in 1..MaxVersion, v \notin Version' \/ versions'[v].state \in Unexecuted, NEW p \in PartyId
               PROVE  provider[v][p].count = 0
    BY DEF FreshUntilExecuted
  <2> QED
    BY <1>1 DEF SendInv, FreshUntilExecuted
<1>4. ClaimsHold'
  BY <1>1 DEF SendInv, ClaimsHold, Waiting
<1>5. ClaimsApart' /\ RetriesCounted' /\ WakesAtTheEnd'
  BY DEF SendInv, ClaimsApart, RetriesCounted, WakesAtTheEnd, Waiting
<1> QED
  BY <1>2, <1>3, <1>4, <1>5 DEF SendInv

\* Steps that touch no message, no dispatch and no version.
LEMMA PermissionsKeepSends ==
    ASSUME SendInv, suppressed' \subseteq Email, consent' \in [PartyId -> ConsentState],
           UNCHANGED <<minute, steady, versions, sends, dispatch, provider, crashes>>
    PROVE  SendInv'
BY DEF SendInv, SendTyped, FreshUntilExecuted, ClaimsHold, ClaimsApart, RetriesCounted, WakesAtTheEnd,
       Version, Waiting

\* draftCampaignVersion appends a version nobody has executed.
LEMMA DraftStep ==
    ASSUME SendInv, NEW optOut \in BOOLEAN, draftCampaignVersion(optOut)
    PROVE  SendInv'
<1> DEFINE x == [state |-> "draft", includesOptOut |-> optOut, audience |-> {}]
<1>1. x \in CampaignVersionView /\ x.state \in Unexecuted
  BY DEF CampaignVersionView, CampaignVersionState, Unexecuted
<1>2. /\ versions' = Append(versions, x) /\ Len(versions) < MaxVersion
      /\ UNCHANGED <<minute, steady, suppressed, consent, sends, dispatch, provider, crashes>>
  BY DEF draftCampaignVersion
<1>3. versions \in Seq(CampaignVersionView) /\ Version = 1..Len(versions) /\ Len(versions) \in Nat /\ MaxVersion \in Nat
  BY CampaignAssumption DEF SendInv, SendTyped, Version
<1> HIDE DEF x
<1>4. /\ versions' \in Seq(CampaignVersionView) /\ Len(versions') = Len(versions) + 1
      /\ versions'[Len(versions) + 1] = x
      /\ \A i \in 1..Len(versions) : versions'[i] = versions[i]
  BY <1>1, <1>2, <1>3, AppendedRow
<1>5. \A v \in 1..Len(versions') : v \notin Version => versions'[v] = x
  BY <1>3, <1>4
<1> QED
  BY <1>1, <1>2, <1>3, <1>4, <1>5, VersionsKeepSends

\* A version that is not executed is given an audience or approved.
LEMMA VersionWritten ==
    ASSUME SendInv, NEW v \in Version, NEW row \in CampaignVersionView, versions' = [versions EXCEPT ![v] = row],
           versions[v].state \in Unexecuted, row.state \in Unexecuted,
           UNCHANGED <<minute, steady, suppressed, consent, sends, dispatch, provider, crashes>>
    PROVE  SendInv'
<1>1. versions \in Seq(CampaignVersionView) /\ Version = 1..Len(versions) /\ Len(versions) \in Nat /\ Len(versions) <= MaxVersion
  BY DEF SendInv, SendTyped, Version
<1>2. /\ versions' \in Seq(CampaignVersionView) /\ Len(versions') = Len(versions) /\ versions'[v] = row
      /\ \A j \in 1..Len(versions) : j # v => versions'[j] = versions[j]
  BY <1>1, WrittenRow
<1> QED
  BY <1>1, <1>2, VersionsKeepSends

\* The audience is made of customers.
LEMMA AudienceOfCustomers ==
    ASSUME PartiesInv, NEW C
    PROVE  {p \in C : sendEligibility(p)} \subseteq PartyId
BY ContactAssumption DEF PartiesInv, PartiesTypeOK, sendEligibility, Active, Party, PartyId

\* executeCampaignVersion prepares each message of a fresh version once.
LEMMA PreparationStep ==
    ASSUME PartiesInv, SendInv, NEW v \in Version,
           \/ \E r \in AudienceRule, chosen \in SUBSET Party : buildAudience(v, r, chosen)
           \/ approveCampaignVersion(v)
    PROVE  SendInv'
<1>0. versions[v] \in CampaignVersionView
  BY DEF SendInv, SendTyped, Version
<1>1. ASSUME NEW r, NEW chosen, buildAudience(v, r, chosen) PROVE SendInv'
  <2> DEFINE a == {p \in resolveAudienceCandidates(r, chosen) : sendEligibility(p)}
             row == [versions[v] EXCEPT !.audience = a]
  <2>1. a \subseteq PartyId
    <3> DEFINE C == resolveAudienceCandidates(r, chosen)
    <3> HIDE DEF C
    <3> QED
      BY AudienceOfCustomers
  <2>2. versions' = [versions EXCEPT ![v] = row] /\ versions[v].state = "draft"
        /\ UNCHANGED <<minute, steady, suppressed, consent, sends, dispatch, provider, crashes>>
    BY <1>1 DEF buildAudience
  <2> HIDE DEF a
  <2>3. row \in CampaignVersionView /\ row.state = "draft"
    BY <1>0, <2>1, <2>2 DEF CampaignVersionView
  <2> HIDE DEF row
  <2> QED
    BY <2>2, <2>3, VersionWritten DEF Unexecuted
<1>2. ASSUME approveCampaignVersion(v) PROVE SendInv'
  <2> DEFINE row == [versions[v] EXCEPT !.state = "approved"]
  <2>1. versions' = [versions EXCEPT ![v] = row] /\ versions[v].state = "draft"
        /\ UNCHANGED <<minute, steady, suppressed, consent, sends, dispatch, provider, crashes>>
    BY <1>2 DEF approveCampaignVersion
  <2>2. row \in CampaignVersionView /\ row.state = "approved"
    BY <1>0 DEF CampaignVersionView, CampaignVersionState
  <2> HIDE DEF row
  <2> QED
    BY <2>1, <2>2, VersionWritten DEF Unexecuted
<1> QED
  BY <1>1, <1>2

\* completeFinishedVersions changes versions, not messages.
LEMMA CompletionStep ==
    ASSUME SendInv, completeFinishedVersions
    PROVE  SendInv'
<1> DEFINE row(v) == IF Finished(v) THEN [versions[v] EXCEPT !.state = "completed"] ELSE versions[v]
           rows == [v \in Version |-> row(v)]
<1>1. versions' = rows /\ UNCHANGED <<minute, steady, suppressed, consent, sends, dispatch, provider, crashes>>
  BY DEF completeFinishedVersions
<1>2. versions \in Seq(CampaignVersionView) /\ Version = 1..Len(versions) /\ Len(versions) \in Nat /\ Len(versions) <= MaxVersion
  BY DEF SendInv, SendTyped, Version
<1>3. ASSUME NEW v \in Version
      PROVE  row(v) \in CampaignVersionView /\ (row(v).state \in Unexecuted <=> versions[v].state \in Unexecuted)
  <2>0. versions[v] \in CampaignVersionView
    BY <1>2
  <2>1. CASE Finished(v)
    <3>1. row(v) = [versions[v] EXCEPT !.state = "completed"]
      BY <2>1
    <3>2. versions[v].state = "executing"
      BY <2>1 DEF Finished
    <3> QED
      BY <2>0, <3>1, <3>2 DEF CampaignVersionView, CampaignVersionState, Unexecuted
  <2>2. CASE ~Finished(v)
    BY <2>0, <2>2
  <2> QED
    BY <2>1, <2>2
<1> HIDE DEF row
<1>4. rows \in [1..Len(versions) -> CampaignVersionView] /\ \A v \in Version : rows[v] = row(v)
  BY <1>2, <1>3
<1> HIDE DEF rows
<1>5. rows \in Seq(CampaignVersionView) /\ Len(rows) = Len(versions)
  BY <1>2, <1>4, FunctionIsSeq
<1> QED
  BY <1>1, <1>2, <1>3, <1>4, <1>5, VersionsKeepSends

\* Whoever may be written to is a customer whose address is a row's.
LEMMA EligibleAddress ==
    ASSUME PartiesInv, NEW p, sendEligibility(p)
    PROVE  parties[p].email \in Email \cup {NoContact}
<1>1. p \in 1..Len(parties) /\ parties \in Seq(PartyView)
  BY DEF sendEligibility, Active, Party, PartiesInv, PartiesTypeOK
<1>2. parties[p] \in PartyView
  BY <1>1
<1> QED
  BY <1>2 DEF PartyView

\* The messages are prepared and none has gone out.
LEMMA ExecutionStep ==
    ASSUME PartiesInv, SendInv, NEW v \in Version, executeCampaignVersion(v)
    PROVE  SendInv'
<1> DEFINE row == [versions[v] EXCEPT !.state = "executing"]
           prep == PreparedSends(v)
<1>1. /\ versions' = [versions EXCEPT ![v] = row] /\ versions[v].state = "approved"
      /\ sends' = [sends EXCEPT ![v] = prep]
      /\ UNCHANGED <<minute, steady, suppressed, consent, dispatch, provider, crashes>>
  BY DEF executeCampaignVersion
<1>2. /\ versions \in Seq(CampaignVersionView) /\ Version = 1..Len(versions) /\ Len(versions) \in Nat
      /\ Len(versions) <= MaxVersion /\ v \in 1..MaxVersion
  BY CampaignAssumption DEF SendInv, SendTyped, Version
<1>3. row \in CampaignVersionView /\ row.state = "executing"
  <2>1. versions[v] \in CampaignVersionView
    BY <1>2
  <2> QED
    BY <2>1 DEF CampaignVersionView, CampaignVersionState
<1> HIDE DEF row
<1>4. /\ versions' \in Seq(CampaignVersionView) /\ Len(versions') = Len(versions) /\ versions'[v] = row
      /\ \A j \in 1..Len(versions) : j # v => versions'[j] = versions[j]
  BY <1>1, <1>2, <1>3, WrittenRow
<1>5. ASSUME NEW p \in PartyId
      PROVE  prep[p] \in SendView /\ prep[p].attempts = 0 /\ prep[p].availableIn = 0
  <2> DEFINE a == [NoSend EXCEPT !.state = "pending", !.contact = parties[p].email]
             b == [NoSend EXCEPT !.state = "suppressed"]
  <2>0. prep[p] \in {NoSend, a, b} /\ (prep[p] = a => sendEligibility(p) \/ prep[p] \in {NoSend, b})
    BY DEF PreparedSends
  <2>1. 0 \in 0..MAX_ATTEMPTS /\ 0 \in Nat
    BY CampaignAssumption
  <2>2. NoSend \in SendView /\ NoSend.attempts = 0 /\ NoSend.availableIn = 0
    BY <2>1 DEF NoSend, SendView, SendState
  <2>3. b \in SendView /\ b.attempts = 0 /\ b.availableIn = 0
    BY <2>1 DEF NoSend, SendView, SendState
  <2>4. ASSUME sendEligibility(p) PROVE a \in SendView /\ a.attempts = 0 /\ a.availableIn = 0
    <3>1. parties[p].email \in Email \cup {NoContact}
      BY <2>4, EligibleAddress
    <3> QED
      BY <2>1, <3>1 DEF NoSend, SendView, SendState
  <2> HIDE DEF a, b, prep
  <2> QED
    BY <2>0, <2>2, <2>3, <2>4
<1>6. prep \in [PartyId -> SendView]
  <2>1. DOMAIN prep = PartyId /\ prep = [p \in PartyId |-> prep[p]]
    BY DEF PreparedSends
  <2> HIDE DEF prep
  <2> QED
    BY <1>5, <2>1
<1> HIDE DEF prep
<1>7. /\ sends' \in [1..MaxVersion -> [PartyId -> SendView]] /\ sends'[v] = prep
      /\ \A w \in 1..MaxVersion : w # v => sends'[w] = sends[w]
  BY <1>1, <1>2, <1>6 DEF SendInv, SendTyped
<1>8. \A p \in PartyId : provider[v][p].count = 0
  BY <1>1, <1>2 DEF SendInv, FreshUntilExecuted, Unexecuted
<1>9. SendTyped'
  BY <1>1, <1>2, <1>4, <1>7 DEF SendInv, SendTyped
<1>10. Version' = Version
  BY <1>2, <1>4 DEF Version
<1>11. FreshUntilExecuted'
  <2> SUFFICES ASSUME NEW w \in 1..MaxVersion, w \notin Version \/ versions'[w].state \in Unexecuted, NEW p \in PartyId
               PROVE  provider[w][p].count = 0
    BY <1>1, <1>10 DEF FreshUntilExecuted
  <2>1. CASE w = v
    BY <1>8, <2>1
  <2>2. CASE w # v
    BY <1>2, <1>4, <2>2 DEF SendInv, FreshUntilExecuted
  <2> QED
    BY <2>1, <2>2
<1>12. ASSUME NEW d \in Dispatcher, dispatch[d] # Idle
       PROVE  /\ dispatch[d].send[1] \in Version /\ versions'[dispatch[d].send[1]].state \notin Unexecuted
              /\ sends'[dispatch[d].send[1]][dispatch[d].send[2]].state \in {"pending", "deferred_quiet_hours"}
  <2> DEFINE w == dispatch[d].send[1]
             q == dispatch[d].send[2]
  <2>1. w \in Version /\ versions[w].state \notin Unexecuted /\ sends[w][q].state \in {"pending", "deferred_quiet_hours"}
    BY <1>12 DEF SendInv, ClaimsHold, Waiting
  <2>2. w # v
    BY <1>1, <2>1 DEF Unexecuted
  <2> HIDE DEF w, q
  <2>3. w \in 1..MaxVersion
    BY <1>2, <2>1, CampaignAssumption
  <2>4. versions'[w] = versions[w] /\ sends'[w] = sends[w]
    BY <1>2, <1>4, <1>7, <2>1, <2>2, <2>3
  <2> QED
    BY <2>1, <2>4 DEF w, q
<1>13. ClaimsHold' /\ ClaimsApart'
  BY <1>1, <1>10, <1>12 DEF ClaimsHold, ClaimsApart, SendInv, Waiting
<1>14. RetriesCounted'
  <2> SUFFICES ASSUME NEW w \in 1..MaxVersion, NEW q \in PartyId
               PROVE  /\ provider[w][q].count <= sends'[w][q].attempts + crashes
                      /\ Waiting(w, q)' => sends'[w][q].attempts < MAX_ATTEMPTS
    BY <1>1 DEF RetriesCounted
  <2>1. CASE w = v
    <3>1. provider[w][q].count = 0 /\ sends'[w][q].attempts = 0 /\ crashes \in Nat /\ MAX_ATTEMPTS \in Nat \ {0}
      BY <1>5, <1>7, <1>8, <2>1, CampaignAssumption DEF SendInv, SendTyped
    <3> QED
      BY <3>1
  <2>2. CASE w # v
    BY <1>7, <2>2 DEF SendInv, RetriesCounted, Waiting
  <2> QED
    BY <2>1, <2>2
<1>15. WakesAtTheEnd'
  <2> SUFFICES ASSUME NEW w \in 1..MaxVersion, NEW q \in PartyId,
                      sends'[w][q].state = "deferred_quiet_hours", sends'[w][q].availableIn > 0
               PROVE  WakesRight(minute, steady, sends'[w][q].availableIn)
    BY <1>1 DEF WakesAtTheEnd
  <2>1. w # v
    <3>1. w = v => sends'[w][q].availableIn = 0
      BY <1>5, <1>7
    <3> QED
      BY <3>1
  <2> QED
    BY <1>7, <2>1 DEF SendInv, WakesAtTheEnd
<1> QED
  BY <1>9, <1>11, <1>13, <1>14, <1>15 DEF SendInv

\* A claim that withholds or defers the message, or takes it in hand.
LEMMA ClaimStep ==
    ASSUME PartiesInv, SendInv, NEW d \in Dispatcher, dispatchClaim(d)
    PROVE  SendInv'
<1>1. PICK v \in Version, p \in PartyId : ClaimWithheld(v, p) \/ ClaimDeferred(v, p) \/ ClaimSending(d, v, p)
  BY DEF dispatchClaim
<1>2. /\ SendDue(v, p) /\ dispatch[d] = Idle
      /\ UNCHANGED <<minute, steady, suppressed, consent, versions, provider, crashes>>
  BY <1>1 DEF dispatchClaim, ClaimWithheld, ClaimDeferred, ClaimSending
<1>3. v \in 1..MaxVersion /\ versions[v].state = "executing" /\ Waiting(v, p) /\ ~SendClaimed(v, p)
  BY <1>2, CampaignAssumption DEF SendDue, SendInv, SendTyped, Version
<1>4. sends[v][p] \in SendView
  BY <1>3, SendRows
<1>5. CASE ClaimWithheld(v, p)
  <2> DEFINE row == [sends[v][p] EXCEPT !.state = "suppressed"]
  <2>1. row \in SendView /\ row.state = "suppressed" /\ row.attempts = sends[v][p].attempts
    BY <1>4 DEF SendView, SendState
  <2>2. SetSend(v, p, row) /\ UNCHANGED dispatch
    BY <1>5 DEF ClaimWithheld
  <2> HIDE DEF row
  <2> QED
    BY <1>2, <1>3, <2>1, <2>2, SettledUnclaimed
<1>6. CASE ClaimDeferred(v, p)
  <2> DEFINE wake == quietHoursEndAfter(minute)
             row == [sends[v][p] EXCEPT !.state = "deferred_quiet_hours", !.availableIn = wake]
  <2>1. wake \in Nat /\ WakesRight(minute, steady, wake)
    BY QuietHoursEnd DEF SendInv, SendTyped
  <2>2. SetSend(v, p, row) /\ UNCHANGED dispatch
    BY <1>6 DEF ClaimDeferred
  <2> HIDE DEF wake
  <2>3. row \in SendView /\ row.attempts = sends[v][p].attempts /\ row.availableIn = wake
    BY <1>4, <2>1 DEF SendView, SendState
  <2> HIDE DEF row
  <2> QED
    BY <1>2, <1>3, <2>1, <2>2, <2>3, SettledUnclaimed
<1>7. CASE ClaimSending(d, v, p)
  <2> DEFINE t == [phase |-> "sending", send |-> <<v, p>>, contact |-> parties[p].email]
  <2>1. dispatch' = [dispatch EXCEPT ![d] = t] /\ UNCHANGED sends /\ sendEligibility(p)
    BY <1>7 DEF ClaimSending
  <2>2. parties[p].email \in Email \cup {NoContact}
    BY <2>1, EligibleAddress
  <2>3. t \in DispatchRow /\ t.send = <<v, p>>
    BY <1>3, <2>2 DEF DispatchRow
  <2> HIDE DEF t
  <2>4. /\ dispatch' \in [Dispatcher -> DispatchRow] /\ dispatch'[d] = t
        /\ \A e \in Dispatcher : e # d => dispatch'[e] = dispatch[e]
    BY <2>1, <2>3 DEF SendInv, SendTyped
  <2>5. SendTyped'
    BY <1>2, <2>1, <2>4 DEF SendInv, SendTyped
  <2>6. Version' = Version /\ FreshUntilExecuted' /\ RetriesCounted' /\ WakesAtTheEnd'
    BY <1>2, <2>1 DEF SendInv, FreshUntilExecuted, RetriesCounted, WakesAtTheEnd, Version, Waiting
  <2>7. ClaimsHold'
    <3> SUFFICES ASSUME NEW e \in Dispatcher, dispatch'[e] # Idle
                 PROVE  /\ dispatch'[e].send[1] \in Version /\ versions[dispatch'[e].send[1]].state \notin Unexecuted
                        /\ sends[dispatch'[e].send[1]][dispatch'[e].send[2]].state \in {"pending", "deferred_quiet_hours"}
      BY <1>2, <2>1, <2>6 DEF ClaimsHold, Waiting
    <3>1. CASE e = d
      <4>1. dispatch'[e].send[1] = v /\ dispatch'[e].send[2] = p
        BY <2>3, <2>4, <3>1
      <4> QED
        BY <1>3, <4>1 DEF Unexecuted, Waiting
    <3>2. CASE e # d
      BY <2>4, <3>2 DEF SendInv, ClaimsHold, Waiting
    <3> QED
      BY <3>1, <3>2
  <2>8. \A e \in Dispatcher : dispatch[e] # Idle => dispatch[e].send # <<v, p>>
    BY <1>3 DEF SendClaimed
  <2>9. ClaimsApart'
    BY <2>3, <2>4, <2>8 DEF SendInv, ClaimsApart
  <2> QED
    BY <2>5, <2>6, <2>7, <2>9 DEF SendInv
<1> QED
  BY <1>1, <1>5, <1>6, <1>7

\* The answer is one attempt more, and the message waits again only below the limit.
LEMMA AnsweredRow ==
    ASSUME NEW row \in SendView, row.attempts < MAX_ATTEMPTS, NEW answer \in ProviderOutcome
    PROVE  LET new == AnsweredSend(row, answer)
           IN  /\ new \in SendView /\ new.attempts = row.attempts + 1
               /\ new.state \in {"sent", "failed", "pending"}
               /\ new.state = "pending" => row.attempts + 1 < MAX_ATTEMPTS
<1>0. /\ row.attempts \in Nat /\ MAX_ATTEMPTS \in Nat /\ row.attempts + 1 \in 0..MAX_ATTEMPTS /\ Backoff \in Nat
      /\ row.availableIn \in Nat
  BY CampaignAssumption DEF SendView
<1> DEFINE giveUp == answer = "permanent" \/ row.attempts + 1 >= MAX_ATTEMPTS
           st == IF giveUp THEN "failed" ELSE "pending"
           av == IF giveUp THEN row.availableIn ELSE Backoff
           a == [row EXCEPT !.attempts = row.attempts + 1, !.state = "sent"]
           b == [row EXCEPT !.attempts = row.attempts + 1, !.state = st, !.availableIn = av]
<1>1. AnsweredSend(row, answer) = IF answer = "sent" THEN a ELSE b
  BY Zenon DEF AnsweredSend, Retried
<1>2. st \in {"failed", "pending"} /\ av \in Nat /\ (st = "pending" => row.attempts + 1 < MAX_ATTEMPTS)
  BY <1>0
<1> HIDE DEF st, av, giveUp
<1>3. a \in SendView /\ a.attempts = row.attempts + 1 /\ a.state = "sent"
  BY <1>0 DEF SendView, SendState
<1>4. b \in SendView /\ b.attempts = row.attempts + 1 /\ b.state = st
  BY <1>0, <1>2 DEF SendView, SendState
<1> HIDE DEF a, b
<1>5. AnsweredSend(row, answer) = a \/ AnsweredSend(row, answer) = b
  BY <1>1
<1> QED
  BY <1>2, <1>3, <1>4, <1>5

\* The provider is handed one message more.
LEMMA HandedOnce ==
    ASSUME SendInv, NEW v \in 1..MaxVersion, NEW p \in PartyId, NEW a \in Email \cup {NoContact}, Handed(v, p, a)
    PROVE  /\ provider' \in [1..MaxVersion -> [PartyId -> ProviderRow]]
           /\ provider'[v][p].count = provider[v][p].count + 1
           /\ \A w \in 1..MaxVersion, q \in PartyId : w # v \/ q # p => provider'[w][q] = provider[w][q]
<1> DEFINE r == [count |-> provider[v][p].count + 1, contact |-> a]
<1>1. provider' = [provider EXCEPT ![v][p] = r]
  BY DEF Handed
<1>2. r \in ProviderRow /\ r.count = provider[v][p].count + 1
  BY SendRows DEF ProviderRow
<1> HIDE DEF r
<1> QED
  BY <1>1, <1>2 DEF SendInv, SendTyped

\* What a dispatcher in flight has in hand.
LEMMA InHand ==
    ASSUME SendInv, NEW d \in Dispatcher, dispatch[d] # Idle
    PROVE  \E v \in 1..MaxVersion, p \in PartyId :
              /\ dispatch[d].send = <<v, p>> /\ dispatch[d].send[1] = v /\ dispatch[d].send[2] = p
              /\ dispatch[d].contact \in Email \cup {NoContact}
              /\ v \in Version /\ versions[v].state \notin Unexecuted /\ Waiting(v, p)
              /\ \A e \in Dispatcher : e # d /\ dispatch[e] # Idle => dispatch[e].send # <<v, p>>
<1> DEFINE v == dispatch[d].send[1]
           p == dispatch[d].send[2]
<1>1. v \in 1..MaxVersion /\ p \in PartyId /\ dispatch[d].send = <<v, p>> /\ dispatch[d].contact \in Email \cup {NoContact}
  BY DispatchRows DEF SendInv, SendTyped
<1>2. v \in Version /\ versions[v].state \notin Unexecuted /\ Waiting(v, p)
  BY DEF SendInv, ClaimsHold
<1>3. \A e \in Dispatcher : e # d /\ dispatch[e] # Idle => dispatch[e].send # <<v, p>>
  BY <1>1 DEF SendInv, ClaimsApart
<1> HIDE DEF v, p
<1>4. dispatch[d].send[1] = v /\ dispatch[d].send[2] = p
  BY DEF v, p
<1> QED
  BY <1>1, <1>2, <1>3, <1>4

\* The dispatcher is done with the message in hand: it was handed over once more, and the
\* row counts it or the dispatcher died.
LEMMA HandedOver ==
    ASSUME SendInv, NEW d \in Dispatcher, dispatch[d] # Idle, NEW v \in 1..MaxVersion, NEW p \in PartyId,
           dispatch[d].send = <<v, p>>, v \in Version, versions[v].state \notin Unexecuted, Waiting(v, p),
           \A e \in Dispatcher : e # d /\ dispatch[e] # Idle => dispatch[e].send # <<v, p>>,
           NEW a \in Email \cup {NoContact}, Handed(v, p, a),
           NEW row \in SendView, SetSend(v, p, row), dispatch' = [dispatch EXCEPT ![d] = Idle],
           crashes' \in Nat, crashes <= crashes', row.attempts + crashes' = sends[v][p].attempts + crashes + 1,
           row.state \in {"pending", "deferred_quiet_hours"} => row.attempts < MAX_ATTEMPTS,
           row.state = "deferred_quiet_hours" => row = sends[v][p],
           UNCHANGED <<minute, steady, suppressed, consent, versions>>
    PROVE  SendInv'
<1>1. /\ sends' \in [1..MaxVersion -> [PartyId -> SendView]] /\ sends'[v][p] = row
      /\ \A w \in 1..MaxVersion, q \in PartyId : w # v \/ q # p => sends'[w][q] = sends[w][q]
  BY SendWritten
<1>2. /\ provider' \in [1..MaxVersion -> [PartyId -> ProviderRow]]
      /\ provider'[v][p].count = provider[v][p].count + 1
      /\ \A w \in 1..MaxVersion, q \in PartyId : w # v \/ q # p => provider'[w][q] = provider[w][q]
  BY HandedOnce
<1>3. /\ dispatch' \in [Dispatcher -> DispatchRow] /\ dispatch'[d] = Idle
      /\ \A e \in Dispatcher : e # d => dispatch'[e] = dispatch[e]
  BY DEF SendInv, SendTyped, DispatchRow
<1>4. SendTyped' /\ Version' = Version
  BY <1>1, <1>2, <1>3 DEF SendInv, SendTyped, Version
<1>5. FreshUntilExecuted'
  <2> SUFFICES ASSUME NEW w \in 1..MaxVersion, w \notin Version \/ versions[w].state \in Unexecuted, NEW q \in PartyId
               PROVE  provider'[w][q].count = 0
    BY <1>4 DEF FreshUntilExecuted
  <2>1. w # v
    OBVIOUS
  <2> QED
    BY <1>2, <2>1 DEF SendInv, FreshUntilExecuted
<1>6. ClaimsHold'
  <2> SUFFICES ASSUME NEW e \in Dispatcher, dispatch'[e] # Idle
               PROVE  /\ dispatch'[e].send[1] \in Version /\ versions[dispatch'[e].send[1]].state \notin Unexecuted
                      /\ sends'[dispatch'[e].send[1]][dispatch'[e].send[2]].state \in {"pending", "deferred_quiet_hours"}
    BY <1>4 DEF ClaimsHold, Waiting
  <2>1. e # d /\ dispatch'[e] = dispatch[e] /\ dispatch[e] # Idle
    BY <1>3
  <2> DEFINE w == dispatch[e].send[1]
             q == dispatch[e].send[2]
  <2>2. w \in 1..MaxVersion /\ q \in PartyId /\ dispatch[e].send = <<w, q>>
    BY <2>1, DispatchRows DEF SendInv, SendTyped
  <2>3. w # v \/ q # p
    BY <2>1, <2>2
  <2>4. sends'[w][q] = sends[w][q]
    BY <1>1, <2>2, <2>3
  <2> QED
    BY <2>1, <2>4 DEF SendInv, ClaimsHold, Waiting
<1>7. ClaimsApart'
  BY <1>3 DEF SendInv, ClaimsApart
<1>8. RetriesCounted'
  <2> SUFFICES ASSUME NEW w \in 1..MaxVersion, NEW q \in PartyId
               PROVE  /\ provider'[w][q].count <= sends'[w][q].attempts + crashes'
                      /\ sends'[w][q].state \in {"pending", "deferred_quiet_hours"} => sends'[w][q].attempts < MAX_ATTEMPTS
    BY DEF RetriesCounted, Waiting
  <2>0. provider[w][q].count <= sends[w][q].attempts + crashes
    BY DEF SendInv, RetriesCounted
  <2>1. provider[w][q].count \in Nat /\ sends[w][q].attempts \in Nat /\ crashes \in Nat
    BY SendRows
  <2>2. CASE w = v /\ q = p
    <3>1. /\ provider'[w][q].count = provider[w][q].count + 1 /\ sends'[w][q] = row
          /\ row.attempts + crashes' = sends[w][q].attempts + crashes + 1
      BY <1>1, <1>2, <2>2
    <3>2. provider[w][q].count + 1 <= sends[w][q].attempts + crashes + 1
      BY ONLY <2>0, <2>1
    <3> QED
      BY <3>1, <3>2
  <2>3. CASE w # v \/ q # p
    <3>1. sends'[w][q] = sends[w][q] /\ provider'[w][q] = provider[w][q]
      BY <1>1, <1>2, <2>3
    <3> QED
      BY <2>0, <2>1, <3>1 DEF SendInv, RetriesCounted, Waiting
  <2> QED
    BY <2>2, <2>3
<1>9. WakesAtTheEnd'
  <2> SUFFICES ASSUME NEW w \in 1..MaxVersion, NEW q \in PartyId,
                      sends'[w][q].state = "deferred_quiet_hours", sends'[w][q].availableIn > 0
               PROVE  WakesRight(minute, steady, sends'[w][q].availableIn)
    BY DEF WakesAtTheEnd
  <2>1. sends'[w][q] = sends[w][q]
    BY <1>1
  <2> QED
    BY <2>1 DEF SendInv, WakesAtTheEnd
<1> QED
  BY <1>4, <1>5, <1>6, <1>7, <1>8, <1>9 DEF SendInv

\* dispatchDueSends, after the provider's answer: sent, retried later or given up.
LEMMA AnswerStep ==
    ASSUME SendInv, NEW d \in Dispatcher, NEW answer \in ProviderOutcome, dispatchAnswered(d, answer)
    PROVE  SendInv'
<1>1. dispatch[d] # Idle
  BY DEF dispatchAnswered
<1>2. PICK v \in 1..MaxVersion, p \in PartyId :
         /\ dispatch[d].send = <<v, p>> /\ dispatch[d].send[1] = v /\ dispatch[d].send[2] = p
         /\ dispatch[d].contact \in Email \cup {NoContact}
         /\ v \in Version /\ versions[v].state \notin Unexecuted /\ Waiting(v, p)
         /\ \A e \in Dispatcher : e # d /\ dispatch[e] # Idle => dispatch[e].send # <<v, p>>
  BY <1>1, InHand
<1> DEFINE row == AnsweredSend(sends[v][p], answer)
           a == dispatch[d].contact
<1>3. /\ Handed(v, p, a) /\ SetSend(v, p, row) /\ dispatch' = [dispatch EXCEPT ![d] = Idle]
      /\ UNCHANGED <<minute, steady, suppressed, consent, versions, crashes>>
  BY <1>2 DEF dispatchAnswered
<1>4. sends[v][p] \in SendView /\ sends[v][p].attempts < MAX_ATTEMPTS /\ sends[v][p].attempts \in Nat /\ crashes \in Nat
  BY <1>2, SendRows DEF SendInv, RetriesCounted
<1>5. /\ row \in SendView /\ row.attempts = sends[v][p].attempts + 1
      /\ row.state \in {"sent", "failed", "pending"}
      /\ row.state = "pending" => sends[v][p].attempts + 1 < MAX_ATTEMPTS
  BY <1>4, AnsweredRow
<1>6. a \in Email \cup {NoContact}
  BY <1>2
<1> HIDE DEF row, a
<1>7. /\ crashes' \in Nat /\ crashes <= crashes' /\ row.attempts + crashes' = sends[v][p].attempts + crashes + 1
  BY <1>3, <1>4, <1>5
<1> QED
  BY <1>1, <1>2, <1>3, <1>4, <1>5, <1>6, <1>7, HandedOver

\* A dispatcher that dies leaves the row it had claimed.
LEMMA CrashStep ==
    ASSUME SendInv, NEW d \in Dispatcher, dispatchCrashed(d)
    PROVE  SendInv'
<1>1. dispatch[d] # Idle
  BY DEF dispatchCrashed
<1>2. PICK v \in 1..MaxVersion, p \in PartyId :
         /\ dispatch[d].send = <<v, p>> /\ dispatch[d].send[1] = v /\ dispatch[d].send[2] = p
         /\ dispatch[d].contact \in Email \cup {NoContact}
         /\ v \in Version /\ versions[v].state \notin Unexecuted /\ Waiting(v, p)
         /\ \A e \in Dispatcher : e # d /\ dispatch[e] # Idle => dispatch[e].send # <<v, p>>
  BY <1>1, InHand
<1> DEFINE row == sends[v][p]
           a == dispatch[d].contact
<1>3. /\ Handed(v, p, a) /\ UNCHANGED sends /\ dispatch' = [dispatch EXCEPT ![d] = Idle]
      /\ crashes' = crashes + 1 /\ UNCHANGED <<minute, steady, suppressed, consent, versions>>
  BY <1>2 DEF dispatchCrashed
<1>4. SetSend(v, p, row)
  BY <1>3 DEF SetSend, SendInv, SendTyped
<1>5. row \in SendView /\ row.attempts < MAX_ATTEMPTS /\ row.attempts \in Nat /\ crashes \in Nat
  BY <1>2, SendRows DEF SendInv, RetriesCounted
<1>6. a \in Email \cup {NoContact} /\ row = sends[v][p]
  BY <1>2
<1> HIDE DEF row, a
<1>7. crashes' \in Nat /\ crashes <= crashes' /\ row.attempts + crashes' = sends[v][p].attempts + crashes + 1
  BY <1>3, <1>5, <1>6
<1> QED
  BY <1>1, <1>2, <1>3, <1>4, <1>5, <1>6, <1>7, HandedOver

\* reconcileSend settles a message that is not claimed.
LEMMA ReconcileStep ==
    ASSUME SendInv, NEW v \in Version, NEW p \in PartyId, NEW s \in {"sent", "failed"}, reconcileSend(v, p, s)
    PROVE  SendInv'
<1> DEFINE row == [sends[v][p] EXCEPT !.state = s]
<1>1. v \in 1..MaxVersion
  BY CampaignAssumption DEF SendInv, SendTyped, Version
<1>2. /\ SetSend(v, p, row) /\ ~SendClaimed(v, p)
      /\ UNCHANGED <<minute, steady, suppressed, consent, versions, dispatch, provider, crashes>>
  BY DEF reconcileSend
<1>3. sends[v][p] \in SendView
  BY <1>1, SendRows
<1>4. row \in SendView /\ row.state = s /\ row.attempts = sends[v][p].attempts
  BY <1>3 DEF SendView, SendState
<1> HIDE DEF row
<1> QED
  BY <1>1, <1>2, <1>4, SettledUnclaimed

--------------------------------------------------------------------------------
(* The whole CRM *)

\* The inductive invariant: customers, captures, the work on leads, and the sends.
CrmInv == PartiesInv /\ CaptureInv /\ WorkTyped /\ SendInv

\* Leaving the customers alone keeps what is known of them.
LEMMA CustomersStay == ASSUME PartiesInv, UNCHANGED partyVars PROVE PartiesInv' /\ PartiesGrow
<1>1. PartiesInv'
  BY DEF PartiesInv, PartiesTypeOK, SharedContactsAreDeclared, Party, Active, SameContact, partyVars
<1> QED
  BY <1>1 DEF PartiesInv, PartiesTypeOK, PartiesGrow, partyVars

\* Leaving customers and leads alone keeps both invariants.
LEMMA CaptureStays ==
    ASSUME PartiesInv, CaptureInv, UNCHANGED <<partyVars, leadVars>>
    PROVE  PartiesInv' /\ CaptureInv'
<1>1. PartiesInv' /\ PartiesGrow
  BY CustomersStay
<1>2. LeadsMove /\ CapturesShrink
  BY LeadsStay, CapturesStay DEF leadVars
<1> QED
  BY <1>1, <1>2, MovesKeepCaptures DEF leadVars

\* Leads are added; the rest of the work stands.
LEMMA WorkStays ==
    ASSUME WorkTyped, Len(leads) \in Nat, Len(leads') \in Nat, Len(leads) <= Len(leads'),
           UNCHANGED <<sources, queues, sla, activities, logging, appointments, attribution>>
    PROVE  WorkTyped'
<1>1. Lead \subseteq Lead' /\ Len(activities) \in Nat
  BY DEF WorkTyped, Lead
<1>2. \A g \in Logger : LoggingHolds(logging[g], Lead', Len(activities))
  BY <1>1, LoggingGrows DEF WorkTyped
<1> QED
  BY <1>2 DEF WorkTyped, CreditIsWhole

\* Leaving the campaigns alone keeps their invariant.
LEMMA SendsStay == ASSUME SendInv, UNCHANGED campaignVars PROVE SendInv'
BY PermissionsKeepSends DEF campaignVars, SendInv, SendTyped

\* A response makes a capture of its own, or silences an address.
LEMMA ResponseStep ==
    ASSUME CrmInv, NEW v \in Version, NEW p \in Party, NEW type \in ResponseType,
           recordCampaignResponse(v, p, type)
    PROVE  CrmInv'
<1>0. /\ UNCHANGED partyVars
      /\ UNCHANGED <<sources, queues, sla, capture, activities, logging, appointments, attribution,
                     minute, steady, consent, versions, sends, dispatch, provider, crashes>>
  BY DEF recordCampaignResponse
<1>1. PartiesInv' /\ PartiesGrow /\ CapturesShrink /\ Party' = Party
  BY <1>0, CustomersStay, CapturesStay DEF CrmInv, Party, partyVars
<1>2. v \in 1..MaxVersion /\ p \in PartyId
  BY CampaignAssumption, ContactAssumption
     DEF CrmInv, SendInv, SendTyped, Version, PartiesInv, PartiesTypeOK, Party, PartyId
<1>3. suppressed' \subseteq Email
  <2>1. sends[v][p].contact \in Email \cup {NoContact}
    BY <1>2, SendRows DEF CrmInv, SendView
  <2>2. suppressed' = suppressed \/ ResponseSilence(v, p)
    BY DEF recordCampaignResponse, ResponseRefused
  <2> QED
    BY <2>1, <2>2 DEF ResponseSilence, CrmInv, SendInv, SendTyped
<1>4. SendInv'
  BY <1>0, <1>3, PermissionsKeepSends DEF CrmInv, SendInv, SendTyped
<1>5. CaptureInv' /\ Len(leads) <= Len(leads')
  <2>0. Len(leads) \in Nat
    BY DEF CrmInv, CaptureInv, CaptureTyped
  <2>1. CASE UNCHANGED <<leads, touches, intakes>>
    BY <1>1, <2>0, <2>1, LeadsStay, MovesKeepCaptures DEF CrmInv
  <2>2. ASSUME type \in {"reply", "click"}, ResponseCapture(v, p, type)
        PROVE  CaptureInv' /\ Len(leads) <= Len(leads')
    <3> DEFINE key == <<type, v, p>>
               in == [key |-> key, source |-> CampaignSource, partyId |-> p,
                      party |-> [email |-> NoContact, phone |-> NoContact], interest |-> "general"]
               open == OpenLeads(p, "general")
    <3>1. /\ ~InterestLocked(p, "general")
          /\ open = {} => CreateLead(p, in)
          /\ open # {} => MergeIntoLead(CHOOSE l \in open : TRUE, in)
      BY <2>2 DEF ResponseCapture
    <3>2. key \in IntakeKey /\ CampaignSource \in Source /\ "general" \in Interest
      <4>1. key \in ResponseType \X (1..MaxVersion) \X PartyId
        BY <1>2
      <4> HIDE DEF key
      <4> QED
        BY <4>1, CampaignAssumption
    <3> HIDE DEF key
    <3>3. in \in LeadCaptureInput /\ in.interest = "general"
      <4>1. p \in 0..MaxParty
        BY <1>2, ContactAssumption DEF PartyId
      <4> QED
        BY <3>2, <4>1 DEF LeadCaptureInput, PartyDetails
    <3> HIDE DEF in
    <3>4. CASE open = {}
      <4>1. \A l \in Lead : leads[l].party = p /\ leads[l].interest = in.interest => Terminal(l)
        BY <3>3, <3>4 DEF OpenLeads
      <4>2. \A c \in Capturer : capture'[c].phase = "decided" =>
                ~(capture'[c].party = p /\ capture'[c].in.interest = in.interest)
        BY <1>0, <3>1, <3>3 DEF InterestLocked
      <4>3. CreateLead(p, in) /\ sla \in SlaPolicy \cup {NoSla} /\ p \in Party'
        BY <1>1, <3>1, <3>4 DEF CrmInv, WorkTyped
      <4>4. CaptureInv' /\ Len(leads') = Len(leads) + 1
        BY <1>1, <3>3, <4>1, <4>2, <4>3, CreateKeepsCaptures DEF CrmInv
      <4> QED
        BY <2>0, <4>4
    <3>5. CASE open # {}
      <4>1. PICK l \in open : MergeIntoLead(l, in)
        BY <3>1, <3>5
      <4>2. l \in Lead
        BY <4>1 DEF OpenLeads
      <4>3. UNCHANGED leads
        BY <4>1 DEF MergeIntoLead
      <4> QED
        BY <1>0, <1>1, <2>0, <3>3, <4>1, <4>2, <4>3, MergeKeepsCaptures DEF CrmInv, partyVars
    <3> QED
      BY <3>4, <3>5
  <2>3. ASSUME ResponseRefused(v, p, type), type \in ResponseType PROVE CaptureInv' /\ Len(leads) <= Len(leads')
    <3> DEFINE key == <<type, v, p>>
    <3>1. key \in IntakeKey
      <4>1. key \in ResponseType \X (1..MaxVersion) \X PartyId
        BY <1>2
      <4> HIDE DEF key
      <4> QED
        BY <4>1, CampaignAssumption
    <3>2. recordIntake(key, "rejected", 0) /\ UNCHANGED <<leads, touches>> /\ UNCHANGED parties
      BY <1>0, <2>3 DEF ResponseRefused, partyVars
    <3> HIDE DEF key
    <3> QED
      BY <1>1, <2>0, <3>1, <3>2, RefusalKeepsCaptures DEF CrmInv
  <2> QED
    BY <2>1, <2>2, <2>3 DEF recordCampaignResponse
<1>6. WorkTyped'
  <2>1. Len(leads) \in Nat /\ Len(leads') \in Nat
    BY <1>5 DEF CrmInv, CaptureInv, CaptureTyped
  <2> QED
    BY <1>0, <1>5, <2>1, WorkStays DEF CrmInv
<1> QED
  BY <1>1, <1>4, <1>5, <1>6 DEF CrmInv

\* The clock moves on: leads and messages keep everything but their ticks.
LEMMA TickStep ==
    ASSUME CrmInv, Tick
    PROVE  CrmInv'
<1>0. /\ UNCHANGED partyVars /\ WallClock /\ leads' = LeadsTick /\ sends' = SendsTick
      /\ UNCHANGED <<sources, queues, sla, touches, intakes, capture, activities, logging, appointments,
                     attribution, consent, suppressed, versions, dispatch, provider, crashes>>
  BY DEF Tick
<1>1. PartiesInv' /\ PartiesGrow /\ CapturesShrink
  BY <1>0, CustomersStay, CapturesStay DEF CrmInv
<1>2. LeadsMove
  <2> DEFINE row(l) == [leads[l] EXCEPT !.dueIn = Elapsed(@), !.escalateIn = Elapsed(@)]
             rows == [l \in Lead |-> row(l)]
  <2>1. ASSUME NEW l \in Lead
        PROVE  row(l) \in LeadView /\ row(l).party = leads[l].party /\ row(l).interest = leads[l].interest
               /\ row(l).state = leads[l].state
    <3> DEFINE due == Elapsed(leads[l].dueIn)
               esc == Elapsed(leads[l].escalateIn)
    <3>1. leads[l] \in LeadView
      BY DEF CrmInv, CaptureInv, CaptureTyped, Lead
    <3>2. due \in Nat \cup {Never} /\ esc \in Nat \cup {Never}
      BY <3>1 DEF LeadView, Elapsed, Never
    <3>3. row(l) = [leads[l] EXCEPT !.dueIn = due, !.escalateIn = esc]
      OBVIOUS
    <3> HIDE DEF due, esc, row
    <3> QED
      BY <3>1, <3>2, <3>3 DEF LeadView
  <2>2. leads' = rows
    BY <1>0 DEF LeadsTick
  <2> HIDE DEF row
  <2>3. rows \in [Lead -> LeadView] /\ \A l \in Lead : rows[l] = row(l)
    BY <2>1
  <2> HIDE DEF rows
  <2> QED
    BY <2>1, <2>2, <2>3, LeadsMapped DEF CrmInv
<1>3. CaptureInv'
  BY <1>0, <1>1, <1>2, MovesKeepCaptures DEF CrmInv
<1>4. WorkTyped'
  <2>1. Len(leads) \in Nat /\ Len(leads') = Len(leads)
    BY <1>2 DEF CrmInv, CaptureInv, CaptureTyped, LeadsMove
  <2> QED
    BY <1>0, <2>1, WorkStays DEF CrmInv
<1>5. ASSUME NEW v \in 1..MaxVersion, NEW p \in PartyId
      PROVE  /\ sends'[v][p] \in SendView /\ sends'[v][p].state = sends[v][p].state
             /\ sends'[v][p].attempts = sends[v][p].attempts
             /\ sends'[v][p].availableIn = Elapsed(sends[v][p].availableIn)
  <2> DEFINE av == Elapsed(sends[v][p].availableIn)
  <2>1. sends[v][p] \in SendView /\ sends[v][p].availableIn \in Nat
    BY SendRows DEF CrmInv
  <2>2. av \in Nat
    BY <2>1 DEF Elapsed
  <2>3. sends'[v][p] = [sends[v][p] EXCEPT !.availableIn = av]
    BY <1>0 DEF SendsTick
  <2> HIDE DEF av
  <2>4. sends'[v][p] \in SendView /\ sends'[v][p].state = sends[v][p].state
        /\ sends'[v][p].attempts = sends[v][p].attempts /\ sends'[v][p].availableIn = av
    BY <2>1, <2>2, <2>3 DEF SendView
  <2> QED
    BY <2>4 DEF av
<1>6. sends' \in [1..MaxVersion -> [PartyId -> SendView]]
  <2>1. sends' = [v \in 1..MaxVersion |-> [p \in PartyId |-> sends'[v][p]]]
    BY <1>0 DEF SendsTick
  <2> QED
    BY <1>5, <2>1
<1>7. /\ minute \in 0..(Day - 1) /\ steady \in 0..Day /\ minute' \in 0..(Day - 1) /\ steady' \in 0..Day
  BY <1>0, ClockMoves DEF CrmInv, SendInv, SendTyped
<1>8. SendTyped'
  BY <1>0, <1>6, <1>7 DEF CrmInv, SendInv, SendTyped
<1>9. Version' = Version /\ FreshUntilExecuted' /\ ClaimsApart'
  BY <1>0 DEF CrmInv, SendInv, FreshUntilExecuted, ClaimsApart, Version
<1>10. ClaimsHold'
  <2> SUFFICES ASSUME NEW d \in Dispatcher, dispatch[d] # Idle
               PROVE  /\ dispatch[d].send[1] \in Version /\ versions[dispatch[d].send[1]].state \notin Unexecuted
                      /\ sends'[dispatch[d].send[1]][dispatch[d].send[2]].state \in {"pending", "deferred_quiet_hours"}
    BY <1>0, <1>9 DEF ClaimsHold, Waiting
  <2>1. dispatch[d].send[1] \in 1..MaxVersion /\ dispatch[d].send[2] \in PartyId
    BY DispatchRows DEF CrmInv, SendInv, SendTyped
  <2> QED
    BY <1>5, <2>1 DEF CrmInv, SendInv, ClaimsHold, Waiting
<1>11. RetriesCounted'
  <2> SUFFICES ASSUME NEW v \in 1..MaxVersion, NEW p \in PartyId
               PROVE  /\ provider[v][p].count <= sends'[v][p].attempts + crashes
                      /\ sends'[v][p].state \in {"pending", "deferred_quiet_hours"} => sends'[v][p].attempts < MAX_ATTEMPTS
    BY <1>0 DEF RetriesCounted, Waiting
  <2> QED
    BY <1>5 DEF CrmInv, SendInv, RetriesCounted, Waiting
<1>12. WakesAtTheEnd'
  <2> SUFFICES ASSUME NEW v \in 1..MaxVersion, NEW p \in PartyId,
                      sends'[v][p].state = "deferred_quiet_hours", sends'[v][p].availableIn > 0
               PROVE  WakesRight(minute', steady', sends'[v][p].availableIn)
    BY DEF WakesAtTheEnd
  <2> DEFINE av == sends[v][p].availableIn
             aw == sends'[v][p].availableIn
  <2>1. av \in Nat /\ aw = IF av > 0 THEN av - 1 ELSE av
    BY <1>5, SendRows DEF CrmInv, Elapsed
  <2>2. av > 1 /\ aw = av - 1
    BY <2>1
  <2>3. WakesRight(minute, steady, av)
    <3>1. av > 0
      BY <2>1, <2>2
    <3> QED
      BY <1>5, <3>1 DEF CrmInv, SendInv, WakesAtTheEnd
  <2> HIDE DEF av, aw
  <2>4. WakesRight(minute', steady', av - 1)
    BY <1>0, <1>7, <2>1, <2>2, <2>3, MinutesPass
  <2> QED
    BY <2>2, <2>4 DEF aw
<1>13. SendInv'
  BY <1>8, <1>9, <1>10, <1>11, <1>12 DEF SendInv
<1> QED
  BY <1>1, <1>3, <1>4, <1>13 DEF CrmInv

\* The campaign's own operations.
LEMMA CampaignStep ==
    ASSUME CrmInv, CampaignsNext
    PROVE  CrmInv'
<1>0. PartiesInv /\ CaptureInv /\ WorkTyped /\ SendInv
  BY DEF CrmInv
<1>q. Party \subseteq PartyId
  BY <1>0, ContactAssumption DEF PartiesInv, PartiesTypeOK, Party, PartyId
<1>f. ASSUME UNCHANGED <<partyVars, leadVars>>, SendInv' PROVE CrmInv'
  <2>1. PartiesInv' /\ CaptureInv'
    BY <1>0, <1>f, CaptureStays
  <2>2. Len(leads) \in Nat /\ Len(leads') \in Nat /\ Len(leads) <= Len(leads')
    BY <1>0, <1>f DEF leadVars, CaptureInv, CaptureTyped
  <2>3. WorkTyped'
    BY <1>0, <1>f, <2>2, WorkStays DEF leadVars
  <2> QED
    BY <1>f, <2>1, <2>3 DEF CrmInv
<1>1. ASSUME NEW p \in Party, NEW s \in ConsentState, setPurposeConsent(p, s) PROVE CrmInv'
  <2>1. consent' \in [PartyId -> ConsentState] /\ suppressed' \subseteq Email
    BY <1>0, <1>1 DEF setPurposeConsent, SendInv, SendTyped
  <2> QED
    BY <1>0, <1>1, <1>f, <2>1, PermissionsKeepSends DEF setPurposeConsent
<1>2. ASSUME NEW a \in Email, suppressContact(a) PROVE CrmInv'
  <2>1. consent' \in [PartyId -> ConsentState] /\ suppressed' \subseteq Email
    BY <1>0, <1>2 DEF suppressContact, SendInv, SendTyped
  <2> QED
    BY <1>0, <1>2, <1>f, <2>1, PermissionsKeepSends DEF suppressContact
<1>3. ASSUME createCampaign \/ drainMarketingOutbox PROVE CrmInv'
  <2>1. /\ UNCHANGED <<partyVars, leadVars>>
        /\ UNCHANGED <<minute, steady, consent, suppressed, versions, sends, dispatch, provider, crashes>>
    BY <1>3 DEF createCampaign, drainMarketingOutbox
  <2>2. consent' \in [PartyId -> ConsentState] /\ suppressed' \subseteq Email
    BY <1>0, <2>1 DEF SendInv, SendTyped
  <2> QED
    BY <1>0, <1>f, <2>1, <2>2, PermissionsKeepSends
<1>4. ASSUME NEW optOut \in BOOLEAN, draftCampaignVersion(optOut) PROVE CrmInv'
  BY <1>0, <1>4, <1>f, DraftStep DEF draftCampaignVersion
<1>5. ASSUME NEW v \in Version,
             \/ \E r \in AudienceRule, chosen \in SUBSET Party : buildAudience(v, r, chosen)
             \/ approveCampaignVersion(v)
      PROVE  CrmInv'
  <2>1. SendInv'
    BY <1>0, <1>5, PreparationStep
  <2>2. UNCHANGED <<partyVars, leadVars>>
    BY <1>5 DEF buildAudience, approveCampaignVersion
  <2> QED
    BY <1>f, <2>1, <2>2
<1>6. ASSUME NEW v \in Version, executeCampaignVersion(v) PROVE CrmInv'
  BY <1>0, <1>6, <1>f, ExecutionStep DEF executeCampaignVersion
<1>7. ASSUME NEW v \in Version, NEW p \in Party, NEW s \in {"sent", "failed"}, reconcileSend(v, p, s) PROVE CrmInv'
  BY <1>0, <1>7, <1>f, <1>q, ReconcileStep DEF reconcileSend
<1>8. ASSUME NEW v \in Version, NEW p \in Party, NEW t \in ResponseType, recordCampaignResponse(v, p, t) PROVE CrmInv'
  BY <1>8, ResponseStep
<1>9. ASSUME NEW d \in Dispatcher, dispatchClaim(d) PROVE CrmInv'
  BY <1>0, <1>9, <1>f, ClaimStep DEF dispatchClaim
<1>10. ASSUME NEW d \in Dispatcher, dispatchCrashed(d) PROVE CrmInv'
  BY <1>0, <1>10, <1>f, CrashStep DEF dispatchCrashed
<1>11. ASSUME NEW d \in Dispatcher, NEW answer \in ProviderOutcome, dispatchAnswered(d, answer) PROVE CrmInv'
  BY <1>0, <1>11, <1>f, AnswerStep DEF dispatchAnswered
<1>12. ASSUME completeFinishedVersions PROVE CrmInv'
  BY <1>0, <1>12, <1>f, CompletionStep DEF completeFinishedVersions
<1> QED
  BY <1>1, <1>2, <1>3, <1>4, <1>5, <1>6, <1>7, <1>8, <1>9, <1>10, <1>11, <1>12 DEF CampaignsNext

\* Every step of the CRM keeps the inductive invariant.
LEMMA CrmSteps ==
    ASSUME CrmInv, [CrmStep]_crmVars
    PROVE  CrmInv'
<1>0. PartiesInv /\ CaptureInv /\ WorkTyped /\ SendInv /\ Len(leads) \in Nat
  BY DEF CrmInv, CaptureInv, CaptureTyped
<1>1. CASE PartiesNext /\ UNCHANGED <<leadVars, campaignVars>>
  <2>1. PartiesInv' /\ PartiesGrow
    BY <1>0, <1>1, PartiesStep
  <2>2. LeadsMove /\ CapturesShrink
    BY <1>0, <1>1, LeadsStay, CapturesStay DEF leadVars
  <2>3. CaptureInv'
    BY <1>0, <1>1, <2>1, <2>2, MovesKeepCaptures DEF leadVars
  <2>4. WorkTyped'
    BY <1>0, <1>1, WorkStays DEF leadVars
  <2> QED
    BY <1>0, <1>1, <2>1, <2>3, <2>4, SendsStay DEF CrmInv
<1>2. CASE CaptureNext /\ UNCHANGED campaignVars
  <2>1. CaptureInv' /\ PartiesInv' /\ Len(leads) <= Len(leads') /\ UNCHANGED OutsideCaptures
    BY <1>0, <1>2, CaptureStep DEF WorkTyped
  <2>2. Len(leads') \in Nat
    BY <2>1 DEF CaptureInv, CaptureTyped
  <2>3. WorkTyped'
    BY <1>0, <2>1, <2>2, WorkStays DEF OutsideCaptures
  <2> QED
    BY <1>0, <1>2, <2>1, <2>3, SendsStay DEF CrmInv
<1>3. CASE WorkNext /\ UNCHANGED <<partyVars, campaignVars>>
  <2>1. LeadsMove /\ WorkTyped' /\ UNCHANGED <<touches, intakes, capture>>
    BY <1>0, <1>3, WorkStep
  <2>2. PartiesInv' /\ PartiesGrow /\ CapturesShrink
    BY <1>0, <1>3, <2>1, CustomersStay, CapturesStay
  <2>3. CaptureInv'
    BY <1>0, <2>1, <2>2, MovesKeepCaptures
  <2> QED
    BY <1>0, <1>3, <2>1, <2>2, <2>3, SendsStay DEF CrmInv
<1>4. CASE CampaignsNext
  BY <1>4, CampaignStep
<1>5. CASE Tick
  BY <1>5, TickStep
<1>6. CASE UNCHANGED crmVars
  <2>1. UNCHANGED <<partyVars, leadVars>> /\ UNCHANGED campaignVars
    BY <1>6 DEF crmVars
  <2>2. PartiesInv' /\ CaptureInv'
    BY <1>0, <2>1, CaptureStays
  <2>3. WorkTyped'
    BY <1>0, <2>1, WorkStays DEF leadVars
  <2> QED
    BY <1>0, <2>1, <2>2, <2>3, SendsStay DEF CrmInv
<1> QED
  BY <1>1, <1>2, <1>3, <1>4, <1>5, <1>6 DEF CrmStep

\* There is no customer at first.
LEMMA CustomersBegin == PartiesInit => PartiesInv
<1> SUFFICES ASSUME PartiesInit PROVE PartiesInv
  OBVIOUS
<1>1. PartiesTypeOK
  BY ContactAssumption DEF PartiesInit, PartiesTypeOK
<1>2. Party = {}
  BY DEF PartiesInit, Party
<1> QED
  BY <1>1, <1>2 DEF PartiesInv, SharedContactsAreDeclared

\* The CRM begins empty, in its invariant.
LEMMA CrmBegins == CrmInit => CrmInv
<1> SUFFICES ASSUME CrmInit PROVE CrmInv
  OBVIOUS
<1>0. PartiesInit /\ LeadsInit /\ CampaignsInit
  BY DEF CrmInit
<1>c. MaxParty \in Nat /\ MaxLead \in Nat /\ MaxVersion \in Nat /\ 0 \in 0..MaxParty /\ 0 \in 0..MaxLead
  BY ContactAssumption, LeadAssumption, CampaignAssumption
<1>1. PartiesInv
  BY <1>0, CustomersBegin
<1>2. Lead = {} /\ Len(leads) = 0 /\ Version = {} /\ Len(versions) = 0
  BY <1>0 DEF LeadsInit, Lead, CampaignsInit, Version
<1>3. NoIntake \in IntakeRow /\ NoIntake.lead = 0
  BY <1>c DEF NoIntake, IntakeRow, IntakeOutcome
<1>4. \A c \in Capturer : capture[c] = Idle
  BY <1>0 DEF LeadsInit
<1>5. CaptureInv
  <2>1. CaptureTyped
    <3>1. leads \in Seq(LeadView) /\ touches \in Seq(Seq(Source)) /\ Len(touches) = 0 /\ parties \in Seq(PartyView) /\ Len(parties) = 0
      BY <1>0 DEF LeadsInit, PartiesInit
    <3>2. intakes \in [IntakeKey -> IntakeRow] /\ capture \in [Capturer -> CaptureRow]
      BY <1>0, <1>3, IdleRow DEF LeadsInit
    <3> QED
      BY <1>2, <1>c, <3>1, <3>2 DEF CaptureTyped
  <2>2. DecisionsStand /\ DecisionsApart
    BY <1>4, IdleRow DEF DecisionsStand, DecisionsApart, Deciding
  <2>3. IntakesCounted /\ OneOpenLead
    <3>1. \A k \in IntakeKey : intakes[k].lead = 0
      BY <1>0, <1>3 DEF LeadsInit
    <3> QED
      BY <1>2, <3>1 DEF IntakesCounted, OneOpenLead
  <2> QED
    BY <2>1, <2>2, <2>3 DEF CaptureInv
<1>6. WorkTyped
  <2>1. \A m \in AttributionModel : DOMAIN attribution[m] = {}
    BY <1>0 DEF LeadsInit
  <2>2. CreditIsWhole
    BY <2>1 DEF CreditIsWhole
  <2>3. logging \in [Logger -> LoggingRow] /\ \A g \in Logger : LoggingHolds(logging[g], Lead, Len(activities))
    BY <1>0, LoggingIdle DEF LeadsInit
  <2> QED
    BY <1>0, <2>2, <2>3 DEF LeadsInit, WorkTyped
<1>7. SendInv
  <2> DEFINE none == [count |-> 0, contact |-> NoContact]
  <2>1. none \in ProviderRow /\ none.count = 0
    BY DEF ProviderRow
  <2>2. NoSend \in SendView /\ NoSend.state = "none" /\ NoSend.attempts = 0
    <3>1. 0 \in 0..MAX_ATTEMPTS
      BY CampaignAssumption
    <3> QED
      BY <3>1 DEF NoSend, SendView, SendState
  <2>3. \A v \in 1..MaxVersion, p \in PartyId : sends[v][p] = NoSend /\ provider[v][p] = none
    BY <1>0 DEF CampaignsInit
  <2> HIDE DEF none
  <2>4. sends \in [1..MaxVersion -> [PartyId -> SendView]] /\ provider \in [1..MaxVersion -> [PartyId -> ProviderRow]]
    BY <1>0, <2>1, <2>2 DEF CampaignsInit, none
  <2>5. dispatch \in [Dispatcher -> DispatchRow] /\ \A d \in Dispatcher : dispatch[d] = Idle
    BY <1>0 DEF CampaignsInit, DispatchRow
  <2>6. /\ minute \in 0..(Day - 1) /\ steady \in 0..Day /\ suppressed \subseteq Email /\ consent \in [PartyId -> ConsentState]
        /\ versions \in Seq(CampaignVersionView) /\ Len(versions) <= MaxVersion /\ crashes = 0
    BY <1>0, <1>c, CampaignAssumption DEF CampaignsInit, ConsentState
  <2>7. SendTyped
    BY <2>4, <2>5, <2>6 DEF SendTyped
  <2>8. FreshUntilExecuted /\ ClaimsHold /\ ClaimsApart /\ RetriesCounted /\ WakesAtTheEnd
    BY <2>1, <2>2, <2>3, <2>5, <2>6
       DEF FreshUntilExecuted, ClaimsHold, ClaimsApart, RetriesCounted, WakesAtTheEnd, Waiting
  <2> QED
    BY <2>7, <2>8 DEF SendInv
<1> QED
  BY <1>1, <1>5, <1>6, <1>7 DEF CrmInv

\* The invariant of the whole CRM holds for every number of customers, leads, versions,
\* concurrent captures, loggers and dispatchers.
THEOREM CrmIsConsistent == CrmSpec => []CrmInv
<1>1. CrmInv /\ [CrmNext]_<<crmVars, standing>> => CrmInv'
  <2>1. [CrmNext]_<<crmVars, standing>> => [CrmStep]_crmVars
    BY DEF CrmNext
  <2> QED
    BY <2>1, CrmSteps
<1> QED
  BY CrmBegins, <1>1, PTL DEF CrmSpec

\* The tenant has its place, whatever happens to it or to others.
LEMMA StandingStays == CrmSpec => [](standing \in Standing)
<1>1. TenantsInit => standing \in Standing
  BY DEF TenantsInit
<1>2. standing \in Standing /\ [CrmNext]_<<crmVars, standing>> => (standing \in Standing)'
  BY DEF CrmNext, TenantsMove
<1> QED
  BY <1>1, <1>2, PTL DEF CrmSpec

\* Shared contacts are declared, an interest is one open lead, every intake is one touch
\* and every credited lead is credited whole, whatever captures, redeliveries, closes and
\* merges interleave (parties.ts, captureLeadWithin, computeAttribution).
THEOREM CustomersAndLeadsAgreeAlways == CrmSpec => []CustomersAndLeadsAgree
<1>1. CrmInv /\ standing \in Standing => CustomersAndLeadsAgree
  <2> SUFFICES ASSUME CrmInv, standing \in Standing PROVE CustomersAndLeadsAgree
    OBVIOUS
  <2>1. DOMAIN intakes = IntakeKey
    BY DEF CrmInv, CaptureInv, CaptureTyped
  <2>2. TouchPerIntake
    BY <2>1 DEF CrmInv, CaptureInv, IntakesCounted, RecordedFor, TouchPerIntake
  <2>3. LeadsTypeOK
    BY DEF CrmInv, CaptureInv, CaptureTyped, WorkTyped, LeadsTypeOK, Lead
  <2>4. CrmTypeOK
    BY <2>3 DEF CrmInv, PartiesInv, SendInv, SendTyped, CrmTypeOK
  <2> QED
    BY <2>2, <2>4 DEF CrmInv, PartiesInv, CaptureInv, WorkTyped, CustomersAndLeadsAgree
<1> QED
  BY <1>1, CrmIsConsistent, StandingStays, PTL

\* However many dispatchers run and die, a message is handed to the provider no more often
\* than its row and the deaths account for, is given up after MAX_ATTEMPTS, and is deferred
\* to the end of the quiet hours, an hour off only where the zone's clock was changed
\* meanwhile (dispatchDueSends, quietHoursEndAfter).
THEOREM SendsAreMeasuredAlways == CrmSpec => []SendsAreMeasured
<1>1. CrmInv => SendsAreMeasured
  <2> SUFFICES ASSUME CrmInv PROVE SendsAreMeasured
    OBVIOUS
  <2>1. Version \subseteq 1..MaxVersion
    BY CampaignAssumption DEF CrmInv, SendInv, SendTyped, Version
  <2>2. RetriesAreBounded
    BY <2>1 DEF CrmInv, SendInv, RetriesCounted, RetriesAreBounded
  <2>3. DeferredToTheMorning
    <3> SUFFICES ASSUME NEW v \in Version, NEW p \in PartyId,
                        sends[v][p].state = "deferred_quiet_hours", sends[v][p].availableIn > 0
                 PROVE  LET u == sends[v][p].availableIn IN
                        \/ (minute + u) % Day = QuietHours.end
                        \/ /\ u <= steady
                           /\ (minute + u) % Day \in {(QuietHours.end + ClockChange) % Day,
                                                      (QuietHours.end + Day - ClockChange) % Day}
      BY DEF DeferredToTheMorning
    <3> DEFINE u == sends[v][p].availableIn
    <3>1. WakesRight(minute, steady, u)
      BY <2>1 DEF CrmInv, SendInv, WakesAtTheEnd
    <3>2. u \in Nat /\ minute \in 0..(Day - 1) /\ steady \in 0..Day
      BY <2>1, SendRows DEF CrmInv, SendInv, SendTyped
    <3> HIDE DEF u
    <3>3. \/ (minute + u) % Day = QuietHours.end
          \/ /\ u <= steady
             /\ (minute + u) % Day \in {(QuietHours.end + ClockChange) % Day,
                                        (QuietHours.end + Day - ClockChange) % Day}
      BY <3>1, <3>2, WakingMinute
    <3> QED
      BY <3>3 DEF u
  <2> QED
    BY <2>2, <2>3 DEF SendsAreMeasured
<1> QED
  BY <1>1, CrmIsConsistent, PTL

================================================================================
