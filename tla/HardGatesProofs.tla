--------------------------- MODULE HardGatesProofs ---------------------------
(***************************************************************************)
(* Proofs about HardGates, for every family of ledgers that the runner may *)
(* meet: no defect of the proposal escapes a gate that binds, and every    *)
(* disposition of a run has its ground in the ledger.                      *)
(*                                                                         *)
(* Each gate is a list of checks made in order, of which the first that    *)
(* fails gives the verdict.  One lemma per gate shows its verdict Right: a *)
(* pass means that the evidence is usable and shows no defect, an issue is *)
(* a defect, and a fault is evidence that cannot be used.  The invariant   *)
(* ties every recorded result to the verdict of its own gate, and a waived *)
(* gate to the waiver that says so.                                        *)
(***************************************************************************)
EXTENDS HardGates, SequenceTheorems, WellFoundedInduction, TLAPS

\* A set of numbers that is not empty has a least one.
LEMMA HasMin ==
  ASSUME NEW T, T \subseteq Nat, T # {}
  PROVE  Min(T) \in T /\ \A y \in T : Min(T) <= y
<1>1. PICK x \in T : \A y \in T : ~(<<y, x>> \in OpToRel(<, Nat))
  BY NatLessThanWellFounded, WFMin
<1>2. OpToRel(<, Nat) = {ss \in Nat \X Nat : ss[1] < ss[2]}
  BY DEF OpToRel
<1>3. ASSUME NEW y \in T, y < x PROVE FALSE
  <2>1. <<y, x>> \in OpToRel(<, Nat)
    BY <1>2, <1>3
  <2> QED BY <1>1, <2>1
<1>4. \A y \in T : x <= y
  BY <1>3
<1> QED BY <1>4 DEF Min

-----------------------------------------------------------------------------
(* Checks made in order *)

\* The verdict of a list of checks is that of the first one not passed.
LEMMA FirstOfIs ==
  ASSUME NEW checks, NEW n \in Nat, DOMAIN checks = 1..n
  PROVE  /\ FirstOf(checks) = Ok <=> \A i \in 1..n : checks[i] = Ok
         /\ FirstOf(checks) # Ok =>
              \E i \in 1..n : /\ checks[i] = FirstOf(checks)
                              /\ \A j \in 1..n : j < i => checks[j] = Ok
<1> DEFINE failing == {i \in DOMAIN checks : checks[i] # Ok}
<1>1. FirstOf(checks) = IF failing = {} THEN Ok ELSE checks[Min(failing)]
  BY DEF FirstOf
<1>2. CASE failing = {}
  BY <1>1, <1>2
<1>3. CASE failing # {}
  <2>1. Min(failing) \in failing /\ \A y \in failing : Min(failing) <= y
    BY <1>3, HasMin
  <2>2. Min(failing) \in 1..n
    BY <2>1
  <2> DEFINE m == Min(failing)
  <2>3. checks[m] # Ok
    BY <2>1
  <2>4. \A j \in 1..n : checks[j] # Ok => m <= j
    BY <2>1
  <2>5. \A j \in 1..n : j < m => checks[j] = Ok
    <3> HIDE DEF m
    <3> QED BY <2>2, <2>4 DEF m
  <2>6. FirstOf(checks) = checks[m] /\ m \in 1..n
    BY <1>1, <1>3, <2>2
  <2> HIDE DEF m
  <2> QED BY <2>3, <2>5, <2>6
<1> QED BY <1>2, <1>3

\* A verdict other than a pass has its ground: an issue a defect, a fault
\* evidence that is not usable.
Sound(v, usable, defect) ==
  /\ v \in {Ok, Issue, Missing, Invalid, Raises}
  /\ v = Issue => defect
  /\ v \in {Missing, Invalid, Raises} => ~usable

\* Checks that each have a ground give a verdict that has one.
LEMMA FirstIsSound ==
  ASSUME NEW checks, NEW n \in Nat, DOMAIN checks = 1..n, NEW u, NEW d,
         \A i \in 1..n : Sound(checks[i], u, d)
  PROVE  Sound(FirstOf(checks), u, d)
<1>1. Sound(Ok, u, d)
  BY DEF Sound, Ok, Issue, Missing, Invalid, Raises
<1> QED BY <1>1, FirstOfIs

\* What a list of two checks means; the next ones, of up to seven.
LEMMA First2 ==
  ASSUME NEW a1, NEW b1, NEW u, NEW d
  PROVE  /\ FirstOf(<<a1, b1>>) = Ok <=> a1 = Ok /\ b1 = Ok
         /\ Sound(a1, u, d) /\ Sound(b1, u, d) => Sound(FirstOf(<<a1, b1>>), u, d)
<1> DEFINE s == <<a1, b1>>
<1>1. DOMAIN s = 1..2 /\ s[1] = a1 /\ s[2] = b1
  OBVIOUS
<1>2. 1 \in 1..2 /\ 2 \in 1..2
  OBVIOUS
<1>3. \A i \in 1..2 : i = 1 \/ i = 2
  OBVIOUS
<1> HIDE DEF s
<1>4. FirstOf(s) = Ok <=> \A i \in 1..2 : s[i] = Ok
  BY <1>1, FirstOfIs
<1>5. (\A i \in 1..2 : Sound(s[i], u, d)) => Sound(FirstOf(s), u, d)
  BY <1>1, FirstIsSound
<1>6. (\A i \in 1..2 : s[i] = Ok) <=> a1 = Ok /\ b1 = Ok
  BY <1>1, <1>2, <1>3
<1>7. (\A i \in 1..2 : Sound(s[i], u, d)) <=> Sound(a1, u, d) /\ Sound(b1, u, d)
  BY <1>1, <1>2, <1>3
<1> QED BY <1>4, <1>5, <1>6, <1>7 DEF s

\* Three checks.
LEMMA First3 ==
  ASSUME NEW a1, NEW b1, NEW c1, NEW u, NEW d
  PROVE  /\ FirstOf(<<a1, b1, c1>>) = Ok <=> a1 = Ok /\ b1 = Ok /\ c1 = Ok
         /\ Sound(a1, u, d) /\ Sound(b1, u, d) /\ Sound(c1, u, d) => Sound(FirstOf(<<a1, b1, c1>>), u, d)
<1> DEFINE s == <<a1, b1, c1>>
<1>1. DOMAIN s = 1..3 /\ s[1] = a1 /\ s[2] = b1 /\ s[3] = c1
  OBVIOUS
<1>2. 1 \in 1..3 /\ 2 \in 1..3 /\ 3 \in 1..3
  OBVIOUS
<1>3. \A i \in 1..3 : i = 1 \/ i = 2 \/ i = 3
  OBVIOUS
<1> HIDE DEF s
<1>4. FirstOf(s) = Ok <=> \A i \in 1..3 : s[i] = Ok
  BY <1>1, FirstOfIs
<1>5. (\A i \in 1..3 : Sound(s[i], u, d)) => Sound(FirstOf(s), u, d)
  BY <1>1, FirstIsSound
<1>6. (\A i \in 1..3 : s[i] = Ok) <=> a1 = Ok /\ b1 = Ok /\ c1 = Ok
  BY <1>1, <1>2, <1>3
<1>7. (\A i \in 1..3 : Sound(s[i], u, d)) <=> Sound(a1, u, d) /\ Sound(b1, u, d) /\ Sound(c1, u, d)
  BY <1>1, <1>2, <1>3
<1> QED BY <1>4, <1>5, <1>6, <1>7 DEF s

\* Four checks.
LEMMA First4 ==
  ASSUME NEW a1, NEW b1, NEW c1, NEW d1, NEW u, NEW d
  PROVE  /\ FirstOf(<<a1, b1, c1, d1>>) = Ok <=> a1 = Ok /\ b1 = Ok /\ c1 = Ok /\ d1 = Ok
         /\ Sound(a1, u, d) /\ Sound(b1, u, d) /\ Sound(c1, u, d) /\ Sound(d1, u, d) => Sound(FirstOf(<<a1, b1, c1, d1>>), u, d)
<1> DEFINE s == <<a1, b1, c1, d1>>
<1>1. DOMAIN s = 1..4 /\ s[1] = a1 /\ s[2] = b1 /\ s[3] = c1 /\ s[4] = d1
  OBVIOUS
<1>2. 1 \in 1..4 /\ 2 \in 1..4 /\ 3 \in 1..4 /\ 4 \in 1..4
  OBVIOUS
<1>3. \A i \in 1..4 : i = 1 \/ i = 2 \/ i = 3 \/ i = 4
  OBVIOUS
<1> HIDE DEF s
<1>4. FirstOf(s) = Ok <=> \A i \in 1..4 : s[i] = Ok
  BY <1>1, FirstOfIs
<1>5. (\A i \in 1..4 : Sound(s[i], u, d)) => Sound(FirstOf(s), u, d)
  BY <1>1, FirstIsSound
<1>6. (\A i \in 1..4 : s[i] = Ok) <=> a1 = Ok /\ b1 = Ok /\ c1 = Ok /\ d1 = Ok
  BY <1>1, <1>2, <1>3
<1>7. (\A i \in 1..4 : Sound(s[i], u, d)) <=> Sound(a1, u, d) /\ Sound(b1, u, d) /\ Sound(c1, u, d) /\ Sound(d1, u, d)
  BY <1>1, <1>2, <1>3
<1> QED BY <1>4, <1>5, <1>6, <1>7 DEF s

\* Five checks.
LEMMA First5 ==
  ASSUME NEW a1, NEW b1, NEW c1, NEW d1, NEW e1, NEW u, NEW d
  PROVE  /\ FirstOf(<<a1, b1, c1, d1, e1>>) = Ok <=> a1 = Ok /\ b1 = Ok /\ c1 = Ok /\ d1 = Ok /\ e1 = Ok
         /\ Sound(a1, u, d) /\ Sound(b1, u, d) /\ Sound(c1, u, d) /\ Sound(d1, u, d) /\ Sound(e1, u, d) => Sound(FirstOf(<<a1, b1, c1, d1, e1>>), u, d)
<1> DEFINE s == <<a1, b1, c1, d1, e1>>
<1>1. DOMAIN s = 1..5 /\ s[1] = a1 /\ s[2] = b1 /\ s[3] = c1 /\ s[4] = d1 /\ s[5] = e1
  OBVIOUS
<1>2. 1 \in 1..5 /\ 2 \in 1..5 /\ 3 \in 1..5 /\ 4 \in 1..5 /\ 5 \in 1..5
  OBVIOUS
<1>3. \A i \in 1..5 : i = 1 \/ i = 2 \/ i = 3 \/ i = 4 \/ i = 5
  OBVIOUS
<1> HIDE DEF s
<1>4. FirstOf(s) = Ok <=> \A i \in 1..5 : s[i] = Ok
  BY <1>1, FirstOfIs
<1>5. (\A i \in 1..5 : Sound(s[i], u, d)) => Sound(FirstOf(s), u, d)
  BY <1>1, FirstIsSound
<1>6. (\A i \in 1..5 : s[i] = Ok) <=> a1 = Ok /\ b1 = Ok /\ c1 = Ok /\ d1 = Ok /\ e1 = Ok
  BY <1>1, <1>2, <1>3
<1>7. (\A i \in 1..5 : Sound(s[i], u, d)) <=> Sound(a1, u, d) /\ Sound(b1, u, d) /\ Sound(c1, u, d) /\ Sound(d1, u, d) /\ Sound(e1, u, d)
  BY <1>1, <1>2, <1>3
<1> QED BY <1>4, <1>5, <1>6, <1>7 DEF s

\* Six checks.
LEMMA First6 ==
  ASSUME NEW a1, NEW b1, NEW c1, NEW d1, NEW e1, NEW f1, NEW u, NEW d
  PROVE  /\ FirstOf(<<a1, b1, c1, d1, e1, f1>>) = Ok <=> a1 = Ok /\ b1 = Ok /\ c1 = Ok /\ d1 = Ok /\ e1 = Ok /\ f1 = Ok
         /\ Sound(a1, u, d) /\ Sound(b1, u, d) /\ Sound(c1, u, d) /\ Sound(d1, u, d) /\ Sound(e1, u, d) /\ Sound(f1, u, d) => Sound(FirstOf(<<a1, b1, c1, d1, e1, f1>>), u, d)
<1> DEFINE s == <<a1, b1, c1, d1, e1, f1>>
<1>1. DOMAIN s = 1..6 /\ s[1] = a1 /\ s[2] = b1 /\ s[3] = c1 /\ s[4] = d1 /\ s[5] = e1 /\ s[6] = f1
  OBVIOUS
<1>2. 1 \in 1..6 /\ 2 \in 1..6 /\ 3 \in 1..6 /\ 4 \in 1..6 /\ 5 \in 1..6 /\ 6 \in 1..6
  OBVIOUS
<1>3. \A i \in 1..6 : i = 1 \/ i = 2 \/ i = 3 \/ i = 4 \/ i = 5 \/ i = 6
  OBVIOUS
<1> HIDE DEF s
<1>4. FirstOf(s) = Ok <=> \A i \in 1..6 : s[i] = Ok
  BY <1>1, FirstOfIs
<1>5. (\A i \in 1..6 : Sound(s[i], u, d)) => Sound(FirstOf(s), u, d)
  BY <1>1, FirstIsSound
<1>6. (\A i \in 1..6 : s[i] = Ok) <=> a1 = Ok /\ b1 = Ok /\ c1 = Ok /\ d1 = Ok /\ e1 = Ok /\ f1 = Ok
  BY <1>1, <1>2, <1>3
<1>7. (\A i \in 1..6 : Sound(s[i], u, d)) <=> Sound(a1, u, d) /\ Sound(b1, u, d) /\ Sound(c1, u, d) /\ Sound(d1, u, d) /\ Sound(e1, u, d) /\ Sound(f1, u, d)
  BY <1>1, <1>2, <1>3
<1> QED BY <1>4, <1>5, <1>6, <1>7 DEF s

\* Seven checks.
LEMMA First7 ==
  ASSUME NEW a1, NEW b1, NEW c1, NEW d1, NEW e1, NEW f1, NEW g1, NEW u, NEW d
  PROVE  /\ FirstOf(<<a1, b1, c1, d1, e1, f1, g1>>) = Ok <=> a1 = Ok /\ b1 = Ok /\ c1 = Ok /\ d1 = Ok /\ e1 = Ok /\ f1 = Ok /\ g1 = Ok
         /\ Sound(a1, u, d) /\ Sound(b1, u, d) /\ Sound(c1, u, d) /\ Sound(d1, u, d) /\ Sound(e1, u, d) /\ Sound(f1, u, d) /\ Sound(g1, u, d) => Sound(FirstOf(<<a1, b1, c1, d1, e1, f1, g1>>), u, d)
<1> DEFINE s == <<a1, b1, c1, d1, e1, f1, g1>>
<1>1. DOMAIN s = 1..7 /\ s[1] = a1 /\ s[2] = b1 /\ s[3] = c1 /\ s[4] = d1 /\ s[5] = e1 /\ s[6] = f1 /\ s[7] = g1
  OBVIOUS
<1>2. 1 \in 1..7 /\ 2 \in 1..7 /\ 3 \in 1..7 /\ 4 \in 1..7 /\ 5 \in 1..7 /\ 6 \in 1..7 /\ 7 \in 1..7
  OBVIOUS
<1>3. \A i \in 1..7 : i = 1 \/ i = 2 \/ i = 3 \/ i = 4 \/ i = 5 \/ i = 6 \/ i = 7
  OBVIOUS
<1> HIDE DEF s
<1>4. FirstOf(s) = Ok <=> \A i \in 1..7 : s[i] = Ok
  BY <1>1, FirstOfIs
<1>5. (\A i \in 1..7 : Sound(s[i], u, d)) => Sound(FirstOf(s), u, d)
  BY <1>1, FirstIsSound
<1>6. (\A i \in 1..7 : s[i] = Ok) <=> a1 = Ok /\ b1 = Ok /\ c1 = Ok /\ d1 = Ok /\ e1 = Ok /\ f1 = Ok /\ g1 = Ok
  BY <1>1, <1>2, <1>3
<1>7. (\A i \in 1..7 : Sound(s[i], u, d)) <=> Sound(a1, u, d) /\ Sound(b1, u, d) /\ Sound(c1, u, d) /\ Sound(d1, u, d) /\ Sound(e1, u, d) /\ Sound(f1, u, d) /\ Sound(g1, u, d)
  BY <1>1, <1>2, <1>3
<1> QED BY <1>4, <1>5, <1>6, <1>7 DEF s

\* Checks made of every entry of a list.
LEMMA EachIs ==
  ASSUME NEW list, Listed(list), NEW F, DOMAIN F = DOMAIN Items(list), NEW u, NEW d
  PROVE  /\ FirstOf(F) = Ok <=> \A i \in DOMAIN Items(list) : F[i] = Ok
         /\ (\A i \in DOMAIN Items(list) : Sound(F[i], u, d)) => Sound(FirstOf(F), u, d)
<1>1. PICK n \in Nat : DOMAIN Items(list) = 1..n
  BY DEF Listed, Items, IsList
<1> QED BY <1>1, FirstOfIs, FirstIsSound

\* One check.
LEMMA Said ==
  ASSUME NEW bad, NEW u, NEW d
  PROVE  /\ \A v \in {Issue, Missing, Invalid, Raises} : Say(v, bad) = Ok <=> ~bad
         /\ (bad => d) => Sound(Say(Issue, bad), u, d)
         /\ (bad => ~u) => \A v \in {Missing, Invalid, Raises} : Sound(Say(v, bad), u, d)
BY DEF Say, Sound, Ok, Issue, Missing, Invalid, Raises

\* A number is what an amount may be.
LEMMA AmountIs ==
  ASSUME NEW v, Numeric(v), NEW u, NEW d
  PROVE  /\ Amount(v) = Ok <=> Number(v)
         /\ (~Number(v) => ~u) => Sound(Amount(v), u, d)
         /\ Optional(v) = Ok <=> v = Absent \/ Number(v)
         /\ (v # Absent /\ ~Number(v) => ~u) => Sound(Optional(v), u, d)
BY LedgerAssumption DEF Amount, Optional, Numeric, Number, Say, Sound, Ok, Issue, Missing, Invalid, Raises

-----------------------------------------------------------------------------
(* The gates *)

\* A verdict is right: it has its ground, and a pass says that the evidence is
\* usable and shows no defect.
Right(v, g, l) ==
  /\ Sound(v, WellFormed(g, l), Defect(g, l))
  /\ v = Ok => WellFormed(g, l) /\ ~Defect(g, l)

\* The gate of the mandatory sections passes usable evidence without a defect, and no other.
LEMMA MandatorySectionsRight ==
  ASSUME NEW l, LedgerShaped(l)
  PROVE  Right(MandatorySections(l), "MANDATORY_SECTIONS", l)
<1> DEFINE u == WellFormed("MANDATORY_SECTIONS", l)
           d == Defect("MANDATORY_SECTIONS", l)
           required == l.mandatory.required
<1>1. u <=> l.mandatory.state = "present" /\ NonEmpty(required) /\ Texts(required)
  BY DEF WellFormed
<1>2. d <=> ~(Range(Items(required)) \subseteq l.headings)
  BY DEF Defect
<1>3. l.mandatory.state \in {"present", "absent"}
  BY DEF LedgerShaped
<1> DEFINE c1 == Say(Missing, l.mandatory.state = "absent")
           c2 == Strings(required)
           c3 == Say(Invalid, Items(required) = << >>)
           c4 == Say(Issue, \E h \in Range(Items(required)) : h \notin l.headings)
<1>4. MandatorySections(l) = FirstOf(<<c1, c2, c3, c4>>)
  BY DEF MandatorySections
<1> HIDE DEF u, d
<1>5. Sound(c1, u, d) /\ Sound(c2, u, d) /\ Sound(c3, u, d) /\ Sound(c4, u, d)
  BY <1>1, <1>2, Said DEF Strings, NonEmpty, Texts, Items, IsList
<1>6. c1 = Ok /\ c2 = Ok /\ c3 = Ok /\ c4 = Ok => u /\ ~d
  BY <1>1, <1>2, <1>3, Said DEF Strings, NonEmpty, Texts, Items, IsList
<1> HIDE DEF c1, c2, c3, c4
<1>7. Sound(FirstOf(<<c1, c2, c3, c4>>), u, d) /\ (FirstOf(<<c1, c2, c3, c4>>) = Ok => u /\ ~d)
  BY <1>5, <1>6, First4
<1> QED BY <1>4, <1>7 DEF Right, u, d

\* No entry repeats an earlier one when no two are alike.
LEMMA UniqueIs ==
  ASSUME NEW list, Listed(list), NEW field
  PROVE  Unique(Items(list), field) <=> \A i \in DOMAIN Items(list) : ~Repeated(Items(list), i, field)
<1>1. PICK n \in Nat : DOMAIN Items(list) = 1..n
  BY DEF Listed, Items, IsList
<1> DEFINE s == Items(list)
<1> HIDE DEF s
<1>2. DOMAIN s = 1..n
  BY <1>1 DEF s
<1>3. ASSUME Unique(s, field), NEW i \in 1..n, Repeated(s, i, field) PROVE FALSE
  BY <1>2, <1>3 DEF Unique, Repeated
<1>4. ASSUME \A i \in 1..n : ~Repeated(s, i, field) PROVE Unique(s, field)
  <2> SUFFICES ASSUME NEW p \in 1..n, NEW q \in 1..n, s[p][field] = s[q][field], p # q PROVE FALSE
    BY <1>2 DEF Unique
  <2>1. CASE p < q
    BY <1>4, <2>1 DEF Repeated
  <2>2. CASE q < p
    BY <1>4, <2>2 DEF Repeated
  <2> QED BY <2>1, <2>2
<1> QED BY <1>2, <1>3, <1>4 DEF s

\* The gate of the challenge mapping passes usable evidence without a defect, and no other.
LEMMA ChallengeMappingRight ==
  ASSUME NEW l, LedgerShaped(l)
  PROVE  Right(ChallengeMapping(l), "CHALLENGE_MAPPING", l)
<1> DEFINE u == WellFormed("CHALLENGE_MAPPING", l)
           d == Defect("CHALLENGE_MAPPING", l)
           c == l.challenge
           ms == Items(c.mappings)
           F == [i \in DOMAIN ms |-> Say(Invalid, \/ ms[i].marker = Blank
                                                  \/ ms[i].section = Blank
                                                  \/ ms[i].evidence = Blank)]
           c1 == Say(Missing, c.state = "absent")
           c2 == Strings(c.required)
           c3 == Say(Invalid, Items(c.required) = << >>)
           c4 == Say(Invalid, ~IsList(c.mappings))
           c6 == Say(Issue, \E k \in Range(Items(c.required)) : k \notin {m.marker : m \in Range(ms)})
<1>1. u <=> /\ c.state = "present" /\ NonEmpty(c.required)
            /\ Texts(c.required) /\ IsList(c.mappings)
            /\ \A m \in Range(c.mappings) : Blank \notin {m.marker, m.section, m.evidence}
  BY DEF WellFormed
<1>2. d <=> \E k \in Range(Items(c.required)) : \A m \in Range(ms) : m.marker # k
  BY DEF Defect
<1>3. c.state \in {"present", "absent"} /\ Listed(c.mappings)
  BY DEF LedgerShaped
<1>4. ChallengeMapping(l) = FirstOf(<<c1, c2, c3, c4, FirstOf(F), c6>>)
  BY DEF ChallengeMapping, Each
<1> HIDE DEF u, d, c
<1>5. \A i \in DOMAIN ms : /\ F[i] = Ok <=> Blank \notin {ms[i].marker, ms[i].section, ms[i].evidence}
                           /\ Sound(F[i], u, d)
  <2> SUFFICES ASSUME NEW i \in DOMAIN ms
               PROVE  /\ F[i] = Ok <=> Blank \notin {ms[i].marker, ms[i].section, ms[i].evidence}
                      /\ Sound(F[i], u, d)
    OBVIOUS
  <2>1. u => Blank \notin {ms[i].marker, ms[i].section, ms[i].evidence}
    BY <1>1 DEF Range, Items
  <2> QED BY <2>1, Said
<1> HIDE DEF F
<1>6. /\ FirstOf(F) = Ok <=> \A m \in Range(ms) : Blank \notin {m.marker, m.section, m.evidence}
      /\ Sound(FirstOf(F), u, d)
  <2>1. DOMAIN F = DOMAIN ms
    BY DEF F
  <2> QED BY <1>3, <1>5, <2>1, EachIs DEF Range
<1>7. Sound(c1, u, d) /\ Sound(c2, u, d) /\ Sound(c3, u, d) /\ Sound(c4, u, d) /\ Sound(c6, u, d)
  BY <1>1, <1>2, Said DEF Strings, NonEmpty, Texts, Items, IsList
<1>8. c1 = Ok /\ c2 = Ok /\ c3 = Ok /\ c4 = Ok /\ FirstOf(F) = Ok /\ c6 = Ok => u /\ ~d
  BY <1>1, <1>2, <1>3, <1>6, Said DEF Strings, NonEmpty, Texts, Items, IsList
<1> HIDE DEF c1, c2, c3, c4, c6
<1>9. /\ Sound(FirstOf(<<c1, c2, c3, c4, FirstOf(F), c6>>), u, d)
      /\ FirstOf(<<c1, c2, c3, c4, FirstOf(F), c6>>) = Ok => u /\ ~d
  BY <1>6, <1>7, <1>8, First6
<1> QED BY <1>4, <1>9 DEF Right, u, d

\* The gate of the source of truth passes usable evidence without a defect, and no other.
LEMMA SourceOfTruthRight ==
  ASSUME NEW l, LedgerShaped(l)
  PROVE  Right(SourceOfTruth(l), "SOURCE_OF_TRUTH_INTEGRITY", l)
<1> DEFINE u == WellFormed("SOURCE_OF_TRUTH_INTEGRITY", l)
           d == Defect("SOURCE_OF_TRUTH_INTEGRITY", l)
           sources == Items(l.registry.sources)
           claims == Items(l.claims.list)
           ids == {s.id : s \in Range(sources)}
           F == [i \in DOMAIN sources |-> FirstOf(<< Say(Invalid, sources[i].id = Blank),
                                                     Say(Invalid, Repeated(sources, i, "id")) >>)]
           G == [i \in DOMAIN claims |-> FirstOf(<< Say(Invalid, claims[i].id = Blank),
                                                    Say(Invalid, Repeated(claims, i, "id")),
                                                    Say(Invalid, claims[i].source_ref = Blank),
                                                    Say(Missing, claims[i].source_ref \notin ids),
                                                    Say(Issue, claims[i].conflicting) >>)]
           c1 == File(l.registry)
           c2 == File(l.claims)
           c3 == Object(l.registry)
           c4 == Object(l.claims)
           c5 == Say(Invalid, ~IsList(l.registry.sources) \/ ~IsList(l.claims.list))
<1>1. u <=> /\ l.registry.state = "object" /\ l.claims.state = "object"
            /\ IsList(l.registry.sources) /\ IsList(l.claims.list)
            /\ Unique(sources, "id") /\ \A x \in Range(sources) : x.id # Blank
            /\ Unique(claims, "id") /\ \A x \in Range(claims) : x.id # Blank
            /\ \A c \in Range(claims) : c.source_ref \in ids
  BY DEF WellFormed, Usable, Items
<1>2. d <=> \E c \in Range(claims) : c.conflicting
  BY DEF Defect
<1>3. /\ l.registry.state \in {"missing", "corrupt", "scalar", "object"}
      /\ l.claims.state \in {"missing", "corrupt", "scalar", "object"}
      /\ Listed(l.registry.sources) /\ Listed(l.claims.list)
  BY DEF LedgerShaped
<1>4. SourceOfTruth(l) = FirstOf(<<c1, c2, c3, c4, c5, FirstOf(F), FirstOf(G)>>)
  BY DEF SourceOfTruth, Each
<1> HIDE DEF u, d
<1>5. /\ FirstOf(F) = Ok <=> Unique(sources, "id") /\ \A x \in Range(sources) : x.id # Blank
      /\ Sound(FirstOf(F), u, d)
  <2>1. \A i \in DOMAIN sources : /\ F[i] = Ok <=> sources[i].id # Blank /\ ~Repeated(sources, i, "id")
                                  /\ Sound(F[i], u, d)
    <3> SUFFICES ASSUME NEW i \in DOMAIN sources
                 PROVE  /\ F[i] = Ok <=> sources[i].id # Blank /\ ~Repeated(sources, i, "id")
                        /\ Sound(F[i], u, d)
      OBVIOUS
    <3>1. u => sources[i].id # Blank /\ ~Repeated(sources, i, "id")
      BY <1>1, <1>3, UniqueIs DEF Range
    <3> DEFINE a == Say(Invalid, sources[i].id = Blank)
               b == Say(Invalid, Repeated(sources, i, "id"))
    <3>2. Sound(a, u, d) /\ Sound(b, u, d) /\ (a = Ok <=> sources[i].id # Blank)
          /\ (b = Ok <=> ~Repeated(sources, i, "id"))
      BY <3>1, Said
    <3>3. F[i] = FirstOf(<<a, b>>)
      OBVIOUS
    <3> HIDE DEF a, b, F
    <3> QED BY <3>2, <3>3, First2
  <2>2. DOMAIN F = DOMAIN sources
    OBVIOUS
  <2> HIDE DEF F
  <2>3. /\ FirstOf(F) = Ok <=> \A i \in DOMAIN sources : F[i] = Ok
        /\ Sound(FirstOf(F), u, d)
    BY <1>3, <2>1, <2>2, EachIs
  <2>4. Unique(sources, "id") <=> \A i \in DOMAIN sources : ~Repeated(sources, i, "id")
    BY <1>3, UniqueIs
  <2> QED BY <2>1, <2>3, <2>4 DEF Range
<1>6. /\ FirstOf(G) = Ok <=> /\ Unique(claims, "id")
                             /\ \A x \in Range(claims) : /\ x.id # Blank /\ x.source_ref # Blank
                                                         /\ x.source_ref \in ids /\ ~x.conflicting
      /\ Sound(FirstOf(G), u, d)
  <2>1. \A i \in DOMAIN claims :
          /\ G[i] = Ok <=> /\ claims[i].id # Blank /\ ~Repeated(claims, i, "id") /\ claims[i].source_ref # Blank
                          /\ claims[i].source_ref \in ids /\ ~claims[i].conflicting
          /\ Sound(G[i], u, d)
    <3> SUFFICES ASSUME NEW i \in DOMAIN claims
                 PROVE  /\ G[i] = Ok <=> /\ claims[i].id # Blank /\ ~Repeated(claims, i, "id")
                                         /\ claims[i].source_ref # Blank
                                         /\ claims[i].source_ref \in ids /\ ~claims[i].conflicting
                        /\ Sound(G[i], u, d)
      OBVIOUS
    <3>1. /\ u => claims[i].id # Blank /\ ~Repeated(claims, i, "id") /\ claims[i].source_ref \in ids
          /\ claims[i].conflicting => d
      BY <1>1, <1>2, <1>3, UniqueIs DEF Range
    <3>2. u => claims[i].source_ref # Blank
      <4>1. u => \E s \in Range(sources) : s.id = claims[i].source_ref /\ s.id # Blank
        BY <3>1, <1>1
      <4> QED BY <4>1
    <3> DEFINE k1 == Say(Invalid, claims[i].id = Blank)
               k2 == Say(Invalid, Repeated(claims, i, "id"))
               k3 == Say(Invalid, claims[i].source_ref = Blank)
               k4 == Say(Missing, claims[i].source_ref \notin ids)
               k5 == Say(Issue, claims[i].conflicting)
    <3>3. /\ Sound(k1, u, d) /\ Sound(k2, u, d) /\ Sound(k3, u, d) /\ Sound(k4, u, d) /\ Sound(k5, u, d)
          /\ k1 = Ok <=> claims[i].id # Blank
          /\ k2 = Ok <=> ~Repeated(claims, i, "id")
          /\ k3 = Ok <=> claims[i].source_ref # Blank
          /\ k4 = Ok <=> claims[i].source_ref \in ids
          /\ k5 = Ok <=> ~claims[i].conflicting
      BY <3>1, <3>2, Said
    <3>4. G[i] = FirstOf(<<k1, k2, k3, k4, k5>>)
      OBVIOUS
    <3> HIDE DEF k1, k2, k3, k4, k5, G
    <3> QED BY <3>3, <3>4, First5
  <2>2. DOMAIN G = DOMAIN claims
    OBVIOUS
  <2> HIDE DEF G
  <2>3. /\ FirstOf(G) = Ok <=> \A i \in DOMAIN claims : G[i] = Ok
        /\ Sound(FirstOf(G), u, d)
    BY <1>3, <2>1, <2>2, EachIs
  <2>4. Unique(claims, "id") <=> \A i \in DOMAIN claims : ~Repeated(claims, i, "id")
    BY <1>3, UniqueIs
  <2> QED BY <2>1, <2>3, <2>4 DEF Range
<1>7. Sound(c1, u, d) /\ Sound(c2, u, d) /\ Sound(c3, u, d) /\ Sound(c4, u, d) /\ Sound(c5, u, d)
  BY <1>1, Said DEF File, Object, Sound, Ok, Issue, Missing, Invalid, Raises
<1>8. /\ c1 = Ok /\ c2 = Ok /\ c3 = Ok /\ c4 = Ok /\ c5 = Ok /\ FirstOf(F) = Ok /\ FirstOf(G) = Ok
      => u /\ ~d
  BY <1>1, <1>2, <1>3, <1>5, <1>6, Said DEF File, Object, Ok, Missing, Invalid
<1> HIDE DEF c1, c2, c3, c4, c5, F, G
<1>9. /\ Sound(FirstOf(<<c1, c2, c3, c4, c5, FirstOf(F), FirstOf(G)>>), u, d)
      /\ FirstOf(<<c1, c2, c3, c4, c5, FirstOf(F), FirstOf(G)>>) = Ok => u /\ ~d
  BY <1>5, <1>6, <1>7, <1>8, First7
<1> QED BY <1>4, <1>9 DEF Right, u, d

\* The gate of the unverified claims passes usable evidence without a defect, and no other.
LEMMA UnverifiedClaimsRight ==
  ASSUME NEW l, LedgerShaped(l)
  PROVE  Right(UnverifiedClaims(l), "UNVERIFIED_CLAIMS", l)
<1> DEFINE u == WellFormed("UNVERIFIED_CLAIMS", l)
           d == Defect("UNVERIFIED_CLAIMS", l)
           left == l.unverified.unresolved
           b1 == Say(Missing, l.bundle.state = "none")
           b2 == Say(Invalid, l.bundle.state \in {"unusable", "scalar"})
           b3 == Say(Invalid, l.bundle.hash # "this")
           c1 == File(l.unverified)
           c2 == Object(l.unverified)
           c3 == Strings(left)
           c4 == Say(Issue, Items(left) # << >>)
           c5 == LatestBundle(l)
           c6 == Say(Invalid, ~IsList(l.bundle.claims))
           c7 == Say(Issue, Range(Items(l.bundle.claims)) \ {Blank, Junk} # {})
<1>1. u <=> /\ l.unverified.state = "object" /\ IsList(left) /\ Junk \notin Range(Items(left))
            /\ l.bundle.state = "object" /\ l.bundle.hash = "this" /\ IsList(l.bundle.claims)
  BY DEF WellFormed, Usable, Texts, Items
<1>2. d <=> Items(left) # << >> \/ ~(Range(Items(l.bundle.claims)) \subseteq {Blank, Junk})
  BY DEF Defect
<1>3. /\ l.unverified.state \in {"missing", "corrupt", "scalar", "object"}
      /\ l.bundle.state \in {"none", "unusable", "scalar", "object"}
  BY DEF LedgerShaped
<1>4. UnverifiedClaims(l) = FirstOf(<<c1, c2, c3, c4, c5, c6, c7>>)
  BY DEF UnverifiedClaims
<1> HIDE DEF u, d
<1>5. Sound(c5, u, d) /\ (c5 = Ok <=> l.bundle.state = "object" /\ l.bundle.hash = "this")
  <2>1. /\ Sound(b1, u, d) /\ Sound(b2, u, d) /\ Sound(b3, u, d)
        /\ b1 = Ok <=> l.bundle.state # "none"
        /\ b2 = Ok <=> l.bundle.state \notin {"unusable", "scalar"}
        /\ b3 = Ok <=> l.bundle.hash = "this"
    BY <1>1, Said
  <2>2. c5 = FirstOf(<<b1, b2, b3>>)
    BY DEF LatestBundle
  <2> HIDE DEF b1, b2, b3, c5
  <2> QED BY <1>3, <2>1, <2>2, First3
<1> HIDE DEF c5
<1>6. /\ Sound(c1, u, d) /\ Sound(c2, u, d) /\ Sound(c3, u, d) /\ Sound(c4, u, d)
      /\ Sound(c6, u, d) /\ Sound(c7, u, d)
  BY <1>1, <1>2, Said DEF File, Object, Strings, Sound, Ok, Issue, Missing, Invalid, Raises
<1>7. c1 = Ok /\ c2 = Ok /\ c3 = Ok /\ c4 = Ok /\ c5 = Ok /\ c6 = Ok /\ c7 = Ok => u /\ ~d
  BY <1>1, <1>2, <1>3, <1>5, Said DEF File, Object, Strings, Ok, Missing, Invalid
<1> HIDE DEF c1, c2, c3, c4, c6, c7
<1>8. /\ Sound(FirstOf(<<c1, c2, c3, c4, c5, c6, c7>>), u, d)
      /\ FirstOf(<<c1, c2, c3, c4, c5, c6, c7>>) = Ok => u /\ ~d
  BY <1>5, <1>6, <1>7, First7
<1> QED BY <1>4, <1>8 DEF Right, u, d

\* The gate of the citations passes usable evidence without a defect, and no other.
LEMMA CitationsRight ==
  ASSUME NEW l, LedgerShaped(l)
  PROVE  Right(Citations(l), "CITATION_VERIFICATION", l)
<1> DEFINE u == WellFormed("CITATION_VERIFICATION", l)
           d == Defect("CITATION_VERIFICATION", l)
           claims == Items(l.claims.list)
           Bare(c) == c.requires_citation /\ (~c.verified \/ c.source_refs = {})
           F == [i \in DOMAIN claims |-> FirstOf(<< Say(Invalid, claims[i].id = Blank),
                                                    Say(Issue, Bare(claims[i])) >>)]
           c1 == File(l.claims)
           c2 == Object(l.claims)
           c3 == Say(Invalid, ~IsList(l.claims.list))
<1>1. u <=> /\ l.claims.state = "object" /\ IsList(l.claims.list)
            /\ \A c \in Range(claims) : c.id # Blank
  BY DEF WellFormed, Usable, Items
<1>2. d <=> \E c \in Range(claims) : Bare(c)
  BY DEF Defect
<1>3. l.claims.state \in {"missing", "corrupt", "scalar", "object"} /\ Listed(l.claims.list)
  BY DEF LedgerShaped
<1>4. Citations(l) = FirstOf(<<c1, c2, c3, FirstOf(F)>>)
  BY DEF Citations, Each
<1> HIDE DEF u, d, Bare
<1>5. /\ FirstOf(F) = Ok <=> \A c \in Range(claims) : c.id # Blank /\ ~Bare(c)
      /\ Sound(FirstOf(F), u, d)
  <2>1. \A i \in DOMAIN claims : /\ F[i] = Ok <=> claims[i].id # Blank /\ ~Bare(claims[i])
                                 /\ Sound(F[i], u, d)
    <3> SUFFICES ASSUME NEW i \in DOMAIN claims
                 PROVE  /\ F[i] = Ok <=> claims[i].id # Blank /\ ~Bare(claims[i])
                        /\ Sound(F[i], u, d)
      OBVIOUS
    <3> DEFINE k1 == Say(Invalid, claims[i].id = Blank)
               k2 == Say(Issue, Bare(claims[i]))
    <3>1. (u => claims[i].id # Blank) /\ (Bare(claims[i]) => d)
      BY <1>1, <1>2 DEF Range
    <3>2. Sound(k1, u, d) /\ Sound(k2, u, d) /\ (k1 = Ok <=> claims[i].id # Blank) /\ (k2 = Ok <=> ~Bare(claims[i]))
      BY <3>1, Said
    <3>3. F[i] = FirstOf(<<k1, k2>>)
      OBVIOUS
    <3> HIDE DEF k1, k2, F
    <3> QED BY <3>2, <3>3, First2
  <2>2. DOMAIN F = DOMAIN claims
    OBVIOUS
  <2> HIDE DEF F
  <2>3. /\ FirstOf(F) = Ok <=> \A i \in DOMAIN claims : F[i] = Ok
        /\ Sound(FirstOf(F), u, d)
    BY <1>3, <2>1, <2>2, EachIs
  <2> QED BY <2>1, <2>3 DEF Range
<1>6. Sound(c1, u, d) /\ Sound(c2, u, d) /\ Sound(c3, u, d)
  BY <1>1, Said DEF File, Object, Sound, Ok, Issue, Missing, Invalid, Raises
<1>7. c1 = Ok /\ c2 = Ok /\ c3 = Ok /\ FirstOf(F) = Ok => u /\ ~d
  BY <1>1, <1>2, <1>3, <1>5, Said DEF File, Object, Ok, Missing, Invalid
<1> HIDE DEF c1, c2, c3, F
<1>8. /\ Sound(FirstOf(<<c1, c2, c3, FirstOf(F)>>), u, d)
      /\ FirstOf(<<c1, c2, c3, FirstOf(F)>>) = Ok => u /\ ~d
  BY <1>5, <1>6, <1>7, First4
<1> QED BY <1>4, <1>8 DEF Right, u, d

\* The gate of the terminology passes usable evidence without a defect, and no other.
LEMMA TerminologyRight ==
  ASSUME NEW l, LedgerShaped(l)
  PROVE  Right(Terminology(l), "TERMINOLOGY_CONSISTENCY", l)
<1> DEFINE u == WellFormed("TERMINOLOGY_CONSISTENCY", l)
           d == Defect("TERMINOLOGY_CONSISTENCY", l)
           rules == Items(l.terminology.rules)
           used == UNION {Range(Items(r.aliases)) : r \in Range(rules)}
           F == [i \in DOMAIN rules |-> FirstOf(<< Say(Invalid, rules[i].canonical = Blank),
                                                   Strings(rules[i].aliases) >>)]
           c1 == Say(Missing, l.terminology.state = "absent")
           c2 == Say(Invalid, rules = << >>)
           c4 == Say(Issue, used \cap l.words # {})
<1>1. u <=> /\ l.terminology.state = "present" /\ rules # << >>
            /\ \A r \in Range(rules) : r.canonical # Blank /\ Texts(r.aliases)
  BY DEF WellFormed, NonEmpty, Items
<1>2. d <=> \E r \in Range(rules) : Range(Items(r.aliases)) \cap l.words # {}
  BY DEF Defect
<1>3. l.terminology.state \in {"present", "absent"} /\ Listed(l.terminology.rules)
  BY DEF LedgerShaped
<1>4. Terminology(l) = FirstOf(<<c1, c2, FirstOf(F), c4>>)
  BY DEF Terminology, Each
<1> HIDE DEF u, d
<1>5. /\ FirstOf(F) = Ok <=> \A r \in Range(rules) : r.canonical # Blank /\ Texts(r.aliases)
      /\ Sound(FirstOf(F), u, d)
  <2>1. \A i \in DOMAIN rules : /\ F[i] = Ok <=> rules[i].canonical # Blank /\ Texts(rules[i].aliases)
                                /\ Sound(F[i], u, d)
    <3> SUFFICES ASSUME NEW i \in DOMAIN rules
                 PROVE  /\ F[i] = Ok <=> rules[i].canonical # Blank /\ Texts(rules[i].aliases)
                        /\ Sound(F[i], u, d)
      OBVIOUS
    <3> DEFINE k1 == Say(Invalid, rules[i].canonical = Blank)
               k2 == Strings(rules[i].aliases)
    <3>1. u => rules[i].canonical # Blank /\ Texts(rules[i].aliases)
      BY <1>1 DEF Range
    <3>2. /\ Sound(k1, u, d) /\ Sound(k2, u, d)
          /\ k1 = Ok <=> rules[i].canonical # Blank
          /\ k2 = Ok <=> Texts(rules[i].aliases)
      BY <3>1, Said DEF Strings, Texts, Items
    <3>3. F[i] = FirstOf(<<k1, k2>>)
      OBVIOUS
    <3> HIDE DEF k1, k2, F
    <3> QED BY <3>2, <3>3, First2
  <2>2. DOMAIN F = DOMAIN rules
    OBVIOUS
  <2> HIDE DEF F
  <2>3. /\ FirstOf(F) = Ok <=> \A i \in DOMAIN rules : F[i] = Ok
        /\ Sound(FirstOf(F), u, d)
    BY <1>3, <2>1, <2>2, EachIs
  <2> QED BY <2>1, <2>3 DEF Range
<1>6. d <=> used \cap l.words # {}
  BY <1>2
<1> HIDE DEF used, F
<1>7. Sound(c1, u, d) /\ Sound(c2, u, d) /\ Sound(c4, u, d)
  BY <1>1, <1>6, Said
<1>8. c1 = Ok /\ c2 = Ok /\ FirstOf(F) = Ok /\ c4 = Ok => u /\ ~d
  BY <1>1, <1>3, <1>5, <1>6, Said
<1> HIDE DEF c1, c2, c4
<1>9. /\ Sound(FirstOf(<<c1, c2, FirstOf(F), c4>>), u, d)
      /\ FirstOf(<<c1, c2, FirstOf(F), c4>>) = Ok => u /\ ~d
  BY <1>5, <1>7, <1>8, First4
<1> QED BY <1>4, <1>9 DEF Right, u, d

\* The gate of the budget passes usable evidence without a defect, and no other.
LEMMA BudgetRight ==
  ASSUME NEW l, LedgerShaped(l)
  PROVE  Right(Budget(l), "BUDGET_CONSISTENCY", l)
<1> DEFINE u == WellFormed("BUDGET_CONSISTENCY", l)
           d == Defect("BUDGET_CONSISTENCY", l)
           b == l.budget
           cs == Items(b.categories)
           sum == Sum([i \in DOMAIN cs |-> cs[i].amount])
           F == [i \in DOMAIN cs |-> FirstOf(<< Say(Invalid, cs[i].name = Blank),
                                                Say(Invalid, Repeated(cs, i, "name")),
                                                Amount(cs[i].amount) >>)]
           c1 == Say(Missing, b.state = "absent")
           c2 == Say(Invalid, cs = << >>)
           c4 == Optional(b.participant_total)
           c5 == Say(Issue, b.participant_total \notin {Absent, sum})
           c6 == Amount(b.declared_total)
           c7 == Say(Issue, b.declared_total # sum)
<1>1. u <=> /\ b.state = "present" /\ cs # << >> /\ Unique(cs, "name")
            /\ \A c \in Range(cs) : c.name # Blank /\ Number(c.amount)
            /\ b.participant_total = Absent \/ Number(b.participant_total)
            /\ Number(b.declared_total)
  BY DEF WellFormed, NonEmpty, Items
<1>2. d <=> b.declared_total # sum \/ b.participant_total \notin {Absent, sum}
  <2>1. [i \in DOMAIN cs |-> b.categories[i].amount] = [i \in DOMAIN cs |-> cs[i].amount]
    BY DEF Items
  <2>2. d <=> \/ b.declared_total # Sum([i \in DOMAIN cs |-> b.categories[i].amount])
              \/ b.participant_total \notin {Absent, Sum([i \in DOMAIN cs |-> b.categories[i].amount])}
    BY DEF Defect
  <2> QED BY <2>1, <2>2
<1>3. /\ b.state \in {"present", "absent"} /\ Listed(b.categories)
      /\ \A c \in Range(cs) : Numeric(c.amount)
      /\ Numeric(b.participant_total) /\ Numeric(b.declared_total)
  BY DEF LedgerShaped
<1>4. Budget(l) = FirstOf(<<c1, c2, FirstOf(F), c4, c5, c6, c7>>)
  BY DEF Budget, Each
<1> HIDE DEF u, d, sum
<1>5. /\ FirstOf(F) = Ok <=> Unique(cs, "name") /\ \A c \in Range(cs) : c.name # Blank /\ Number(c.amount)
      /\ Sound(FirstOf(F), u, d)
  <2>1. \A i \in DOMAIN cs : /\ F[i] = Ok <=> /\ cs[i].name # Blank /\ ~Repeated(cs, i, "name")
                                              /\ Number(cs[i].amount)
                             /\ Sound(F[i], u, d)
    <3> SUFFICES ASSUME NEW i \in DOMAIN cs
                 PROVE  /\ F[i] = Ok <=> /\ cs[i].name # Blank /\ ~Repeated(cs, i, "name")
                                         /\ Number(cs[i].amount)
                        /\ Sound(F[i], u, d)
      OBVIOUS
    <3> DEFINE k1 == Say(Invalid, cs[i].name = Blank)
               k2 == Say(Invalid, Repeated(cs, i, "name"))
               k3 == Amount(cs[i].amount)
    <3>1. u => cs[i].name # Blank /\ ~Repeated(cs, i, "name") /\ Number(cs[i].amount)
      BY <1>1, <1>3, UniqueIs DEF Range
    <3>2. Sound(k1, u, d) /\ Sound(k2, u, d) /\ (k1 = Ok <=> cs[i].name # Blank)
          /\ (k2 = Ok <=> ~Repeated(cs, i, "name"))
      BY <3>1, Said
    <3>3. Sound(k3, u, d) /\ (k3 = Ok <=> Number(cs[i].amount))
      <4>1. Numeric(cs[i].amount)
        BY <1>3 DEF Range
      <4> QED BY <3>1, <4>1, AmountIs
    <3>4. F[i] = FirstOf(<<k1, k2, k3>>)
      OBVIOUS
    <3> HIDE DEF k1, k2, k3, F
    <3> QED BY <3>2, <3>3, <3>4, First3
  <2>2. DOMAIN F = DOMAIN cs
    OBVIOUS
  <2> HIDE DEF F
  <2>3. /\ FirstOf(F) = Ok <=> \A i \in DOMAIN cs : F[i] = Ok
        /\ Sound(FirstOf(F), u, d)
    BY <1>3, <2>1, <2>2, EachIs
  <2>4. Unique(cs, "name") <=> \A i \in DOMAIN cs : ~Repeated(cs, i, "name")
    BY <1>3, UniqueIs
  <2> QED BY <2>1, <2>3, <2>4 DEF Range
<1>6. Sound(c1, u, d) /\ Sound(c2, u, d) /\ Sound(c5, u, d) /\ Sound(c7, u, d)
  BY <1>1, <1>2, Said
<1>7. /\ Sound(c4, u, d) /\ (c4 = Ok <=> b.participant_total = Absent \/ Number(b.participant_total))
      /\ Sound(c6, u, d) /\ (c6 = Ok <=> Number(b.declared_total))
  BY <1>1, <1>3, AmountIs
<1> HIDE DEF F, c4, c6
<1>8. c1 = Ok /\ c2 = Ok /\ FirstOf(F) = Ok /\ c4 = Ok /\ c5 = Ok /\ c6 = Ok /\ c7 = Ok => u /\ ~d
  BY <1>1, <1>2, <1>3, <1>5, <1>7, Said
<1> HIDE DEF c1, c2, c5, c7
<1>9. /\ Sound(FirstOf(<<c1, c2, FirstOf(F), c4, c5, c6, c7>>), u, d)
      /\ FirstOf(<<c1, c2, FirstOf(F), c4, c5, c6, c7>>) = Ok => u /\ ~d
  BY <1>5, <1>6, <1>7, <1>8, First7
<1> QED BY <1>4, <1>9 DEF Right, u, d

\* The gate of the contradictions passes usable evidence without a defect, and no other.
LEMMA ContradictionsRight ==
  ASSUME NEW l, LedgerShaped(l)
  PROVE  Right(Contradictions(l), "INTERNAL_CONTRADICTIONS", l)
<1> DEFINE u == WellFormed("INTERNAL_CONTRADICTIONS", l)
           d == Defect("INTERNAL_CONTRADICTIONS", l)
           c1 == File(l.contradictions)
           c2 == Object(l.contradictions)
           c3 == Say(Invalid, ~IsList(l.contradictions.unresolved))
           c4 == Say(Issue, Items(l.contradictions.unresolved) # << >>)
<1>1. u <=> l.contradictions.state = "object" /\ IsList(l.contradictions.unresolved)
  BY DEF WellFormed, Usable
<1>2. d <=> Items(l.contradictions.unresolved) # << >>
  BY DEF Defect
<1>3. l.contradictions.state \in {"missing", "corrupt", "scalar", "object"}
  BY DEF LedgerShaped
<1>4. Contradictions(l) = FirstOf(<<c1, c2, c3, c4>>)
  BY DEF Contradictions
<1> HIDE DEF u, d
<1>5. Sound(c1, u, d) /\ Sound(c2, u, d) /\ Sound(c3, u, d) /\ Sound(c4, u, d)
  BY <1>1, <1>2, Said DEF File, Object, Sound, Ok, Issue, Missing, Invalid, Raises
<1>6. c1 = Ok /\ c2 = Ok /\ c3 = Ok /\ c4 = Ok => u /\ ~d
  BY <1>1, <1>2, <1>3, Said DEF File, Object, Ok, Missing, Invalid
<1> HIDE DEF c1, c2, c3, c4
<1>7. /\ Sound(FirstOf(<<c1, c2, c3, c4>>), u, d)
      /\ FirstOf(<<c1, c2, c3, c4>>) = Ok => u /\ ~d
  BY <1>5, <1>6, First4
<1> QED BY <1>4, <1>7 DEF Right, u, d

\* The page limit is the one gate with a verdict of its own: an estimated page
\* count is a warning, of usable evidence that can show no defect.
LEMMA PageLimitRight ==
  ASSUME NEW l, LedgerShaped(l)
  PROVE  IF PageLimit(l) = "WARN"
         THEN l.pages.method = "estimate" /\ ~Defect("PAGE_LIMIT", l)
         ELSE /\ Right(PageLimit(l), "PAGE_LIMIT", l)
              /\ PageLimit(l) = Ok => l.pages.method # "estimate"
<1> DEFINE u == WellFormed("PAGE_LIMIT", l)
           d == Defect("PAGE_LIMIT", l)
           p == l.pages
           c1 == File(p)
           c2 == Object(p)
           c3 == Say(Invalid, p.method = Blank)
           c4 == Amount(p.measured)
           c5 == Amount(p.maximum)
           c6 == Say(Invalid, p.maximum = 0)
           over == Exceeds(p.measured, p.maximum)
<1>1. u <=> /\ p.state = "object" /\ p.method # Blank
            /\ Number(p.measured) /\ Number(p.maximum) /\ p.maximum # 0
  BY DEF WellFormed, Usable
<1>2. d <=> p.method # "estimate" /\ Number(p.measured) /\ Number(p.maximum) /\ over
  BY DEF Defect
<1>3. /\ p.state \in {"missing", "corrupt", "scalar", "object"}
      /\ Numeric(p.measured) /\ Numeric(p.maximum)
  BY DEF LedgerShaped
<1>4. PagesUsable(p) = FirstOf(<<c1, c2, c3, c4, c5, c6>>)
  BY DEF PagesUsable
<1>5. PageLimit(l) = IF PagesUsable(p) # Ok THEN PagesUsable(p)
                     ELSE IF p.method = "estimate" THEN "WARN" ELSE Say(Issue, over)
  BY DEF PageLimit
<1> HIDE DEF u, d, over
<1>6. /\ Sound(c4, u, d) /\ (c4 = Ok <=> Number(p.measured))
      /\ Sound(c5, u, d) /\ (c5 = Ok <=> Number(p.maximum))
  BY <1>1, <1>3, AmountIs
<1>7. Sound(c1, u, d) /\ Sound(c2, u, d) /\ Sound(c3, u, d) /\ Sound(c6, u, d)
  BY <1>1, Said DEF File, Object, Sound, Ok, Issue, Missing, Invalid, Raises
<1> HIDE DEF c4, c5
<1>8. c1 = Ok /\ c2 = Ok /\ c3 = Ok /\ c4 = Ok /\ c5 = Ok /\ c6 = Ok <=> u
  BY <1>1, <1>3, <1>6, Said DEF File, Object, Ok, Missing, Invalid
<1> HIDE DEF c1, c2, c3, c6
<1>9. Sound(PagesUsable(p), u, d) /\ (PagesUsable(p) = Ok <=> u)
  BY <1>4, <1>6, <1>7, <1>8, First6
<1>10. CASE PagesUsable(p) # Ok
  BY <1>5, <1>9, <1>10 DEF Right, Sound, u, d, Ok, Issue, Missing, Invalid, Raises
<1>11. CASE PagesUsable(p) = Ok /\ p.method = "estimate"
  BY <1>2, <1>5, <1>11 DEF d
<1>12. CASE PagesUsable(p) = Ok /\ p.method # "estimate"
  <2>1. u /\ (d <=> over)
    BY <1>1, <1>2, <1>9, <1>12
  <2>2. PageLimit(l) = Say(Issue, over)
    BY <1>5, <1>12
  <2>3. Sound(Say(Issue, over), u, d) /\ (Say(Issue, over) = Ok <=> ~over)
    BY <2>1, Said
  <2>4. Say(Issue, over) # "WARN"
    BY DEF Say, Issue, Ok
  <2> QED BY <1>12, <2>1, <2>2, <2>3, <2>4 DEF Right, u, d
<1> QED BY <1>10, <1>11, <1>12

-----------------------------------------------------------------------------
(* The gates over the work plan *)

\* There is a plan: the section is there, with packages that are objects.
PlanGiven(l) == /\ l.workplan.state = "present" /\ NonEmpty(l.workplan.packages)
                /\ \A w \in Range(l.workplan.packages) : w.id # Junk

\* The common checks of the five work-package gates ask for a plan.
LEMMA WorkplanIs ==
  ASSUME NEW l, LedgerShaped(l), NEW u, NEW d
  PROVE  /\ Workplan(l) = Ok <=> PlanGiven(l)
         /\ (u => PlanGiven(l)) => Sound(Workplan(l), u, d)
<1> DEFINE ps == l.workplan.packages
           c1 == Say(Missing, l.workplan.state = "absent")
           c2 == Say(Invalid, Items(ps) = << >>)
           c3 == Say(Invalid, \E w \in Range(Items(ps)) : w.id = Junk)
<1>1. l.workplan.state \in {"present", "absent"}
  BY DEF LedgerShaped
<1>2. PlanGiven(l) <=> /\ l.workplan.state = "present" /\ Items(ps) # << >>
                       /\ \A w \in Range(Items(ps)) : w.id # Junk
  BY DEF PlanGiven, NonEmpty, Items
<1>3. Workplan(l) = FirstOf(<<c1, c2, c3>>)
  BY DEF Workplan
<1>4. c1 = Ok /\ c2 = Ok /\ c3 = Ok <=> PlanGiven(l)
  BY <1>1, <1>2, Said
<1>5. (u => PlanGiven(l)) => Sound(c1, u, d) /\ Sound(c2, u, d) /\ Sound(c3, u, d)
  BY <1>1, <1>2, Said
<1> HIDE DEF c1, c2, c3
<1> QED BY <1>3, <1>4, <1>5, First3

\* The packages a gate looks at are well shaped, and none without a plan.
LEMMA PackagesAre ==
  ASSUME NEW l, LedgerShaped(l)
  PROVE  /\ Packages(l) = IF PlanGiven(l) THEN l.workplan.packages ELSE << >>
         /\ Listed(Packages(l)) /\ Items(Packages(l)) = Packages(l)
         /\ \E n \in Nat : DOMAIN Packages(l) = 1..n
         /\ \A w \in Range(Packages(l)) : w.id # Junk /\ PackageShaped(w)
<1>1. Packages(l) = IF PlanGiven(l) THEN l.workplan.packages ELSE << >>
  BY WorkplanIs DEF Packages
<1>2. CASE ~PlanGiven(l)
  <2>1. Packages(l) = << >>
    BY <1>1, <1>2
  <2>2. << >> \in Seq(Range(<< >>)) /\ DOMAIN << >> = 1..0 /\ 0 \in Nat /\ Range(<< >>) = {}
    BY DEF Range
  <2> QED BY <1>1, <2>1, <2>2 DEF Listed, Items
<1>3. CASE PlanGiven(l)
  <2>1. /\ Packages(l) = l.workplan.packages /\ IsList(l.workplan.packages) /\ Listed(l.workplan.packages)
        /\ \A w \in Range(l.workplan.packages) : w.id # Junk /\ (w.id # Junk => PackageShaped(w))
    BY <1>1, <1>3 DEF LedgerShaped, PlanGiven, NonEmpty, Items
  <2> QED BY <1>1, <2>1 DEF Listed, Items, IsList
<1> QED BY <1>2, <1>3

\* The entries a package lists under a field, and where they are.
LEMMA EntriesAre ==
  ASSUME NEW l, NEW field
  PROVE  /\ \A p : p \in DOMAIN EntriesOf(l, field) <=>
                     \E i \in DOMAIN Packages(l) : \E j \in DOMAIN Items(Packages(l)[i][field]) : p = <<i, j>>
         /\ \A i \in DOMAIN Packages(l) : \A j \in DOMAIN Items(Packages(l)[i][field]) :
              EntriesOf(l, field)[<<i, j>>] = Items(Packages(l)[i][field])[j]
<1> DEFINE at(i) == Items(Packages(l)[i][field])
           places == UNION {{i} \X DOMAIN at(i) : i \in DOMAIN Packages(l)}
<1>1. EntriesOf(l, field) = [p \in places |-> at(p[1])[p[2]]]
  BY DEF EntriesOf
<1>2. \A p : p \in places <=> \E i \in DOMAIN Packages(l) : \E j \in DOMAIN at(i) : p = <<i, j>>
  <2> HIDE DEF at
  <2> QED OBVIOUS
<1> HIDE DEF at, places
<1>3. \A i \in DOMAIN Packages(l) : \A j \in DOMAIN at(i) :
        EntriesOf(l, field)[<<i, j>>] = at(i)[j]
  BY <1>1, <1>2
<1>4. DOMAIN EntriesOf(l, field) = places
  BY <1>1
<1> QED BY <1>2, <1>3, <1>4 DEF at

\* The entries of a field are those of the packages.
LEMMA EntriesRange ==
  ASSUME NEW l, NEW field
  PROVE  \A e : e \in Range(EntriesOf(l, field)) <=>
                  \E w \in Range(Packages(l)) : e \in Range(Items(w[field]))
<1> DEFINE E == EntriesOf(l, field)
<1>1. /\ \A p : p \in DOMAIN E <=>
               \E i \in DOMAIN Packages(l) : \E j \in DOMAIN Items(Packages(l)[i][field]) : p = <<i, j>>
      /\ \A i \in DOMAIN Packages(l) : \A j \in DOMAIN Items(Packages(l)[i][field]) :
           E[<<i, j>>] = Items(Packages(l)[i][field])[j]
  BY EntriesAre
<1> HIDE DEF E
<1>2. SUFFICES \A e : e \in Range(E) <=> \E w \in Range(Packages(l)) : e \in Range(Items(w[field]))
  BY DEF E
<1>3. \A e : e \in Range(E) <=> \E i \in DOMAIN Packages(l) : \E j \in DOMAIN Items(Packages(l)[i][field]) :
                                  e = Items(Packages(l)[i][field])[j]
  <2>1. \A e : e \in Range(E) <=> \E p \in DOMAIN E : e = E[p]
    BY DEF Range
  <2>2. ASSUME NEW p \in DOMAIN E
        PROVE  \E i \in DOMAIN Packages(l) : \E j \in DOMAIN Items(Packages(l)[i][field]) :
                 E[p] = Items(Packages(l)[i][field])[j]
    BY <1>1
  <2>3. ASSUME NEW i \in DOMAIN Packages(l), NEW j \in DOMAIN Items(Packages(l)[i][field])
        PROVE  Items(Packages(l)[i][field])[j] \in Range(E)
    BY <1>1, <2>1
  <2> QED BY <2>1, <2>2, <2>3
<1> QED BY <1>3 DEF Range

\* No entry has the id of an earlier one when no two have the same.
LEMMA UniqueEntries ==
  ASSUME NEW l, LedgerShaped(l), NEW field, \A w \in Range(Packages(l)) : Listed(w[field])
  PROVE  Unique(EntriesOf(l, field), "id") <=>
           \A i \in DOMAIN Packages(l) : \A j \in DOMAIN Items(Packages(l)[i][field]) :
             ~EntryRepeated(Packages(l), field, i, j)
<1> DEFINE ps == Packages(l)
           at(i) == Items(ps[i][field])
           E == EntriesOf(l, field)
<1>1. PICK n \in Nat : DOMAIN ps = 1..n
  BY PackagesAre
<1>2. /\ \A p : p \in DOMAIN E <=> \E i \in 1..n : \E j \in DOMAIN at(i) : p = <<i, j>>
      /\ \A i \in 1..n : \A j \in DOMAIN at(i) : E[<<i, j>>] = at(i)[j]
  BY <1>1, EntriesAre
<1>3. \A i \in 1..n : \A j \in DOMAIN at(i) :
        EntryRepeated(ps, field, i, j) <=>
          \E k \in 1..i : \E m \in DOMAIN at(k) : (k = i => m < j) /\ at(k)[m].id = at(i)[j].id
  BY DEF EntryRepeated
<1>4. \A i \in 1..n : \A j \in DOMAIN at(i) : j \in Nat
  <2> SUFFICES ASSUME NEW i \in 1..n PROVE \A j \in DOMAIN at(i) : j \in Nat
    OBVIOUS
  <2>1. Listed(ps[i][field])
    BY <1>1 DEF Range
  <2>2. PICK m \in Nat : DOMAIN at(i) = 1..m
    BY <2>1 DEF Listed, Items, IsList
  <2> QED BY <2>2
<1> HIDE DEF ps, at, E
<1>5. ASSUME Unique(E, "id"), NEW i \in 1..n, NEW j \in DOMAIN at(i), EntryRepeated(ps, field, i, j)
      PROVE  FALSE
  <2>0. PICK k \in 1..i : \E m \in DOMAIN at(k) : (k = i => m < j) /\ at(k)[m].id = at(i)[j].id
    BY <1>3, <1>5
  <2>1. PICK m \in DOMAIN at(k) : (k = i => m < j) /\ at(k)[m].id = at(i)[j].id
    BY <2>0
  <2>2. k \in 1..n /\ <<i, j>> \in DOMAIN E /\ <<k, m>> \in DOMAIN E
    BY <1>2
  <2>3. E[<<i, j>>].id = E[<<k, m>>].id
    BY <1>2, <2>1
  <2>4. <<i, j>> = <<k, m>>
    BY <1>5, <2>2, <2>3 DEF Unique
  <2> QED BY <1>4, <2>1, <2>4
<1>6. ASSUME \A i \in 1..n : \A j \in DOMAIN at(i) : ~EntryRepeated(ps, field, i, j)
      PROVE  Unique(E, "id")
  <2> SUFFICES ASSUME NEW p \in DOMAIN E, NEW q \in DOMAIN E, E[p].id = E[q].id PROVE p = q
    BY DEF Unique
  <2> PICK i \in 1..n : \E j \in DOMAIN at(i) : p = <<i, j>>
    BY <1>2
  <2>1. PICK j \in DOMAIN at(i) : p = <<i, j>>
    OBVIOUS
  <2> PICK k \in 1..n : \E m \in DOMAIN at(k) : q = <<k, m>>
    BY <1>2
  <2>2. PICK m \in DOMAIN at(k) : q = <<k, m>>
    OBVIOUS
  <2>3. at(i)[j].id = at(k)[m].id
    BY <1>2, <2>1, <2>2
  <2>4. j \in Nat /\ m \in Nat
    BY <1>4
  <2>5. k <= i => ~(k = i => m < j)
    BY <1>3, <1>6, <2>3
  <2>6. i <= k => ~(i = k => j < m)
    BY <1>3, <1>6, <2>3
  <2> QED BY <2>1, <2>2, <2>4, <2>5, <2>6
<1>7. ps = Packages(l) /\ E = EntriesOf(l, field) /\ DOMAIN ps = 1..n
  BY <1>1 DEF ps, E
<1> QED BY <1>5, <1>6, <1>7 DEF at

\* The gate of the tasks passes usable evidence without a defect, and no other.
LEMMA WpTasksRight ==
  ASSUME NEW l, LedgerShaped(l)
  PROVE  Right(WpTasks(l), "WP_TASK_CONSISTENCY", l)
<1> DEFINE u == WellFormed("WP_TASK_CONSISTENCY", l)
           d == Defect("WP_TASK_CONSISTENCY", l)
           ps == Packages(l)
           ts(i) == Items(Items(ps)[i].tasks)
           T(i) == [j \in DOMAIN ts(i) |-> FirstOf(<< Say(Invalid, ts(i)[j].id = Blank),
                                                      Say(Issue, EntryRepeated(ps, "tasks", i, j)),
                                                      Say(Issue, ts(i)[j].owner = Blank) >>)]
           F == [i \in DOMAIN Items(ps) |-> FirstOf(<< PackageId(Items(ps)[i]),
                                                       Say(Invalid, Repeated(ps, i, "id")),
                                                       Say(Invalid, ts(i) = << >>),
                                                       FirstOf(T(i)) >>)]
<1>1. WpTasks(l) = FirstOf(<<Workplan(l), FirstOf(F)>>)
  BY DEF WpTasks, Each
<1>2. /\ PlanGiven(l) => ps = l.workplan.packages
      /\ Items(ps) = ps /\ Listed(ps) /\ \A w \in Range(ps) : w.id # Junk /\ PackageShaped(w)
  BY PackagesAre
<1>3. u <=> /\ PlanGiven(l) /\ Unique(ps, "id")
            /\ \A w \in Range(ps) : /\ w.id # Blank /\ Items(w.tasks) # << >>
                                     /\ \A t \in Range(Items(w.tasks)) : t.id # Blank
  <2>1. u <=> /\ PlanUsable(l) /\ Unique(l.workplan.packages, "id")
              /\ \A w \in Range(l.workplan.packages) :
                   NonEmpty(w.tasks) /\ \A t \in Range(w.tasks) : t.id # Blank
    BY DEF WellFormed
  <2>2. PlanUsable(l) => PlanGiven(l)
    BY DEF PlanUsable, PlanGiven
  <2>3. \A w : NonEmpty(w.tasks) <=> Items(w.tasks) # << >>
    BY DEF NonEmpty, Items
  <2>4. \A w : NonEmpty(w.tasks) => Items(w.tasks) = w.tasks /\ w.tasks # Junk
    BY DEF NonEmpty, Items, IsList
  <2>5. PlanGiven(l) /\ (\A w \in Range(ps) : w.id # Blank /\ NonEmpty(w.tasks)) => PlanUsable(l)
    BY <1>2, <2>4 DEF PlanUsable, PlanGiven
  <2>6. PlanUsable(l) => \A w \in Range(ps) : w.id # Blank
    BY <1>2, <2>2 DEF PlanUsable
  <2> HIDE DEF u, ps
  <2> QED BY <1>2, <2>1, <2>2, <2>3, <2>4, <2>5, <2>6
<1>4. d <=> \/ ~Unique(EntriesOf(l, "tasks"), "id")
            \/ \E w \in Range(ps) : \E t \in Range(Items(w.tasks)) : t.owner = Blank
  <2>1. d <=> \/ ~Unique(EntriesOf(l, "tasks"), "id")
              \/ \E t \in Range(EntriesOf(l, "tasks")) : t.owner = Blank
    BY DEF Defect
  <2>2. \A e : e \in Range(EntriesOf(l, "tasks")) <=> \E w \in Range(ps) : e \in Range(Items(w.tasks))
    BY EntriesRange
  <2> QED BY <2>1, <2>2
<1>5. Unique(EntriesOf(l, "tasks"), "id") <=>
        \A i \in DOMAIN ps : \A j \in DOMAIN Items(ps[i].tasks) : ~EntryRepeated(ps, "tasks", i, j)
  <2>1. \A w \in Range(ps) : Listed(w.tasks)
    BY <1>2 DEF PackageShaped
  <2> QED BY <2>1, UniqueEntries
<1> HIDE DEF u, d
<1>6. \A i \in DOMAIN ps :
        /\ FirstOf(T(i)) = Ok <=>
             \A j \in DOMAIN Items(ps[i].tasks) :
               /\ Items(ps[i].tasks)[j].id # Blank /\ Items(ps[i].tasks)[j].owner # Blank
               /\ ~EntryRepeated(ps, "tasks", i, j)
        /\ Sound(FirstOf(T(i)), u, d)
  <2> SUFFICES ASSUME NEW i \in DOMAIN ps
               PROVE  /\ FirstOf(T(i)) = Ok <=>
                           \A j \in DOMAIN ts(i) : /\ ts(i)[j].id # Blank /\ ts(i)[j].owner # Blank
                                                   /\ ~EntryRepeated(ps, "tasks", i, j)
                      /\ Sound(FirstOf(T(i)), u, d)
    BY <1>2
  <2> DEFINE list == Items(ps[i].tasks)
             G == T(i)
  <2>1. ps[i] \in Range(ps) /\ ts(i) = list /\ Listed(ps[i].tasks)
    BY <1>2 DEF Range, PackageShaped
  <2>2. \A j \in DOMAIN list : /\ G[j] = Ok <=> /\ list[j].id # Blank /\ list[j].owner # Blank
                                                /\ ~EntryRepeated(ps, "tasks", i, j)
                               /\ Sound(G[j], u, d)
    <3> SUFFICES ASSUME NEW j \in DOMAIN list
                 PROVE  /\ G[j] = Ok <=> /\ list[j].id # Blank /\ list[j].owner # Blank
                                         /\ ~EntryRepeated(ps, "tasks", i, j)
                        /\ Sound(G[j], u, d)
      OBVIOUS
    <3> DEFINE k1 == Say(Invalid, list[j].id = Blank)
               k2 == Say(Issue, EntryRepeated(ps, "tasks", i, j))
               k3 == Say(Issue, list[j].owner = Blank)
    <3>1. list[j] \in Range(list)
      BY DEF Range
    <3>2. /\ u => list[j].id # Blank
          /\ list[j].owner = Blank => d
          /\ EntryRepeated(ps, "tasks", i, j) => d
      BY <1>3, <1>4, <1>5, <2>1, <3>1
    <3>3. /\ Sound(k1, u, d) /\ Sound(k2, u, d) /\ Sound(k3, u, d)
          /\ k1 = Ok <=> list[j].id # Blank
          /\ k2 = Ok <=> ~EntryRepeated(ps, "tasks", i, j)
          /\ k3 = Ok <=> list[j].owner # Blank
      BY <3>2, Said
    <3>4. G[j] = FirstOf(<<k1, k2, k3>>)
      BY <2>1
    <3> HIDE DEF k1, k2, k3, G
    <3> QED BY <3>3, <3>4, First3
  <2>3. DOMAIN G = DOMAIN list
    BY <2>1
  <2> HIDE DEF G
  <2>4. /\ FirstOf(G) = Ok <=> \A j \in DOMAIN list : G[j] = Ok
        /\ Sound(FirstOf(G), u, d)
    BY <2>1, <2>2, <2>3, EachIs
  <2> HIDE DEF list
  <2> QED BY <2>1, <2>2, <2>4 DEF G
<1> HIDE DEF T
<1>7. \A i \in DOMAIN ps :
        /\ F[i] = Ok <=> /\ ps[i].id # Blank /\ ~Repeated(ps, i, "id") /\ Items(ps[i].tasks) # << >>
                         /\ FirstOf(T(i)) = Ok
        /\ Sound(F[i], u, d)
  <2> SUFFICES ASSUME NEW i \in DOMAIN ps
               PROVE  /\ F[i] = Ok <=> /\ ps[i].id # Blank /\ ~Repeated(ps, i, "id")
                                       /\ Items(ps[i].tasks) # << >> /\ FirstOf(T(i)) = Ok
                      /\ Sound(F[i], u, d)
    OBVIOUS
  <2> DEFINE k1 == PackageId(ps[i])
             k2 == Say(Invalid, Repeated(ps, i, "id"))
             k3 == Say(Invalid, Items(ps[i].tasks) = << >>)
             k4 == FirstOf(T(i))
  <2>1. u => ps[i].id # Blank /\ ~Repeated(ps, i, "id") /\ Items(ps[i].tasks) # << >>
    BY <1>2, <1>3, UniqueIs DEF Range
  <2>2. /\ Sound(k1, u, d) /\ Sound(k2, u, d) /\ Sound(k3, u, d)
        /\ k1 = Ok <=> ps[i].id # Blank
        /\ k2 = Ok <=> ~Repeated(ps, i, "id")
        /\ k3 = Ok <=> Items(ps[i].tasks) # << >>
    BY <2>1, Said DEF PackageId
  <2>3. F[i] = FirstOf(<<k1, k2, k3, k4>>)
    BY <1>2
  <2>4. Sound(k4, u, d)
    BY <1>6
  <2> HIDE DEF k1, k2, k3, F, k4
  <2>5. /\ F[i] = Ok <=> k1 = Ok /\ k2 = Ok /\ k3 = Ok /\ k4 = Ok
        /\ Sound(F[i], u, d)
    BY <2>2, <2>3, <2>4, First4
  <2> QED BY <2>2, <2>5 DEF k4
<1>8. DOMAIN F = DOMAIN Items(ps)
  OBVIOUS
<1> HIDE DEF F
<1>9. /\ FirstOf(F) = Ok <=> \A i \in DOMAIN ps : F[i] = Ok
      /\ Sound(FirstOf(F), u, d)
  BY <1>2, <1>7, <1>8, EachIs
<1>10. Sound(Workplan(l), u, d) /\ (Workplan(l) = Ok <=> PlanGiven(l))
  BY <1>3, WorkplanIs
<1>11. Workplan(l) = Ok /\ FirstOf(F) = Ok => u /\ ~d
  <2> SUFFICES ASSUME PlanGiven(l), \A i \in DOMAIN ps : F[i] = Ok PROVE u /\ ~d
    BY <1>9, <1>10
  <2>1. Unique(ps, "id") <=> \A i \in DOMAIN ps : ~Repeated(ps, i, "id")
    BY <1>2, UniqueIs
  <2> HIDE DEF ps
  <2>2. Unique(ps, "id") /\ Unique(EntriesOf(l, "tasks"), "id")
    BY <1>5, <1>6, <1>7, <2>1
  <2>3. \A w \in Range(ps) : /\ w.id # Blank /\ Items(w.tasks) # << >>
                             /\ \A t \in Range(Items(w.tasks)) : t.id # Blank /\ t.owner # Blank
    BY <1>6, <1>7 DEF Range
  <2> QED BY <1>3, <1>4, <2>2, <2>3
<1> QED BY <1>1, <1>9, <1>10, <1>11, First2 DEF Right, u, d

\* A plan is usable when every package is named and has its tasks.
LEMMA PlanUsableIs ==
  ASSUME NEW l, LedgerShaped(l)
  PROVE  PlanUsable(l) <=> PlanGiven(l) /\ \A w \in Range(Packages(l)) : w.id # Blank /\ w.tasks # Junk
<1>1. PlanGiven(l) => Packages(l) = l.workplan.packages
  BY PackagesAre
<1> QED BY <1>1 DEF PlanUsable, PlanGiven

\* The references of a deliverable: absent, or names of tasks and blanks.
RefsChecked(l, e) ==
  FirstOf([k \in DOMAIN Items(e.refs) |->
             IF Items(e.refs)[k] = Absent THEN Ok
             ELSE FirstOf(<< Strings(Items(e.refs)[k]),
                             Say(Issue, \E r \in Range(Items(Items(e.refs)[k])) \ {Blank} : r \notin TaskIds(l)) >>)])
\* A list of references is absent, or of texts that name tasks.
Resolved(l, refs) ==
  refs = Absent \/ (Texts(refs) /\ \A r \in Range(Items(refs)) : ~Dangling(r, TaskIds(l)))

\* The references of an entry pass when all of them are resolved.
LEMMA RefsAre ==
  ASSUME NEW l, NEW e, IsList(e.refs), Listed(e.refs), NEW u, NEW d,
         \A refs \in Range(e.refs) : Absent \notin Range(Items(refs)),
         u => \A refs \in Range(e.refs) : refs = Absent \/ Texts(refs),
         (\E refs \in Range(e.refs) : \E r \in Range(Items(refs)) : Dangling(r, TaskIds(l))) => d
  PROVE  /\ RefsChecked(l, e) = Ok <=> \A refs \in Range(e.refs) : Resolved(l, refs)
         /\ Sound(RefsChecked(l, e), u, d)
<1> DEFINE list == Items(e.refs)
           bad(k) == \E r \in Range(Items(list[k])) \ {Blank} : r \notin TaskIds(l)
           G == [k \in DOMAIN list |-> IF list[k] = Absent THEN Ok
                                       ELSE FirstOf(<<Strings(list[k]), Say(Issue, bad(k))>>)]
<1>1. list = e.refs /\ Listed(e.refs)
  BY DEF Items
<1>2. \A k \in DOMAIN list : (G[k] = Ok <=> Resolved(l, list[k])) /\ Sound(G[k], u, d)
  <2> SUFFICES ASSUME NEW k \in DOMAIN list
               PROVE  (G[k] = Ok <=> Resolved(l, list[k])) /\ Sound(G[k], u, d)
    OBVIOUS
  <2> DEFINE refs == list[k]
             k1 == Strings(refs)
             k2 == Say(Issue, bad(k))
  <2>1. refs \in Range(e.refs)
    BY <1>1 DEF Range
  <2>2. Absent \notin Range(Items(refs)) /\ (u => refs = Absent \/ Texts(refs))
    BY <2>1
  <2>3. bad(k) <=> \E r \in Range(Items(refs)) : Dangling(r, TaskIds(l))
    BY <2>2 DEF Dangling
  <2>4. bad(k) => d
    BY <2>1, <2>3
  <2>5. G[k] = IF refs = Absent THEN Ok ELSE FirstOf(<<k1, k2>>)
    OBVIOUS
  <2> HIDE DEF bad, G, list
  <2>6. refs # Absent => Sound(k1, u, d) /\ Sound(k2, u, d) /\ (k1 = Ok <=> Texts(refs)) /\ (k2 = Ok <=> ~bad(k))
    BY <2>2, <2>4, Said DEF Strings, Texts, Items
  <2> HIDE DEF k1, k2, refs
  <2>7. refs # Absent => Sound(G[k], u, d) /\ (G[k] = Ok <=> Texts(refs) /\ ~bad(k))
    BY <2>5, <2>6, First2
  <2>8. refs = Absent => Sound(G[k], u, d) /\ G[k] = Ok
    BY <2>5 DEF Sound, Ok, Issue, Missing, Invalid, Raises
  <2> QED BY <2>3, <2>7, <2>8 DEF Resolved, refs
<1>3. DOMAIN G = DOMAIN list /\ RefsChecked(l, e) = FirstOf(G)
  BY DEF RefsChecked
<1> HIDE DEF G
<1>4. /\ FirstOf(G) = Ok <=> \A k \in DOMAIN list : G[k] = Ok
      /\ Sound(FirstOf(G), u, d)
  BY <1>1, <1>2, <1>3, EachIs
<1> QED BY <1>1, <1>2, <1>3, <1>4 DEF Range

\* The gate of the deliverables passes usable evidence without a defect, and no other.
LEMMA WpDeliverablesRight ==
  ASSUME NEW l, LedgerShaped(l)
  PROVE  Right(WpDeliverables(l), "WP_DELIVERABLE_CONSISTENCY", l)
<1> DEFINE u == WellFormed("WP_DELIVERABLE_CONSISTENCY", l)
           d == Defect("WP_DELIVERABLE_CONSISTENCY", l)
           ps == Packages(l)
           ds(i) == Items(Items(ps)[i].deliverables)
           C == [i \in DOMAIN Items(ps) |-> FirstOf(<< PackageId(Items(ps)[i]), Iterated(Items(ps)[i].tasks) >>)]
           T(i) == [j \in DOMAIN ds(i) |-> FirstOf(<< Say(Invalid, ds(i)[j].id = Blank),
                                                      Say(Invalid, EntryRepeated(ps, "deliverables", i, j)),
                                                      RefsChecked(l, ds(i)[j]) >>)]
           F == [i \in DOMAIN Items(ps) |-> IF Items(ps)[i].deliverables = Absent THEN Ok
                                            ELSE FirstOf(<< Say(Invalid, ds(i) = << >>), FirstOf(T(i)) >>)]
<1>1. WpDeliverables(l) = FirstOf(<<Workplan(l), FirstOf(C), FirstOf(F)>>)
  BY DEF WpDeliverables, Each, RefsChecked
<1>2. /\ Items(ps) = ps /\ Listed(ps)
      /\ \A w \in Range(ps) : PackageShaped(w)
  BY PackagesAre
<1>3. u <=> /\ PlanGiven(l) /\ Unique(EntriesOf(l, "deliverables"), "id")
            /\ \A w \in Range(ps) :
                 /\ w.id # Blank /\ w.tasks # Junk
                 /\ w.deliverables = Absent \/ Items(w.deliverables) # << >>
                 /\ \A e \in Range(Items(w.deliverables)) :
                      e.id # Blank /\ \A refs \in Range(e.refs) : refs = Absent \/ Texts(refs)
  <2>1. u <=> /\ PlanUsable(l) /\ EntriesUsable(l, "deliverables")
              /\ \A e \in Range(EntriesOf(l, "deliverables")) :
                   \A refs \in Range(e.refs) : refs = Absent \/ Texts(refs)
    BY DEF WellFormed
  <2>2. EntriesUsable(l, "deliverables") <=>
          /\ \A w \in Range(ps) : w.deliverables = Absent \/ NonEmpty(w.deliverables)
          /\ Unique(EntriesOf(l, "deliverables"), "id")
          /\ \A e \in Range(EntriesOf(l, "deliverables")) : e.id # Blank
    BY DEF EntriesUsable
  <2>3. \A w : NonEmpty(w.deliverables) <=> Items(w.deliverables) # << >>
    BY DEF NonEmpty, Items
  <2>4. \A e : e \in Range(EntriesOf(l, "deliverables")) <=> \E w \in Range(ps) : e \in Range(Items(w.deliverables))
    BY EntriesRange
  <2>5. PlanUsable(l) <=> PlanGiven(l) /\ \A w \in Range(ps) : w.id # Blank /\ w.tasks # Junk
    BY PlanUsableIs
  <2> HIDE DEF u, ps
  <2> QED BY <2>1, <2>2, <2>3, <2>4, <2>5
<1>4. d <=> \E w \in Range(ps) : \E e \in Range(Items(w.deliverables)) : \E refs \in Range(e.refs) :
              \E r \in Range(Items(refs)) : Dangling(r, TaskIds(l))
  <2>1. d <=> \E e \in Range(EntriesOf(l, "deliverables")) : \E refs \in Range(e.refs) :
                \E r \in Range(Items(refs)) : Dangling(r, TaskIds(l))
    BY DEF Defect
  <2>2. \A e : e \in Range(EntriesOf(l, "deliverables")) <=> \E w \in Range(ps) : e \in Range(Items(w.deliverables))
    BY EntriesRange
  <2> QED BY <2>1, <2>2
<1>5. Unique(EntriesOf(l, "deliverables"), "id") <=>
        \A i \in DOMAIN ps : \A j \in DOMAIN Items(ps[i].deliverables) : ~EntryRepeated(ps, "deliverables", i, j)
  <2>1. \A w \in Range(ps) : Listed(w.deliverables)
    BY <1>2 DEF PackageShaped
  <2> QED BY <2>1, UniqueEntries
<1> HIDE DEF u, d
<1>6. \A i \in DOMAIN ps :
        /\ FirstOf(T(i)) = Ok <=>
             \A j \in DOMAIN Items(ps[i].deliverables) :
               /\ Items(ps[i].deliverables)[j].id # Blank
               /\ ~EntryRepeated(ps, "deliverables", i, j)
               /\ \A refs \in Range(Items(ps[i].deliverables)[j].refs) : Resolved(l, refs)
        /\ Sound(FirstOf(T(i)), u, d)
  <2> SUFFICES ASSUME NEW i \in DOMAIN ps
               PROVE  /\ FirstOf(T(i)) = Ok <=>
                           \A j \in DOMAIN ds(i) : /\ ds(i)[j].id # Blank
                                                   /\ ~EntryRepeated(ps, "deliverables", i, j)
                                                   /\ \A refs \in Range(ds(i)[j].refs) : Resolved(l, refs)
                      /\ Sound(FirstOf(T(i)), u, d)
    BY <1>2
  <2> DEFINE list == Items(ps[i].deliverables)
             G == T(i)
  <2>1. ps[i] \in Range(ps) /\ ds(i) = list /\ Listed(ps[i].deliverables)
    BY <1>2 DEF Range, PackageShaped
  <2>2. \A j \in DOMAIN list : /\ G[j] = Ok <=> /\ list[j].id # Blank
                                                /\ ~EntryRepeated(ps, "deliverables", i, j)
                                                /\ \A refs \in Range(list[j].refs) : Resolved(l, refs)
                               /\ Sound(G[j], u, d)
    <3> SUFFICES ASSUME NEW j \in DOMAIN list
                 PROVE  /\ G[j] = Ok <=> /\ list[j].id # Blank
                                         /\ ~EntryRepeated(ps, "deliverables", i, j)
                                         /\ \A refs \in Range(list[j].refs) : Resolved(l, refs)
                        /\ Sound(G[j], u, d)
      OBVIOUS
    <3> DEFINE e == list[j]
               k1 == Say(Invalid, e.id = Blank)
               k2 == Say(Invalid, EntryRepeated(ps, "deliverables", i, j))
               k3 == RefsChecked(l, e)
    <3>1. e \in Range(list)
      BY DEF Range
    <3>2. u => e.id # Blank /\ ~EntryRepeated(ps, "deliverables", i, j)
      BY <1>3, <1>5, <2>1, <3>1
    <3>3. /\ Sound(k1, u, d) /\ Sound(k2, u, d)
          /\ k1 = Ok <=> e.id # Blank
          /\ k2 = Ok <=> ~EntryRepeated(ps, "deliverables", i, j)
      BY <3>2, Said
    <3>4. G[j] = FirstOf(<<k1, k2, k3>>)
      BY <2>1
    <3>5. /\ IsList(e.refs) /\ Listed(e.refs)
          /\ \A refs \in Range(e.refs) : Absent \notin Range(Items(refs))
      BY <1>2, <2>1, <3>1 DEF PackageShaped
    <3>6. /\ u => \A refs \in Range(e.refs) : refs = Absent \/ Texts(refs)
          /\ (\E refs \in Range(e.refs) : \E r \in Range(Items(refs)) : Dangling(r, TaskIds(l))) => d
      BY <1>3, <1>4, <2>1, <3>1
    <3> HIDE DEF k1, k2, G, e
    <3>7. (k3 = Ok <=> \A refs \in Range(e.refs) : Resolved(l, refs)) /\ Sound(k3, u, d)
      BY <3>5, <3>6, RefsAre
    <3> HIDE DEF k3
    <3> QED BY <3>3, <3>4, <3>7, First3 DEF e
  <2>3. DOMAIN G = DOMAIN list
    BY <2>1
  <2> HIDE DEF G
  <2>4. /\ FirstOf(G) = Ok <=> \A j \in DOMAIN list : G[j] = Ok
        /\ Sound(FirstOf(G), u, d)
    BY <2>1, <2>2, <2>3, EachIs
  <2> HIDE DEF list
  <2> QED BY <2>1, <2>2, <2>4 DEF G
<1> HIDE DEF T
<1>7. \A i \in DOMAIN ps :
        /\ F[i] = Ok <=> ps[i].deliverables = Absent \/ (Items(ps[i].deliverables) # << >> /\ FirstOf(T(i)) = Ok)
        /\ Sound(F[i], u, d)
  <2> SUFFICES ASSUME NEW i \in DOMAIN ps
               PROVE  /\ F[i] = Ok <=> \/ ps[i].deliverables = Absent
                                       \/ Items(ps[i].deliverables) # << >> /\ FirstOf(T(i)) = Ok
                      /\ Sound(F[i], u, d)
    OBVIOUS
  <2> DEFINE k1 == Say(Invalid, Items(ps[i].deliverables) = << >>)
             k2 == FirstOf(T(i))
  <2>1. u => ps[i].deliverables = Absent \/ Items(ps[i].deliverables) # << >>
    BY <1>3 DEF Range
  <2>2. ps[i].deliverables # Absent => Sound(k1, u, d) /\ (k1 = Ok <=> Items(ps[i].deliverables) # << >>)
    BY <2>1, Said
  <2>3. F[i] = IF ps[i].deliverables = Absent THEN Ok ELSE FirstOf(<<k1, k2>>)
    BY <1>2
  <2>4. Sound(k2, u, d)
    BY <1>6
  <2> HIDE DEF k1, F, k2
  <2>5. ps[i].deliverables # Absent => Sound(F[i], u, d) /\ (F[i] = Ok <=> k1 = Ok /\ k2 = Ok)
    BY <2>2, <2>3, <2>4, First2
  <2>6. ps[i].deliverables = Absent => Sound(F[i], u, d) /\ F[i] = Ok
    BY <2>3 DEF Sound, Ok, Issue, Missing, Invalid, Raises
  <2> QED BY <2>2, <2>5, <2>6 DEF k2
<1>8. \A i \in DOMAIN ps : /\ C[i] = Ok <=> ps[i].id # Blank /\ ps[i].tasks # Junk
                           /\ Sound(C[i], u, d)
  <2> SUFFICES ASSUME NEW i \in DOMAIN ps
               PROVE  (C[i] = Ok <=> ps[i].id # Blank /\ ps[i].tasks # Junk) /\ Sound(C[i], u, d)
    OBVIOUS
  <2> DEFINE k1 == PackageId(ps[i])
             k2 == Iterated(ps[i].tasks)
  <2>1. u => ps[i].id # Blank /\ ps[i].tasks # Junk
    BY <1>3 DEF Range
  <2>2. /\ Sound(k1, u, d) /\ Sound(k2, u, d)
        /\ k1 = Ok <=> ps[i].id # Blank
        /\ k2 = Ok <=> ps[i].tasks # Junk
    BY <2>1, Said DEF PackageId, Iterated
  <2>3. C[i] = FirstOf(<<k1, k2>>)
    BY <1>2
  <2> HIDE DEF k1, k2, C
  <2> QED BY <2>2, <2>3, First2
<1>9. DOMAIN F = DOMAIN Items(ps) /\ DOMAIN C = DOMAIN Items(ps)
  OBVIOUS
<1> HIDE DEF F, C
<1>10. /\ FirstOf(F) = Ok <=> \A i \in DOMAIN ps : F[i] = Ok
       /\ Sound(FirstOf(F), u, d)
       /\ FirstOf(C) = Ok <=> \A i \in DOMAIN ps : C[i] = Ok
       /\ Sound(FirstOf(C), u, d)
  BY <1>2, <1>7, <1>8, <1>9, EachIs
<1>11. Sound(Workplan(l), u, d) /\ (Workplan(l) = Ok <=> PlanGiven(l))
  BY <1>3, WorkplanIs
<1>12. Workplan(l) = Ok /\ FirstOf(C) = Ok /\ FirstOf(F) = Ok => u /\ ~d
  <2> SUFFICES ASSUME PlanGiven(l), \A i \in DOMAIN ps : F[i] = Ok /\ C[i] = Ok PROVE u /\ ~d
    BY <1>10, <1>11
  <2>1. \A w : w.deliverables = Absent => Items(w.deliverables) = << >>
    BY DEF Items, IsList
  <2>2. \A i \in DOMAIN ps : \A j \in DOMAIN Items(ps[i].deliverables) :
          /\ Items(ps[i].deliverables)[j].id # Blank /\ ~EntryRepeated(ps, "deliverables", i, j)
          /\ \A refs \in Range(Items(ps[i].deliverables)[j].refs) : Resolved(l, refs)
    <3> SUFFICES ASSUME NEW i \in DOMAIN ps, NEW j \in DOMAIN Items(ps[i].deliverables)
                 PROVE  /\ Items(ps[i].deliverables)[j].id # Blank /\ ~EntryRepeated(ps, "deliverables", i, j)
                        /\ \A refs \in Range(Items(ps[i].deliverables)[j].refs) : Resolved(l, refs)
      OBVIOUS
    <3>1. ps[i].deliverables # Absent
      BY <2>1
    <3> QED BY <1>6, <1>7, <3>1
  <2> HIDE DEF ps
  <2>3. Unique(EntriesOf(l, "deliverables"), "id")
    BY <1>5, <2>2
  <2>4. \A w \in Range(ps) :
          /\ w.id # Blank /\ w.tasks # Junk /\ (w.deliverables = Absent \/ Items(w.deliverables) # << >>)
          /\ \A e \in Range(Items(w.deliverables)) : e.id # Blank /\ \A refs \in Range(e.refs) : Resolved(l, refs)
    <3>1. \A i \in DOMAIN ps :
            /\ ps[i].id # Blank /\ ps[i].tasks # Junk
            /\ ps[i].deliverables = Absent \/ Items(ps[i].deliverables) # << >>
      BY <1>7, <1>8
    <3>2. \A i \in DOMAIN ps : \A e \in Range(Items(ps[i].deliverables)) :
            e.id # Blank /\ \A refs \in Range(e.refs) : Resolved(l, refs)
      <4> SUFFICES ASSUME NEW i \in DOMAIN ps, NEW e \in Range(Items(ps[i].deliverables))
                   PROVE  e.id # Blank /\ \A refs \in Range(e.refs) : Resolved(l, refs)
        OBVIOUS
      <4>1. PICK j \in DOMAIN Items(ps[i].deliverables) : e = Items(ps[i].deliverables)[j]
        BY DEF Range
      <4> QED BY <2>2, <4>1
    <3> QED BY <3>1, <3>2 DEF Range
  <2>5. \A refs : Resolved(l, refs) =>
          (refs = Absent \/ Texts(refs)) /\ \A r \in Range(Items(refs)) : ~Dangling(r, TaskIds(l))
    BY DEF Resolved, Items, IsList, Range
  <2>6. u
    BY <1>3, <2>3, <2>4, <2>5
  <2>7. ~d
    BY <1>4, <2>4, <2>5
  <2> QED BY <2>6, <2>7
<1> QED BY <1>1, <1>10, <1>11, <1>12, First3 DEF Right, u, d

\* The verdict of two checks is the second one only after the first passed.
LEMMA First2Is ==
  ASSUME NEW a1, NEW b1
  PROVE  FirstOf(<<a1, b1>>) = IF a1 # Ok THEN a1 ELSE b1
<1> DEFINE s == <<a1, b1>>
<1>1. DOMAIN s = 1..2 /\ s[1] = a1 /\ s[2] = b1
  OBVIOUS
<1>2. 1 \in 1..2 /\ 2 \in 1..2 /\ \A i \in 1..2 : i = 1 \/ i = 2
  OBVIOUS
<1> HIDE DEF s
<1>3. /\ FirstOf(s) = Ok <=> \A i \in 1..2 : s[i] = Ok
      /\ FirstOf(s) # Ok => \E i \in 1..2 : /\ s[i] = FirstOf(s)
                                            /\ \A j \in 1..2 : j < i => s[j] = Ok
  BY <1>1, FirstOfIs
<1> QED BY <1>1, <1>2, <1>3 DEF s

\* A reference of a milestone: absent, or the name of something known.
RefChecked(ref, known) ==
  IF ref = Absent THEN Ok
  ELSE FirstOf(<< Say(Invalid, ref = Blank), Say(Issue, ref \notin known) >>)

\* A single reference passes when it is no blank and names something known.
LEMMA RefIs ==
  ASSUME NEW ref, NEW known, NEW u, NEW d, u => ref # Blank, Dangling(ref, known) => d
  PROVE  /\ RefChecked(ref, known) = Ok <=> ref # Blank /\ ~Dangling(ref, known)
         /\ Sound(RefChecked(ref, known), u, d)
<1> DEFINE k1 == Say(Invalid, ref = Blank)
           k2 == Say(Issue, ref \notin known)
<1>1. RefChecked(ref, known) = IF ref = Absent THEN Ok ELSE IF k1 # Ok THEN k1 ELSE k2
  BY First2Is DEF RefChecked
<1>2. (k1 = Ok <=> ref # Blank) /\ Sound(k1, u, d) /\ (k2 = Ok <=> ref \in known)
  BY Said
<1>3. ref # Absent /\ ref # Blank => Sound(k2, u, d)
  BY Said DEF Dangling
<1>4. Sound(Ok, u, d)
  BY DEF Sound, Ok, Issue, Missing, Invalid, Raises
<1>5. Blank # Absent
  BY LedgerAssumption
<1> HIDE DEF k1, k2
<1> QED BY <1>1, <1>2, <1>3, <1>4, <1>5 DEF Dangling

\* The gate of the milestones passes usable evidence without a defect, and no other.
LEMMA WpMilestonesRight ==
  ASSUME NEW l, LedgerShaped(l)
  PROVE  Right(WpMilestones(l), "WP_MILESTONE_CONSISTENCY", l)
<1> DEFINE u == WellFormed("WP_MILESTONE_CONSISTENCY", l)
           d == Defect("WP_MILESTONE_CONSISTENCY", l)
           ps == Packages(l)
           ms(i) == Items(Items(ps)[i].milestones)
           Whole(e) == Blank \notin {e.wp_ref, e.task_ref, e.deliverable_ref}
           Loose(e) == \/ Dangling(e.wp_ref, {w.id : w \in Range(Packages(l))})
                       \/ Dangling(e.task_ref, TaskIds(l))
                       \/ Dangling(e.deliverable_ref, DeliverableIds(l))
           C == [i \in DOMAIN Items(ps) |-> FirstOf(<< PackageId(Items(ps)[i]), Iterated(Items(ps)[i].tasks),
                                                       Iterated(Items(ps)[i].deliverables) >>)]
           T(i) == [j \in DOMAIN ms(i) |-> FirstOf(<< Say(Invalid, ms(i)[j].id = Blank),
                                                      Say(Invalid, EntryRepeated(ps, "milestones", i, j)),
                                                      RefChecked(ms(i)[j].wp_ref, {w.id : w \in Range(ps)}),
                                                      RefChecked(ms(i)[j].task_ref, TaskIds(l)),
                                                      RefChecked(ms(i)[j].deliverable_ref, DeliverableIds(l)) >>)]
           F == [i \in DOMAIN Items(ps) |-> IF Items(ps)[i].milestones = Absent THEN Ok
                                            ELSE FirstOf(<< Say(Invalid, ms(i) = << >>), FirstOf(T(i)) >>)]
<1>1. WpMilestones(l) = FirstOf(<<Workplan(l), FirstOf(C), FirstOf(F)>>)
  BY DEF WpMilestones, Each, RefChecked
<1>2. /\ Items(ps) = ps /\ Listed(ps)
      /\ \A w \in Range(ps) : PackageShaped(w)
  BY PackagesAre
<1>3. u <=> /\ PlanGiven(l) /\ Unique(EntriesOf(l, "milestones"), "id")
            /\ \A w \in Range(ps) :
                 /\ w.id # Blank /\ w.tasks # Junk /\ w.deliverables # Junk
                 /\ w.milestones = Absent \/ Items(w.milestones) # << >>
                 /\ \A e \in Range(Items(w.milestones)) :
                      e.id # Blank /\ Whole(e)
  <2>1. u <=> /\ PlanUsable(l) /\ EntriesUsable(l, "milestones")
              /\ \A w \in Range(ps) : w.deliverables # Junk
              /\ \A e \in Range(EntriesOf(l, "milestones")) : Whole(e)
    BY DEF WellFormed
  <2>2. EntriesUsable(l, "milestones") <=>
          /\ \A w \in Range(ps) : w.milestones = Absent \/ NonEmpty(w.milestones)
          /\ Unique(EntriesOf(l, "milestones"), "id")
          /\ \A e \in Range(EntriesOf(l, "milestones")) : e.id # Blank
    BY DEF EntriesUsable
  <2>3. \A w : NonEmpty(w.milestones) <=> Items(w.milestones) # << >>
    BY DEF NonEmpty, Items
  <2>4. \A e : e \in Range(EntriesOf(l, "milestones")) <=> \E w \in Range(ps) : e \in Range(Items(w.milestones))
    BY EntriesRange
  <2>5. PlanUsable(l) <=> PlanGiven(l) /\ \A w \in Range(ps) : w.id # Blank /\ w.tasks # Junk
    BY PlanUsableIs
  <2> HIDE DEF u, ps, Whole
  <2> QED BY <2>1, <2>2, <2>3, <2>4, <2>5
<1>4. d <=> \E w \in Range(ps) : \E e \in Range(Items(w.milestones)) : Loose(e)
  <2>1. d <=> \E e \in Range(EntriesOf(l, "milestones")) : Loose(e)
    BY DEF Defect
  <2>2. \A e : e \in Range(EntriesOf(l, "milestones")) <=> \E w \in Range(ps) : e \in Range(Items(w.milestones))
    BY EntriesRange
  <2> HIDE DEF d, Loose
  <2> QED BY <2>1, <2>2
<1>5. Unique(EntriesOf(l, "milestones"), "id") <=>
        \A i \in DOMAIN ps : \A j \in DOMAIN Items(ps[i].milestones) : ~EntryRepeated(ps, "milestones", i, j)
  <2>1. \A w \in Range(ps) : Listed(w.milestones)
    BY <1>2 DEF PackageShaped
  <2> QED BY <2>1, UniqueEntries
<1> HIDE DEF u, d, Whole, Loose
<1>6. \A i \in DOMAIN ps :
        /\ FirstOf(T(i)) = Ok <=>
             \A j \in DOMAIN Items(ps[i].milestones) :
               /\ Items(ps[i].milestones)[j].id # Blank
               /\ ~EntryRepeated(ps, "milestones", i, j)
               /\ Whole(Items(ps[i].milestones)[j]) /\ ~Loose(Items(ps[i].milestones)[j])
        /\ Sound(FirstOf(T(i)), u, d)
  <2> SUFFICES ASSUME NEW i \in DOMAIN ps
               PROVE  /\ FirstOf(T(i)) = Ok <=>
                           \A j \in DOMAIN ms(i) : /\ ms(i)[j].id # Blank
                                                   /\ ~EntryRepeated(ps, "milestones", i, j)
                                                   /\ Whole(ms(i)[j]) /\ ~Loose(ms(i)[j])
                      /\ Sound(FirstOf(T(i)), u, d)
    BY <1>2
  <2> DEFINE list == Items(ps[i].milestones)
             G == T(i)
  <2>1. ps[i] \in Range(ps) /\ ms(i) = list /\ Listed(ps[i].milestones)
    BY <1>2 DEF Range, PackageShaped
  <2>2. \A j \in DOMAIN list : /\ G[j] = Ok <=> /\ list[j].id # Blank
                                                /\ ~EntryRepeated(ps, "milestones", i, j)
                                                /\ Whole(list[j]) /\ ~Loose(list[j])
                               /\ Sound(G[j], u, d)
    <3> SUFFICES ASSUME NEW j \in DOMAIN list
                 PROVE  /\ G[j] = Ok <=> /\ list[j].id # Blank
                                         /\ ~EntryRepeated(ps, "milestones", i, j)
                                         /\ Whole(list[j]) /\ ~Loose(list[j])
                        /\ Sound(G[j], u, d)
      OBVIOUS
    <3> DEFINE e == list[j]
               k1 == Say(Invalid, e.id = Blank)
               k2 == Say(Invalid, EntryRepeated(ps, "milestones", i, j))
               k3 == RefChecked(e.wp_ref, {w.id : w \in Range(ps)})
               k4 == RefChecked(e.task_ref, TaskIds(l))
               k5 == RefChecked(e.deliverable_ref, DeliverableIds(l))
    <3>1. e \in Range(list)
      BY DEF Range
    <3>2. u => e.id # Blank /\ ~EntryRepeated(ps, "milestones", i, j)
      BY <1>3, <1>5, <2>1, <3>1
    <3>3. /\ Sound(k1, u, d) /\ Sound(k2, u, d)
          /\ k1 = Ok <=> e.id # Blank
          /\ k2 = Ok <=> ~EntryRepeated(ps, "milestones", i, j)
      BY <3>2, Said
    <3>4. G[j] = FirstOf(<<k1, k2, k3, k4, k5>>)
      BY <2>1
    <3>5. (u => Whole(e)) /\ (Loose(e) => d)
      BY <1>3, <1>4, <2>1, <3>1
    <3> HIDE DEF k1, k2, G, e
    <3>6. /\ Sound(k3, u, d) /\ (k3 = Ok <=> e.wp_ref # Blank /\ ~Dangling(e.wp_ref, {w.id : w \in Range(ps)}))
          /\ Sound(k4, u, d) /\ (k4 = Ok <=> e.task_ref # Blank /\ ~Dangling(e.task_ref, TaskIds(l)))
          /\ Sound(k5, u, d)
          /\ k5 = Ok <=> e.deliverable_ref # Blank /\ ~Dangling(e.deliverable_ref, DeliverableIds(l))
      BY <3>5, RefIs DEF Whole, Loose
    <3> HIDE DEF k3, k4, k5
    <3>7. /\ G[j] = Ok <=> k1 = Ok /\ k2 = Ok /\ k3 = Ok /\ k4 = Ok /\ k5 = Ok
          /\ Sound(G[j], u, d)
      BY <3>3, <3>4, <3>6, First5
    <3>8. k3 = Ok /\ k4 = Ok /\ k5 = Ok <=> Whole(e) /\ ~Loose(e)
      BY <3>6 DEF Whole, Loose
    <3> QED BY <3>3, <3>7, <3>8 DEF e
  <2>3. DOMAIN G = DOMAIN list
    BY <2>1
  <2> HIDE DEF G
  <2>4. /\ FirstOf(G) = Ok <=> \A j \in DOMAIN list : G[j] = Ok
        /\ Sound(FirstOf(G), u, d)
    BY <2>1, <2>2, <2>3, EachIs
  <2> HIDE DEF list
  <2> QED BY <2>1, <2>2, <2>4 DEF G
<1> HIDE DEF T
<1>7. \A i \in DOMAIN ps :
        /\ F[i] = Ok <=> ps[i].milestones = Absent \/ (Items(ps[i].milestones) # << >> /\ FirstOf(T(i)) = Ok)
        /\ Sound(F[i], u, d)
  <2> SUFFICES ASSUME NEW i \in DOMAIN ps
               PROVE  /\ F[i] = Ok <=> \/ ps[i].milestones = Absent
                                       \/ Items(ps[i].milestones) # << >> /\ FirstOf(T(i)) = Ok
                      /\ Sound(F[i], u, d)
    OBVIOUS
  <2> DEFINE k1 == Say(Invalid, Items(ps[i].milestones) = << >>)
             k2 == FirstOf(T(i))
  <2>1. u => ps[i].milestones = Absent \/ Items(ps[i].milestones) # << >>
    BY <1>3 DEF Range
  <2>2. ps[i].milestones # Absent => Sound(k1, u, d) /\ (k1 = Ok <=> Items(ps[i].milestones) # << >>)
    BY <2>1, Said
  <2>3. F[i] = IF ps[i].milestones = Absent THEN Ok ELSE FirstOf(<<k1, k2>>)
    BY <1>2
  <2>4. Sound(k2, u, d)
    BY <1>6
  <2> HIDE DEF k1, F, k2
  <2>5. ps[i].milestones # Absent => Sound(F[i], u, d) /\ (F[i] = Ok <=> k1 = Ok /\ k2 = Ok)
    BY <2>2, <2>3, <2>4, First2
  <2>6. ps[i].milestones = Absent => Sound(F[i], u, d) /\ F[i] = Ok
    BY <2>3 DEF Sound, Ok, Issue, Missing, Invalid, Raises
  <2> QED BY <2>2, <2>5, <2>6 DEF k2
<1>8. \A i \in DOMAIN ps : /\ C[i] = Ok <=> ps[i].id # Blank /\ ps[i].tasks # Junk /\ ps[i].deliverables # Junk
                           /\ Sound(C[i], u, d)
  <2> SUFFICES ASSUME NEW i \in DOMAIN ps
               PROVE  (C[i] = Ok <=> ps[i].id # Blank /\ ps[i].tasks # Junk /\ ps[i].deliverables # Junk) /\ Sound(C[i], u, d)
    OBVIOUS
  <2> DEFINE k1 == PackageId(ps[i])
             k2 == Iterated(ps[i].tasks)
             k3 == Iterated(ps[i].deliverables)
  <2>1. u => ps[i].id # Blank /\ ps[i].tasks # Junk /\ ps[i].deliverables # Junk
    BY <1>3 DEF Range
  <2>2. /\ Sound(k1, u, d) /\ Sound(k2, u, d) /\ Sound(k3, u, d)
        /\ k1 = Ok <=> ps[i].id # Blank
        /\ k2 = Ok <=> ps[i].tasks # Junk
        /\ k3 = Ok <=> ps[i].deliverables # Junk
    BY <2>1, Said DEF PackageId, Iterated
  <2>3. C[i] = FirstOf(<<k1, k2, k3>>)
    BY <1>2
  <2> HIDE DEF k1, k2, k3, C
  <2> QED BY <2>2, <2>3, First3
<1>9. DOMAIN F = DOMAIN Items(ps) /\ DOMAIN C = DOMAIN Items(ps)
  OBVIOUS
<1> HIDE DEF F, C
<1>10. /\ FirstOf(F) = Ok <=> \A i \in DOMAIN ps : F[i] = Ok
       /\ Sound(FirstOf(F), u, d)
       /\ FirstOf(C) = Ok <=> \A i \in DOMAIN ps : C[i] = Ok
       /\ Sound(FirstOf(C), u, d)
  BY <1>2, <1>7, <1>8, <1>9, EachIs
<1>11. Sound(Workplan(l), u, d) /\ (Workplan(l) = Ok <=> PlanGiven(l))
  BY <1>3, WorkplanIs
<1>12. Workplan(l) = Ok /\ FirstOf(C) = Ok /\ FirstOf(F) = Ok => u /\ ~d
  <2> SUFFICES ASSUME PlanGiven(l), \A i \in DOMAIN ps : F[i] = Ok /\ C[i] = Ok PROVE u /\ ~d
    BY <1>10, <1>11
  <2>1. \A w : w.milestones = Absent => Items(w.milestones) = << >>
    BY DEF Items, IsList
  <2>2. \A i \in DOMAIN ps : \A j \in DOMAIN Items(ps[i].milestones) :
          /\ Items(ps[i].milestones)[j].id # Blank /\ ~EntryRepeated(ps, "milestones", i, j)
          /\ Whole(Items(ps[i].milestones)[j]) /\ ~Loose(Items(ps[i].milestones)[j])
    <3> SUFFICES ASSUME NEW i \in DOMAIN ps, NEW j \in DOMAIN Items(ps[i].milestones)
                 PROVE  /\ Items(ps[i].milestones)[j].id # Blank /\ ~EntryRepeated(ps, "milestones", i, j)
                        /\ Whole(Items(ps[i].milestones)[j]) /\ ~Loose(Items(ps[i].milestones)[j])
      OBVIOUS
    <3>1. ps[i].milestones # Absent
      BY <2>1
    <3> QED BY <1>6, <1>7, <3>1
  <2> HIDE DEF ps
  <2>3. Unique(EntriesOf(l, "milestones"), "id")
    BY <1>5, <2>2
  <2>4. \A w \in Range(ps) :
          /\ w.id # Blank /\ w.tasks # Junk /\ w.deliverables # Junk /\ (w.milestones = Absent \/ Items(w.milestones) # << >>)
          /\ \A e \in Range(Items(w.milestones)) : e.id # Blank /\ Whole(e) /\ ~Loose(e)
    <3>1. \A i \in DOMAIN ps :
            /\ ps[i].id # Blank /\ ps[i].tasks # Junk /\ ps[i].deliverables # Junk
            /\ ps[i].milestones = Absent \/ Items(ps[i].milestones) # << >>
      BY <1>7, <1>8
    <3>2. \A i \in DOMAIN ps : \A e \in Range(Items(ps[i].milestones)) :
            e.id # Blank /\ Whole(e) /\ ~Loose(e)
      <4> SUFFICES ASSUME NEW i \in DOMAIN ps, NEW e \in Range(Items(ps[i].milestones))
                   PROVE  e.id # Blank /\ Whole(e) /\ ~Loose(e)
        OBVIOUS
      <4>1. PICK j \in DOMAIN Items(ps[i].milestones) : e = Items(ps[i].milestones)[j]
        BY DEF Range
      <4> QED BY <2>2, <4>1
    <3> QED BY <3>1, <3>2 DEF Range
  <2>5. u
    BY <1>3, <2>3, <2>4
  <2>6. ~d
    BY <1>4, <2>4
  <2> QED BY <2>5, <2>6
<1> QED BY <1>1, <1>10, <1>11, <1>12, First3 DEF Right, u, d

\* The gate of the person months passes usable evidence without a defect, and no other.
LEMMA PersonMonthsRight ==
  ASSUME NEW l, LedgerShaped(l)
  PROVE  Right(PersonMonths(l), "PERSON_MONTH_CONSISTENCY", l)
<1> DEFINE u == WellFormed("PERSON_MONTH_CONSISTENCY", l)
           d == Defect("PERSON_MONTH_CONSISTENCY", l)
           ps == Packages(l)
           total == l.workplan.total
           sum == Sum([i \in DOMAIN ps |-> ps[i].person_months])
           Uneven(w) == TaskMonths(w) # << >> /\ Sum(TaskMonths(w)) # w.person_months
           ts(i) == Items(Items(ps)[i].tasks)
           T(i) == [j \in DOMAIN ts(i) |-> Optional(ts(i)[j].person_months)]
           F == [i \in DOMAIN Items(ps) |-> FirstOf(<< PackageId(Items(ps)[i]), Amount(Items(ps)[i].person_months),
                                                       Iterated(Items(ps)[i].tasks), FirstOf(T(i)),
                                                       Say(Issue, Uneven(Items(ps)[i])) >>)]
           c3 == Optional(total)
           c4 == Say(Issue, total \notin {Absent, sum})
           Months(w) == \A t \in Range(Items(w.tasks)) : t.person_months = Absent \/ Number(t.person_months)
<1>1. PersonMonths(l) = FirstOf(<<Workplan(l), FirstOf(F), c3, c4>>)
  BY DEF PersonMonths, Each
<1>2. Items(ps) = ps /\ Listed(ps) /\ \A w \in Range(ps) : PackageShaped(w)
  BY PackagesAre
<1>3. u <=> /\ PlanGiven(l)
            /\ \A w \in Range(ps) : w.id # Blank /\ w.tasks # Junk /\ Number(w.person_months) /\ Months(w)
            /\ total = Absent \/ Number(total)
  <2>1. u <=> /\ PlanUsable(l)
              /\ \A w \in Range(ps) : Number(w.person_months)
              /\ \A t \in Range(EntriesOf(l, "tasks")) : t.person_months = Absent \/ Number(t.person_months)
              /\ total = Absent \/ Number(total)
    BY DEF WellFormed
  <2>2. \A e : e \in Range(EntriesOf(l, "tasks")) <=> \E w \in Range(ps) : e \in Range(Items(w.tasks))
    BY EntriesRange
  <2>3. PlanUsable(l) <=> PlanGiven(l) /\ \A w \in Range(ps) : w.id # Blank /\ w.tasks # Junk
    BY PlanUsableIs
  <2> HIDE DEF u, ps
  <2> QED BY <2>1, <2>2, <2>3
<1>4. d <=> (\E w \in Range(ps) : Uneven(w)) \/ total \notin {Absent, sum}
  BY DEF Defect
<1> HIDE DEF u, d, Uneven, sum
<1>5. \A i \in DOMAIN ps : (FirstOf(T(i)) = Ok <=> Months(ps[i])) /\ Sound(FirstOf(T(i)), u, d)
  <2> SUFFICES ASSUME NEW i \in DOMAIN ps
               PROVE  (FirstOf(T(i)) = Ok <=> Months(ps[i])) /\ Sound(FirstOf(T(i)), u, d)
    OBVIOUS
  <2> DEFINE list == Items(ps[i].tasks)
             G == T(i)
  <2>1. ps[i] \in Range(ps) /\ ts(i) = list /\ Listed(ps[i].tasks)
    BY <1>2 DEF Range, PackageShaped
  <2>2. \A j \in DOMAIN list : /\ G[j] = Ok <=> list[j].person_months = Absent \/ Number(list[j].person_months)
                               /\ Sound(G[j], u, d)
    <3> SUFFICES ASSUME NEW j \in DOMAIN list
                 PROVE  /\ G[j] = Ok <=> list[j].person_months = Absent \/ Number(list[j].person_months)
                        /\ Sound(G[j], u, d)
      OBVIOUS
    <3>1. list[j] \in Range(list)
      BY DEF Range
    <3>2. Numeric(list[j].person_months)
      BY <1>2, <2>1, <3>1 DEF PackageShaped
    <3>3. u => list[j].person_months = Absent \/ Number(list[j].person_months)
      BY <1>3, <2>1, <3>1
    <3>4. G[j] = Optional(list[j].person_months)
      BY <2>1
    <3> HIDE DEF G, list
    <3> QED BY <3>2, <3>3, <3>4, AmountIs
  <2>3. DOMAIN G = DOMAIN list
    BY <2>1
  <2> HIDE DEF G
  <2>4. /\ FirstOf(G) = Ok <=> \A j \in DOMAIN list : G[j] = Ok
        /\ Sound(FirstOf(G), u, d)
    BY <2>1, <2>2, <2>3, EachIs
  <2>5. (\A j \in DOMAIN list : G[j] = Ok) <=> Months(ps[i])
    <3>1. Months(ps[i]) <=> \A j \in DOMAIN list : list[j].person_months = Absent \/ Number(list[j].person_months)
      BY DEF Range
    <3> HIDE DEF Months, list
    <3> QED BY <2>2, <3>1
  <2> QED BY <2>4, <2>5 DEF G
<1> HIDE DEF T, Months
<1>6. \A i \in DOMAIN ps :
        /\ F[i] = Ok <=> /\ ps[i].id # Blank /\ ps[i].tasks # Junk /\ Number(ps[i].person_months)
                         /\ Months(ps[i]) /\ ~Uneven(ps[i])
        /\ Sound(F[i], u, d)
  <2> SUFFICES ASSUME NEW i \in DOMAIN ps
               PROVE  /\ F[i] = Ok <=> /\ ps[i].id # Blank /\ ps[i].tasks # Junk /\ Number(ps[i].person_months)
                                       /\ Months(ps[i]) /\ ~Uneven(ps[i])
                      /\ Sound(F[i], u, d)
    OBVIOUS
  <2> DEFINE w == ps[i]
             k1 == PackageId(w)
             k2 == Amount(w.person_months)
             k3 == Iterated(w.tasks)
             k4 == FirstOf(T(i))
             k5 == Say(Issue, Uneven(w))
  <2>1. w \in Range(ps)
    BY DEF Range
  <2>2. /\ u => w.id # Blank /\ w.tasks # Junk /\ Number(w.person_months)
        /\ Uneven(w) => d
        /\ Numeric(w.person_months)
    BY <1>2, <1>3, <1>4, <2>1 DEF PackageShaped
  <2>3. F[i] = FirstOf(<<k1, k2, k3, k4, k5>>)
    BY <1>2
  <2>4. (k4 = Ok <=> Months(w)) /\ Sound(k4, u, d)
    BY <1>5
  <2> HIDE DEF w, k4, F
  <2>5. /\ Sound(k1, u, d) /\ Sound(k3, u, d) /\ Sound(k5, u, d)
        /\ k1 = Ok <=> w.id # Blank
        /\ k3 = Ok <=> w.tasks # Junk
        /\ k5 = Ok <=> ~Uneven(w)
    BY <2>2, Said DEF PackageId, Iterated
  <2>6. Sound(k2, u, d) /\ (k2 = Ok <=> Number(w.person_months))
    BY <2>2, AmountIs
  <2> HIDE DEF k1, k2, k3, k5
  <2>7. /\ F[i] = Ok <=> k1 = Ok /\ k2 = Ok /\ k3 = Ok /\ k4 = Ok /\ k5 = Ok
        /\ Sound(F[i], u, d)
    BY <2>3, <2>4, <2>5, <2>6, First5
  <2> QED BY <2>4, <2>5, <2>6, <2>7 DEF w
<1>7. DOMAIN F = DOMAIN Items(ps)
  OBVIOUS
<1> HIDE DEF F
<1>8. /\ FirstOf(F) = Ok <=> \A i \in DOMAIN ps : F[i] = Ok
      /\ Sound(FirstOf(F), u, d)
  BY <1>2, <1>6, <1>7, EachIs
<1>9. Sound(Workplan(l), u, d) /\ (Workplan(l) = Ok <=> PlanGiven(l))
  BY <1>3, WorkplanIs
<1>10. Sound(c3, u, d) /\ (c3 = Ok <=> total = Absent \/ Number(total))
  <2>1. Numeric(total)
    BY DEF LedgerShaped
  <2> QED BY <1>3, <2>1, AmountIs
<1>11. Sound(c4, u, d) /\ (c4 = Ok <=> total \in {Absent, sum})
  BY <1>4, Said
<1> HIDE DEF c3, c4
<1>12. Workplan(l) = Ok /\ FirstOf(F) = Ok /\ c3 = Ok /\ c4 = Ok => u /\ ~d
  <2> SUFFICES ASSUME PlanGiven(l), \A i \in DOMAIN ps : F[i] = Ok,
                      total = Absent \/ Number(total), total \in {Absent, sum}
               PROVE  u /\ ~d
    BY <1>8, <1>9, <1>10, <1>11
  <2>1. \A i \in DOMAIN ps : /\ ps[i].id # Blank /\ ps[i].tasks # Junk /\ Number(ps[i].person_months)
                             /\ Months(ps[i]) /\ ~Uneven(ps[i])
    BY <1>6
  <2> HIDE DEF ps
  <2>2. \A w \in Range(ps) : /\ w.id # Blank /\ w.tasks # Junk /\ Number(w.person_months)
                             /\ Months(w) /\ ~Uneven(w)
    BY <2>1 DEF Range
  <2> QED BY <1>3, <1>4, <2>2
<1> QED BY <1>1, <1>8, <1>9, <1>10, <1>11, <1>12, First4 DEF Right, u, d

\* The gate of the subcontracting passes usable evidence without a defect, and no other.
LEMMA SubcontractingRight ==
  ASSUME NEW l, LedgerShaped(l)
  PROVE  Right(Subcontracting(l), "SUBCONTRACTING_CORE_TASKS", l)
<1> DEFINE u == WellFormed("SUBCONTRACTING_CORE_TASKS", l)
           d == Defect("SUBCONTRACTING_CORE_TASKS", l)
           ps == Packages(l)
           es == Items(l.subcontracting.entries)
           C == [i \in DOMAIN Items(ps) |-> Iterated(Items(ps)[i].tasks)]
           F == [i \in DOMAIN es |-> FirstOf(<< Say(Invalid, es[i].id = Blank),
                                                Say(Invalid, es[i].id \notin TaskIds(l)),
                                                Say(Invalid, ~es[i].subcontracted),
                                                Say(Issue, es[i].core_task),
                                                Say(Issue, es[i].justification = Blank) >>)]
           c1 == Say(Missing, l.subcontracting.state = "absent")
           c2 == Say(Invalid, ~IsList(l.subcontracting.entries))
           c3 == IF es = << >> THEN Ok ELSE FirstOf(<<Workplan(l), FirstOf(C), FirstOf(F)>>)
           PlanFits == PlanGiven(l) /\ \A w \in Range(ps) : w.tasks # Junk
<1>1. Subcontracting(l) = FirstOf(<<c1, c2, c3>>)
  BY DEF Subcontracting, Each
<1>2. /\ Items(ps) = ps /\ Listed(ps) /\ Listed(l.subcontracting.entries)
      /\ l.subcontracting.state \in {"present", "absent"}
      /\ PlanGiven(l) => ps = l.workplan.packages
  BY PackagesAre DEF LedgerShaped
<1>3. u <=> /\ l.subcontracting.state = "present" /\ IsList(l.subcontracting.entries)
            /\ es # << >> => PlanFits /\ \A e \in Range(es) : e.id \in TaskIds(l) /\ e.subcontracted
  <2>1. u <=> /\ l.subcontracting.state = "present" /\ IsList(l.subcontracting.entries)
              /\ l.subcontracting.entries # << >> =>
                   /\ l.workplan.state = "present" /\ NonEmpty(l.workplan.packages)
                   /\ \A w \in Range(l.workplan.packages) : w.id # Junk /\ w.tasks # Junk
                   /\ \A e \in Range(l.subcontracting.entries) : e.id \in TaskIds(l) /\ e.subcontracted
    BY DEF WellFormed
  <2>2. IsList(l.subcontracting.entries) => es = l.subcontracting.entries
    BY DEF Items
  <2>3. PlanFits <=> /\ l.workplan.state = "present" /\ NonEmpty(l.workplan.packages)
                     /\ \A w \in Range(l.workplan.packages) : w.id # Junk /\ w.tasks # Junk
    BY <1>2 DEF PlanGiven
  <2> HIDE DEF u, es, PlanFits
  <2> QED BY <2>1, <2>2, <2>3
<1>4. d <=> \E e \in Range(es) : e.core_task \/ e.justification = Blank
  BY DEF Defect
<1>5. Blank \notin TaskIds(l)
  BY DEF TaskIds, Named
<1> HIDE DEF u, d
<1>6. es # << >> =>
        /\ Sound(FirstOf(F), u, d)
        /\ FirstOf(F) = Ok <=> \A e \in Range(es) : /\ e.id \in TaskIds(l) /\ e.subcontracted
                                                    /\ ~e.core_task /\ e.justification # Blank
  <2> SUFFICES ASSUME es # << >>
               PROVE  /\ Sound(FirstOf(F), u, d)
                      /\ FirstOf(F) = Ok <=> \A e \in Range(es) : /\ e.id \in TaskIds(l) /\ e.subcontracted
                                                                  /\ ~e.core_task /\ e.justification # Blank
    OBVIOUS
  <2>1. \A i \in DOMAIN es : /\ F[i] = Ok <=> /\ es[i].id \in TaskIds(l) /\ es[i].subcontracted
                                              /\ ~es[i].core_task /\ es[i].justification # Blank
                             /\ Sound(F[i], u, d)
    <3> SUFFICES ASSUME NEW i \in DOMAIN es
                 PROVE  /\ F[i] = Ok <=> /\ es[i].id \in TaskIds(l) /\ es[i].subcontracted
                                         /\ ~es[i].core_task /\ es[i].justification # Blank
                        /\ Sound(F[i], u, d)
      OBVIOUS
    <3> DEFINE e == es[i]
               k1 == Say(Invalid, e.id = Blank)
               k2 == Say(Invalid, e.id \notin TaskIds(l))
               k3 == Say(Invalid, ~e.subcontracted)
               k4 == Say(Issue, e.core_task)
               k5 == Say(Issue, e.justification = Blank)
    <3>1. /\ u => e.id \in TaskIds(l) /\ e.subcontracted
          /\ e.core_task \/ e.justification = Blank => d
      BY <1>3, <1>4 DEF Range
    <3>2. F[i] = FirstOf(<<k1, k2, k3, k4, k5>>)
      OBVIOUS
    <3> HIDE DEF e, F
    <3>3. /\ Sound(k1, u, d) /\ Sound(k2, u, d) /\ Sound(k3, u, d) /\ Sound(k4, u, d) /\ Sound(k5, u, d)
          /\ k1 = Ok <=> e.id # Blank
          /\ k2 = Ok <=> e.id \in TaskIds(l)
          /\ k3 = Ok <=> e.subcontracted
          /\ k4 = Ok <=> ~e.core_task
          /\ k5 = Ok <=> e.justification # Blank
      BY <1>5, <3>1, Said
    <3> HIDE DEF k1, k2, k3, k4, k5
    <3>4. /\ F[i] = Ok <=> k1 = Ok /\ k2 = Ok /\ k3 = Ok /\ k4 = Ok /\ k5 = Ok
          /\ Sound(F[i], u, d)
      BY <3>2, <3>3, First5
    <3> QED BY <1>5, <3>3, <3>4 DEF e
  <2>2. DOMAIN F = DOMAIN es
    OBVIOUS
  <2> HIDE DEF F
  <2>3. /\ FirstOf(F) = Ok <=> \A i \in DOMAIN es : F[i] = Ok
        /\ Sound(FirstOf(F), u, d)
    BY <1>2, <2>1, <2>2, EachIs
  <2> HIDE DEF es
  <2>4. (\A i \in DOMAIN es : F[i] = Ok) <=> \A e \in Range(es) : /\ e.id \in TaskIds(l) /\ e.subcontracted
                                                                /\ ~e.core_task /\ e.justification # Blank
    BY <2>1 DEF Range
  <2> QED BY <2>3, <2>4
<1>7. es # << >> => /\ Sound(FirstOf(C), u, d)
                    /\ FirstOf(C) = Ok <=> \A w \in Range(ps) : w.tasks # Junk
  <2> SUFFICES ASSUME es # << >>
               PROVE  /\ Sound(FirstOf(C), u, d)
                      /\ FirstOf(C) = Ok <=> \A w \in Range(ps) : w.tasks # Junk
    OBVIOUS
  <2>1. \A i \in DOMAIN ps : (C[i] = Ok <=> ps[i].tasks # Junk) /\ Sound(C[i], u, d)
    <3> SUFFICES ASSUME NEW i \in DOMAIN ps
                 PROVE  (C[i] = Ok <=> ps[i].tasks # Junk) /\ Sound(C[i], u, d)
      OBVIOUS
    <3>1. u => ps[i].tasks # Junk
      BY <1>3 DEF Range
    <3>2. C[i] = Iterated(ps[i].tasks)
      BY <1>2
    <3> HIDE DEF C
    <3> QED BY <3>1, <3>2, Said DEF Iterated
  <2>2. DOMAIN C = DOMAIN Items(ps)
    OBVIOUS
  <2> HIDE DEF C
  <2>3. /\ FirstOf(C) = Ok <=> \A i \in DOMAIN ps : C[i] = Ok
        /\ Sound(FirstOf(C), u, d)
    BY <1>2, <2>1, <2>2, EachIs
  <2> HIDE DEF ps
  <2> QED BY <2>1, <2>3 DEF Range
<1> HIDE DEF C, F
<1>8. es # << >> => Sound(Workplan(l), u, d) /\ (Workplan(l) = Ok <=> PlanGiven(l))
  BY <1>3, WorkplanIs
<1>9. /\ Sound(c3, u, d)
      /\ c3 = Ok <=> \/ es = << >>
                     \/ /\ PlanFits
                        /\ \A e \in Range(es) : /\ e.id \in TaskIds(l) /\ e.subcontracted
                                                /\ ~e.core_task /\ e.justification # Blank
  <2>1. CASE es = << >>
    BY <2>1 DEF Sound, Ok, Issue, Missing, Invalid, Raises
  <2>2. CASE es # << >>
    <3>1. /\ c3 = Ok <=> Workplan(l) = Ok /\ FirstOf(C) = Ok /\ FirstOf(F) = Ok
          /\ Sound(c3, u, d)
      BY <1>6, <1>7, <1>8, <2>2, First3
    <3> QED BY <1>6, <1>7, <1>8, <2>2, <3>1
  <2> QED BY <2>1, <2>2
<1> HIDE DEF c3
<1>10. Sound(c1, u, d) /\ Sound(c2, u, d)
  BY <1>3, Said
<1>11. c1 = Ok /\ c2 = Ok /\ c3 = Ok => u /\ ~d
  <2>1. c1 = Ok /\ c2 = Ok => l.subcontracting.state = "present" /\ IsList(l.subcontracting.entries)
    BY <1>2, Said
  <2>2. es = << >> => Range(es) = {}
    BY DEF Range
  <2> HIDE DEF es, PlanFits, c1, c2
  <2> QED BY <1>3, <1>4, <1>9, <2>1, <2>2
<1> HIDE DEF c1, c2
<1> QED BY <1>1, <1>9, <1>10, <1>11, First3 DEF Right, u, d

-----------------------------------------------------------------------------
(* All fourteen gates, and the run over them *)

\* The gates, in their canonical order.
LEMMA GateIds ==
  /\ DOMAIN HARD_GATE_IDS = 1..14 /\ Len(HARD_GATE_IDS) = 14
  /\ Range(HARD_GATE_IDS) =
       {"MANDATORY_SECTIONS", "CHALLENGE_MAPPING", "SOURCE_OF_TRUTH_INTEGRITY",
        "UNVERIFIED_CLAIMS", "CITATION_VERIFICATION", "TERMINOLOGY_CONSISTENCY",
        "WP_TASK_CONSISTENCY", "WP_DELIVERABLE_CONSISTENCY",
        "WP_MILESTONE_CONSISTENCY", "PERSON_MONTH_CONSISTENCY",
        "BUDGET_CONSISTENCY", "SUBCONTRACTING_CORE_TASKS", "PAGE_LIMIT",
        "INTERNAL_CONTRADICTIONS"}
<1>1. DOMAIN HARD_GATE_IDS = 1..14 /\ Len(HARD_GATE_IDS) = 14
  BY DEF HARD_GATE_IDS
<1>2. \A k \in 1..14 : \/ k = 1 \/ k = 2 \/ k = 3 \/ k = 4 \/ k = 5 \/ k = 6 \/ k = 7
                       \/ k = 8 \/ k = 9 \/ k = 10 \/ k = 11 \/ k = 12 \/ k = 13 \/ k = 14
  OBVIOUS
<1>3. Range(HARD_GATE_IDS) = {HARD_GATE_IDS[k] : k \in 1..14}
  BY <1>1 DEF Range
<1>4. {HARD_GATE_IDS[k] : k \in 1..14} =
        {HARD_GATE_IDS[1], HARD_GATE_IDS[2], HARD_GATE_IDS[3], HARD_GATE_IDS[4], HARD_GATE_IDS[5],
         HARD_GATE_IDS[6], HARD_GATE_IDS[7], HARD_GATE_IDS[8], HARD_GATE_IDS[9], HARD_GATE_IDS[10],
         HARD_GATE_IDS[11], HARD_GATE_IDS[12], HARD_GATE_IDS[13], HARD_GATE_IDS[14]}
  BY <1>2
<1> QED BY <1>1, <1>3, <1>4 DEF HARD_GATE_IDS

\* What the verdict of a gate says.
Judged(g, l) ==
  /\ Validate(g, l) \in {Ok, Issue, Missing, Invalid, Raises, "WARN"}
  /\ Validate(g, l) = Ok => /\ WellFormed(g, l) /\ ~Defect(g, l)
                            /\ g = "PAGE_LIMIT" => l.pages.method # "estimate"
  /\ Validate(g, l) = Issue => Defect(g, l)
  /\ Validate(g, l) \in {Missing, Invalid, Raises} => ~WellFormed(g, l)
  /\ Validate(g, l) = "WARN" => g = "PAGE_LIMIT" /\ l.pages.method = "estimate" /\ ~Defect(g, l)

\* Whatever the gate, its verdict has its ground in the ledger.
LEMMA GatesJudge ==
  ASSUME NEW l, LedgerShaped(l), NEW g \in Range(HARD_GATE_IDS)
  PROVE  Judged(g, l)
<1>1. ASSUME Right(Validate(g, l), g, l), g # "PAGE_LIMIT" PROVE Judged(g, l)
  BY <1>1 DEF Right, Sound, Judged, Ok, Issue, Missing, Invalid, Raises
<1>2. CASE g = "PAGE_LIMIT"
  <2>1. Validate("PAGE_LIMIT", l) = PageLimit(l)
    BY DEF Validate
  <2> QED BY <1>2, <2>1, PageLimitRight DEF Right, Sound, Judged, Ok, Issue, Missing, Invalid, Raises
<1>3. CASE g = "MANDATORY_SECTIONS"
  <2>1. Validate("MANDATORY_SECTIONS", l) = MandatorySections(l)
    BY DEF Validate
  <2> QED BY <1>1, <1>3, <2>1, MandatorySectionsRight
<1>4. CASE g = "CHALLENGE_MAPPING"
  <2>1. Validate("CHALLENGE_MAPPING", l) = ChallengeMapping(l)
    BY DEF Validate
  <2> QED BY <1>1, <1>4, <2>1, ChallengeMappingRight
<1>5. CASE g = "SOURCE_OF_TRUTH_INTEGRITY"
  <2>1. Validate("SOURCE_OF_TRUTH_INTEGRITY", l) = SourceOfTruth(l)
    BY DEF Validate
  <2> QED BY <1>1, <1>5, <2>1, SourceOfTruthRight
<1>6. CASE g = "UNVERIFIED_CLAIMS"
  <2>1. Validate("UNVERIFIED_CLAIMS", l) = UnverifiedClaims(l)
    BY DEF Validate
  <2> QED BY <1>1, <1>6, <2>1, UnverifiedClaimsRight
<1>7. CASE g = "CITATION_VERIFICATION"
  <2>1. Validate("CITATION_VERIFICATION", l) = Citations(l)
    BY DEF Validate
  <2> QED BY <1>1, <1>7, <2>1, CitationsRight
<1>8. CASE g = "TERMINOLOGY_CONSISTENCY"
  <2>1. Validate("TERMINOLOGY_CONSISTENCY", l) = Terminology(l)
    BY DEF Validate
  <2> QED BY <1>1, <1>8, <2>1, TerminologyRight
<1>9. CASE g = "WP_TASK_CONSISTENCY"
  <2>1. Validate("WP_TASK_CONSISTENCY", l) = WpTasks(l)
    BY DEF Validate
  <2> QED BY <1>1, <1>9, <2>1, WpTasksRight
<1>10. CASE g = "WP_DELIVERABLE_CONSISTENCY"
  <2>1. Validate("WP_DELIVERABLE_CONSISTENCY", l) = WpDeliverables(l)
    BY DEF Validate
  <2> QED BY <1>1, <1>10, <2>1, WpDeliverablesRight
<1>11. CASE g = "WP_MILESTONE_CONSISTENCY"
  <2>1. Validate("WP_MILESTONE_CONSISTENCY", l) = WpMilestones(l)
    BY DEF Validate
  <2> QED BY <1>1, <1>11, <2>1, WpMilestonesRight
<1>12. CASE g = "PERSON_MONTH_CONSISTENCY"
  <2>1. Validate("PERSON_MONTH_CONSISTENCY", l) = PersonMonths(l)
    BY DEF Validate
  <2> QED BY <1>1, <1>12, <2>1, PersonMonthsRight
<1>13. CASE g = "BUDGET_CONSISTENCY"
  <2>1. Validate("BUDGET_CONSISTENCY", l) = Budget(l)
    BY DEF Validate
  <2> QED BY <1>1, <1>13, <2>1, BudgetRight
<1>14. CASE g = "SUBCONTRACTING_CORE_TASKS"
  <2>1. Validate("SUBCONTRACTING_CORE_TASKS", l) = Subcontracting(l)
    BY DEF Validate
  <2> QED BY <1>1, <1>14, <2>1, SubcontractingRight
<1>15. CASE g = "INTERNAL_CONTRADICTIONS"
  <2>1. Validate("INTERNAL_CONTRADICTIONS", l) = Contradictions(l)
    BY DEF Validate
  <2> QED BY <1>1, <1>15, <2>1, ContradictionsRight
<1> QED BY <1>2, <1>3, <1>4, <1>5, <1>6, <1>7, <1>8, <1>9, <1>10, <1>11, <1>12, <1>13, <1>14, <1>15, GateIds

\* What a run has found out so far.
GateInv ==
  /\ LedgerShaped(ledger)
  /\ outcome \in Outcomes
  /\ outcome \notin {"loading", "REFUSED"} => Loadable(ledger.document)
  /\ results \in Seq({Ok, Issue, Missing, Invalid, "WARN", "NOT_APPLICABLE"})
  /\ Len(results) <= 14
  /\ \A k \in 1..Len(results) : results[k] = Evaluation(HARD_GATE_IDS[k])
  /\ outcome \in {"COMPLETE", "REVISION_REQUIRED", "BLOCKED", "INCOMPLETE"} =>
       Len(results) = 14 /\ outcome = Disposition(results)
  /\ outcome = "ENGINE_FAILURE" => \E g \in Range(HARD_GATE_IDS) : Evaluation(g) = Raises

\* The gates a loaded document leaves to be evaluated are the binding ones.
LEMMA Evaluated ==
  ASSUME Loadable(ledger.document), NEW g \in Range(HARD_GATE_IDS)
  PROVE  Evaluation(g) = IF g \in Binding THEN Validate(g, ledger) ELSE "NOT_APPLICABLE"
<1>1. \A e \in Range(Items(ledger.document.applicability)) :
        e.applicable \in BOOLEAN /\ (e.applicable \/ e.reason # Blank)
  BY DEF Loadable
<1>2. NotApplicable(g) <=> g \notin Binding
  BY <1>1 DEF NotApplicable, Binding
<1> QED BY <1>2 DEF Evaluation

\* What a run records of a gate: its verdict, or that it is waived.
LEMMA Verdicts ==
  ASSUME LedgerShaped(ledger), Loadable(ledger.document), NEW g \in Range(HARD_GATE_IDS)
  PROVE  /\ Evaluation(g) \in {Ok, Issue, Missing, Invalid, Raises, "WARN", "NOT_APPLICABLE"}
         /\ g \in Binding => Evaluation(g) = Validate(g, ledger) /\ Judged(g, ledger)
         /\ g \notin Binding => Evaluation(g) = "NOT_APPLICABLE"
BY Evaluated, GatesJudge DEF Judged

\* GateInv is an invariant: the ledger is one the assumptions allow, and the
\* results are those of the gates evaluated so far.
THEOREM GatesInvariance == Spec => []GateInv
<1>1. Init => GateInv
  <2> SUFFICES ASSUME Init PROVE GateInv
    OBVIOUS
  <2>1. LedgerShaped(ledger)
    BY LedgerAssumption DEF Init
  <2> QED BY <2>1 DEF Init, GateInv, Outcomes
<1>2. GateInv /\ [Next]_vars => GateInv'
  <2> SUFFICES ASSUME GateInv, [Next]_vars PROVE GateInv'
    OBVIOUS
  <2> USE DEF GateInv
  <2>1. CASE Load
    <3>1. /\ ledger' = ledger /\ results' = results
          /\ outcome' = IF Loadable(ledger.document) THEN "evaluating" ELSE "REFUSED"
      BY <2>1 DEF Load
    <3>2. \A k \in 1..Len(results) : Evaluation(HARD_GATE_IDS[k])' = Evaluation(HARD_GATE_IDS[k])
      BY <3>1 DEF Evaluation, NotApplicable
    <3> QED BY <3>1, <3>2 DEF Outcomes
  <2>2. CASE EvaluateGate
    <3> DEFINE n == Len(results) + 1
               g == HARD_GATE_IDS[n]
    <3>1. n \in 1..14 /\ Loadable(ledger.document) /\ ledger' = ledger /\ outcome = "evaluating"
      BY <2>2, GateIds DEF EvaluateGate
    <3>2. g \in Range(HARD_GATE_IDS)
      BY <3>1, GateIds DEF Range
    <3>3. Evaluation(g) \in {Ok, Issue, Missing, Invalid, Raises, "WARN", "NOT_APPLICABLE"}
      BY <3>1, <3>2, Verdicts
    <3>4. \A h : Evaluation(h)' = Evaluation(h)
      BY <3>1 DEF Evaluation, NotApplicable
    <3>5. CASE Evaluation(g) = Raises
      <4>1. outcome' = "ENGINE_FAILURE" /\ results' = results
        BY <2>2, <3>5 DEF EvaluateGate
      <4>2. \E h \in Range(HARD_GATE_IDS) : Evaluation(h)' = Raises
        BY <3>2, <3>4, <3>5
      <4>3. \A k \in 1..Len(results) : Evaluation(HARD_GATE_IDS[k])' = Evaluation(HARD_GATE_IDS[k])
        BY <3>4
      <4> QED BY <3>1, <4>1, <4>2, <4>3 DEF Outcomes
    <3>6. CASE Evaluation(g) # Raises
      <4>1. outcome' = "evaluating" /\ results' = Append(results, Evaluation(g))
        BY <2>2, <3>1, <3>6 DEF EvaluateGate
      <4>2. Evaluation(g) \in {Ok, Issue, Missing, Invalid, "WARN", "NOT_APPLICABLE"}
        BY <3>3, <3>6
      <4>3. Len(results') = n /\ \A k \in 1..n : results'[k] = IF k = n THEN Evaluation(g) ELSE results[k]
        BY <4>1, <4>2
      <4>4. \A k \in 1..n : results'[k] = Evaluation(HARD_GATE_IDS[k])'
        <5>1. \A k \in 1..n : k = n \/ k \in 1..Len(results)
          OBVIOUS
        <5> QED BY <3>4, <4>3, <5>1
      <4>5. results' \in Seq({Ok, Issue, Missing, Invalid, "WARN", "NOT_APPLICABLE"})
        BY <4>1, <4>2
      <4> HIDE DEF n, g
      <4> QED BY <3>1, <4>1, <4>3, <4>4, <4>5 DEF Outcomes
    <3> QED BY <3>5, <3>6
  <2>3. CASE Dispose
    <3>1. /\ outcome = "evaluating" /\ Len(results) = 14 /\ outcome' = Disposition(results)
          /\ ledger' = ledger /\ results' = results
      BY <2>3, GateIds DEF Dispose
    <3>2. Disposition(results) \in {"COMPLETE", "REVISION_REQUIRED", "BLOCKED", "INCOMPLETE"}
      BY DEF Disposition
    <3>3. \A h : Evaluation(h)' = Evaluation(h)
      BY <3>1 DEF Evaluation, NotApplicable
    <3> QED BY <3>1, <3>2, <3>3 DEF Outcomes
  <2>4. CASE UNCHANGED vars
    <3>1. ledger' = ledger /\ results' = results /\ outcome' = outcome
      BY <2>4 DEF vars
    <3>2. \A h : Evaluation(h)' = Evaluation(h)
      BY <3>1 DEF Evaluation, NotApplicable
    <3> QED BY <3>1, <3>2
  <2> QED BY <2>1, <2>2, <2>3, <2>4 DEF Next
<1> QED BY <1>1, <1>2, PTL DEF Spec

\* What the results of a whole run say of each gate.
LEMMA WholeRun ==
  ASSUME GateInv, Len(results) = 14, Loadable(ledger.document)
  PROVE  /\ \A g \in Binding :
              /\ Judged(g, ledger) /\ Validate(g, ledger) \in Range(results)
              /\ Validate(g, ledger) # Raises
         /\ \A v \in Range(results) : v = "NOT_APPLICABLE" \/ \E g \in Binding : v = Validate(g, ledger)
<1>1. DOMAIN results = 1..14 /\ \A k \in 1..14 : /\ results[k] = Evaluation(HARD_GATE_IDS[k])
                                                 /\ results[k] # Raises
  <2> DEFINE S == {Ok, Issue, Missing, Invalid, "WARN", "NOT_APPLICABLE"}
  <2>1. results \in Seq(S)
    BY DEF GateInv
  <2>4. \A k \in 1..14 : results[k] = Evaluation(HARD_GATE_IDS[k])
    BY DEF GateInv
  <2>2. Raises \notin S
    BY DEF Ok, Issue, Missing, Invalid, Raises
  <2> HIDE DEF S
  <2>3. DOMAIN results = 1..14
    BY <2>1
  <2>5. \A k \in 1..14 : results[k] \in S
    <3>1. results \in [1..Len(results) -> S]
      BY <2>1, LenProperties
    <3> QED BY <3>1
  <2> QED BY <2>2, <2>3, <2>4, <2>5
<1>2. \A g \in Range(HARD_GATE_IDS) : /\ g \in Binding => Evaluation(g) = Validate(g, ledger) /\ Judged(g, ledger)
                                      /\ g \notin Binding => Evaluation(g) = "NOT_APPLICABLE"
  BY Verdicts DEF GateInv
<1>3. \A k \in 1..14 : HARD_GATE_IDS[k] \in Range(HARD_GATE_IDS)
  BY GateIds DEF Range
<1>4. \A g \in Range(HARD_GATE_IDS) : \E k \in 1..14 : g = HARD_GATE_IDS[k]
  BY GateIds DEF Range
<1>5. Binding \subseteq Range(HARD_GATE_IDS)
  BY DEF Binding
<1>6. ASSUME NEW g \in Binding
      PROVE  Judged(g, ledger) /\ Validate(g, ledger) \in Range(results) /\ Validate(g, ledger) # Raises
  <2>1. PICK k \in 1..14 : g = HARD_GATE_IDS[k]
    BY <1>4, <1>5
  <2>2. results[k] = Validate(g, ledger) /\ Judged(g, ledger)
    BY <1>1, <1>2, <1>5, <2>1
  <2> QED BY <1>1, <2>2 DEF Range
<1>7. ASSUME NEW v \in Range(results)
      PROVE  v = "NOT_APPLICABLE" \/ \E g \in Binding : v = Validate(g, ledger)
  <2>1. PICK k \in 1..14 : v = results[k]
    BY <1>1 DEF Range
  <2> QED BY <1>1, <1>2, <1>3, <2>1
<1> QED BY <1>6, <1>7

\* NoDefectEscapes: a run that completes met, for every gate that is not waived,
\* evidence that has what the gate asks for and shows no defect.  Tasks that are
\* no list are caught where WP_TASK_CONSISTENCY is among those gates, and not
\* otherwise: WellFormed asks of the other gates what they ask in the code.
THEOREM NothingEscapes == Spec => []NoDefectEscapes
<1>1. GateInv => NoDefectEscapes
  <2> SUFFICES ASSUME GateInv, outcome \in {"COMPLETE", "BLOCKED", "INCOMPLETE"} PROVE NoDefectEscapes
    BY DEF NoDefectEscapes
  <2>1. Len(results) = 14 /\ outcome = Disposition(results) /\ Loadable(ledger.document)
    BY DEF GateInv
  <2>2. \A g \in Binding : /\ Judged(g, ledger) /\ Validate(g, ledger) \in Range(results)
                           /\ Validate(g, ledger) # Raises
    BY <2>1, WholeRun
  <2>3. Issue \notin Range(results)
    BY <2>1 DEF Disposition
  <2>4. \A g \in Binding : ~(WellFormed(g, ledger) /\ Defect(g, ledger))
    BY <2>2, <2>3 DEF Judged
  <2>5. ASSUME outcome = "COMPLETE"
        PROVE  Authoritative /\ \A g \in Binding : WellFormed(g, ledger) /\ ~Defect(g, ledger)
    <3>1. Range(results) \cap {Issue, Missing, Invalid, "WARN"} = {}
      BY <2>1, <2>5 DEF Disposition
    <3>2. \A g \in Binding : Validate(g, ledger) = Ok
      BY <2>2, <3>1 DEF Judged
    <3> QED BY <2>2, <3>2 DEF Judged, Authoritative
  <2> QED BY <2>4, <2>5 DEF NoDefectEscapes
<1> QED BY <1>1, GatesInvariance, PTL

\* DispositionIsDeserved: no run ends worse than the ledger deserves.
THEOREM DispositionDeserved == Spec => []DispositionIsDeserved
<1>1. GateInv => DispositionIsDeserved
  <2> DEFINE clean == \A g \in Binding : WellFormed(g, ledger) /\ ~Defect(g, ledger)
  <2> SUFFICES ASSUME GateInv PROVE DispositionIsDeserved
    OBVIOUS
  <2>1. CASE outcome \in {"REVISION_REQUIRED", "BLOCKED", "INCOMPLETE"}
    <3>1. Len(results) = 14 /\ outcome = Disposition(results) /\ Loadable(ledger.document)
      BY <2>1 DEF GateInv
    <3>2. /\ \A g \in Binding : Judged(g, ledger)
          /\ \A v \in Range(results) : v = "NOT_APPLICABLE" \/ \E g \in Binding : v = Validate(g, ledger)
      BY <3>1, WholeRun
    <3>3. outcome = "REVISION_REQUIRED" => \E g \in Binding : Defect(g, ledger)
      <4>1. outcome = "REVISION_REQUIRED" => Issue \in Range(results)
        BY <3>1 DEF Disposition
      <4> QED BY <3>2, <4>1 DEF Judged, Issue
    <3>4. outcome = "BLOCKED" => \E g \in Binding : ~WellFormed(g, ledger)
      <4>1. outcome = "BLOCKED" => Missing \in Range(results) \/ Invalid \in Range(results)
        BY <3>1 DEF Disposition
      <4> QED BY <3>2, <4>1 DEF Judged, Missing, Invalid
    <3>5. outcome = "INCOMPLETE" => ~Authoritative
      <4>1. outcome = "INCOMPLETE" => "WARN" \in Range(results)
        BY <3>1 DEF Disposition
      <4> QED BY <3>2, <4>1 DEF Judged, Authoritative
    <3> QED BY <2>1, <3>3, <3>4, <3>5 DEF DispositionIsDeserved
  <2>2. CASE outcome = "ENGINE_FAILURE"
    <3>1. PICK g \in Range(HARD_GATE_IDS) : Evaluation(g) = Raises
      BY <2>2 DEF GateInv
    <3>2. Loadable(ledger.document) /\ LedgerShaped(ledger)
      BY <2>2 DEF GateInv
    <3>3. g \in Binding /\ Validate(g, ledger) = Raises /\ Judged(g, ledger)
      BY <3>1, <3>2, Verdicts DEF Raises
    <3> QED BY <2>2, <3>3 DEF Judged, DispositionIsDeserved
  <2> QED BY <2>1, <2>2 DEF DispositionIsDeserved
<1> QED BY <1>1, GatesInvariance, PTL
=============================================================================
