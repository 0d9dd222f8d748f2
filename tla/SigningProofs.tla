--------------------------- MODULE SigningProofs ---------------------------
(***************************************************************************)
(* A signature means one envelope: what the signing input leaves out, the   *)
(* checks that precede it determine; and the bytes that are signed mean one  *)
(* signing input, or one manifest.  For any envelopes, manifests, widths,   *)
(* hosts and characters.                                                   *)
(***************************************************************************)
EXTENDS Framing, SequenceTheorems, WellFoundedInduction, TLAPS

\* Two numbers of the same type and value are the same field.
LEMMA FieldIsKindAndNumber ==
  ASSUME NEW v \in Field, NEW w \in Field, v.kind = w.kind, v.n = w.n
  PROVE  v = w
  BY DEF Field

\* A target is its components.
LEMMA TargetIsItsFields ==
  ASSUME NEW s \in Target, NEW t \in Target,
         s.keys = t.keys, s.pid = t.pid, s.ticks = t.ticks, s.boot = t.boot, s.path = t.path
  PROVE  s = t
  BY DEF Target

\* The contract determines which fields a target has, and of which type, by the
\* schema and the action alone (contract.py:78-120).
LEMMA ContractFixesShape ==
  ASSUME NEW schema \in {"1", "2"}, NEW action, NEW s \in Target, NEW t \in Target,
         NEW x, NEW y,
         ValidCommand(schema, action, s, x), ValidCommand(schema, action, t, y)
  PROVE  /\ s.keys = t.keys
         /\ s.pid.kind = t.pid.kind
         /\ s.ticks.kind = t.ticks.kind
         /\ s.path = t.path
<1>1. CASE schema = "2"
  BY <1>1 DEF ValidCommand, PositiveWithin, Target, ProcessActions
<1>2. CASE schema # "2" /\ action \in ProcessActions
  BY <1>2 DEF ValidCommand, Target
<1>3. CASE schema # "2" /\ action \notin ProcessActions /\ action \in FileActions
  BY <1>3 DEF ValidCommand, Target, Absent, Value
<1>4. CASE schema # "2" /\ action \notin ProcessActions /\ action \notin FileActions
  BY <1>4 DEF ValidCommand, Target, Absent, Value
<1>5. QED
  BY <1>1, <1>2, <1>3, <1>4

\* Two envelopes with the same signing input say the same: no field, no type, no
\* key and no schema of a signed command can change under its signature.
THEOREM SigningIsInjective ==
  ASSUME NEW a, NEW b, Typed(a), Typed(b), Signable(a), Signable(b),
         SigningInput(a) = SigningInput(b)
  PROVE  Meaning(a) = Meaning(b)
<1>1. /\ a.schema = b.schema /\ a.command_id = b.command_id
      /\ a.correlation_id = b.correlation_id /\ a.agent_id = b.agent_id
      /\ a.host_id = b.host_id /\ a.action = b.action /\ a.file = b.file
      /\ EpochSeconds(a.created_at) = EpochSeconds(b.created_at)
      /\ EpochSeconds(a.expires_at) = EpochSeconds(b.expires_at)
      /\ a.target.pid.n = b.target.pid.n /\ a.target.ticks.n = b.target.ticks.n
      /\ a.target.boot = b.target.boot
  BY DEF Signable, SigningInput, Unsigned
<1>2. a.target = b.target
  <2>1. /\ a.target.keys = b.target.keys /\ a.target.path = b.target.path
        /\ a.target.pid.kind = b.target.pid.kind /\ a.target.ticks.kind = b.target.ticks.kind
    BY <1>1, ContractFixesShape DEF Signable, Typed
  <2>2. a.target \in Target /\ b.target \in Target
    BY DEF Typed
  <2>3. /\ a.target.pid \in Field /\ b.target.pid \in Field
        /\ a.target.ticks \in Field /\ b.target.ticks \in Field
    BY <2>2 DEF Target
  <2>4. a.target.pid = b.target.pid /\ a.target.ticks = b.target.ticks
    BY <1>1, <2>1, <2>3, FieldIsKindAndNumber
  <2>5. QED
    BY <1>1, <2>1, <2>2, <2>4, TargetIsItsFields
<1>3. a.closed = TRUE /\ b.closed = TRUE
  BY DEF Signable, Typed
<1>4. QED
  BY <1>1, <1>2, <1>3 DEF Typed, Meaning

-----------------------------------------------------------------------------
\* Every signature was made of an authorized envelope.
SignedInv ==
  /\ authorized \subseteq {e \in Envelopes : Signable(e)}
  /\ \A w \in wire : /\ w = [envelope |-> w.envelope, signature |-> w.signature]
                     /\ w.envelope \in Envelopes
                     /\ \E e \in authorized : w.signature = SigningInput(e)
  /\ ExecutedIsAuthorized

\* The signatures on the wire, whatever happens to the envelopes beside them.
LEMMA SignedInductive ==
  ASSUME SignedInv, [Next]_vars
  PROVE  SignedInv'
<1>1. ASSUME NEW e \in Envelopes, Authorize(e) PROVE SignedInv'
  <2>1. authorized' = authorized \cup {e} /\ executed' = executed /\ Signable(e)
    BY <1>1 DEF Authorize
  <2>2. wire' = wire \cup {[envelope |-> e, signature |-> SigningInput(e)]}
    BY <1>1 DEF Authorize
  <2>3. \A w \in wire' : /\ w = [envelope |-> w.envelope, signature |-> w.signature]
                         /\ w.envelope \in Envelopes
                         /\ \E x \in authorized' : w.signature = SigningInput(x)
    BY <2>1, <2>2 DEF SignedInv
  <2>4. ExecutedIsAuthorized'
    BY <2>1 DEF SignedInv, ExecutedIsAuthorized
  <2>5. QED
    BY <2>1, <2>3, <2>4 DEF SignedInv
<1>2. ASSUME NEW w \in wire, Execute(w) PROVE SignedInv'
  <2>1. Signable(w.envelope) /\ SigningInput(w.envelope) = w.signature
    BY <1>2 DEF Execute, Verifies
  <2>2. PICK e \in authorized : w.signature = SigningInput(e)
    BY DEF SignedInv
  <2>3. Typed(e) /\ Signable(e) /\ Typed(w.envelope)
    BY SigningAssumption DEF SignedInv
  <2>4. Meaning(w.envelope) = Meaning(e)
    BY <2>1, <2>2, <2>3, SigningIsInjective
  <2>5. executed' = executed \cup {w.envelope} /\ UNCHANGED <<authorized, wire>>
    BY <1>2 DEF Execute
  <2>6. QED
    BY <2>4, <2>5 DEF SignedInv, ExecutedIsAuthorized
<1>3. ASSUME NEW w \in wire, NEW e \in Envelopes, Carry(w, e) PROVE SignedInv'
  <2>1. wire' = (wire \ {w}) \cup {[w EXCEPT !.envelope = e]}
        /\ UNCHANGED <<authorized, executed>>
    BY <1>3 DEF Carry
  <2>2. PICK x \in authorized : w.signature = SigningInput(x)
    BY DEF SignedInv
  <2>3. \A v \in wire' : /\ v = [envelope |-> v.envelope, signature |-> v.signature]
                         /\ v.envelope \in Envelopes
                         /\ \E y \in authorized' : v.signature = SigningInput(y)
    <3>1. [w EXCEPT !.envelope = e] = [envelope |-> e, signature |-> w.signature]
      BY DEF SignedInv
    <3>2. QED
      BY <2>1, <2>2, <3>1 DEF SignedInv
  <2>4. QED
    BY <2>1, <2>3 DEF SignedInv, ExecutedIsAuthorized
<1>4. CASE UNCHANGED vars
  BY <1>4 DEF SignedInv, ExecutedIsAuthorized, vars
<1>5. QED
  BY <1>1, <1>2, <1>3, <1>4 DEF Next

\* What agents execute was authorized, whatever the way does to the messages.
THEOREM ExecutedWasAuthorized == Spec => []ExecutedIsAuthorized
<1>1. Init => SignedInv
  BY DEF Init, SignedInv, ExecutedIsAuthorized
<1>2. SignedInv => ExecutedIsAuthorized
  BY DEF SignedInv
<1>3. QED
  BY <1>1, <1>2, SignedInductive, PTL DEF Spec

\* Two envelopes that say the same have the same signing input.
LEMMA MeaningFixesInput ==
  ASSUME NEW a, NEW b, Typed(a), Typed(b), Meaning(a) = Meaning(b)
  PROVE  /\ SigningInput(a) = SigningInput(b)
         /\ a.closed = b.closed /\ a.host_id = b.host_id /\ a.action = b.action
         /\ a.schema = b.schema /\ a.target = b.target
         /\ a.created_at.second = b.created_at.second
         /\ a.expires_at.second = b.expires_at.second
<1>1. /\ a.closed = b.closed /\ a.host_id = b.host_id /\ a.action = b.action
      /\ a.schema = b.schema /\ a.target = b.target /\ a.file = b.file
      /\ a.command_id = b.command_id /\ a.correlation_id = b.correlation_id
      /\ a.agent_id = b.agent_id
      /\ EpochSeconds(a.created_at) = EpochSeconds(b.created_at)
      /\ EpochSeconds(a.expires_at) = EpochSeconds(b.expires_at)
  BY DEF Meaning, Typed
<1>2. QED
  BY <1>1 DEF SigningInput, EpochSeconds

\* A command whose times were only written differently still verifies.
THEOREM NotationCarriesNoMeaning == Spec => []NotationIsFree
<1>1. ASSUME SignedInv PROVE NotationIsFree
  <2>1. SUFFICES ASSUME NEW w \in wire, NEW e \in authorized,
                        w.signature = SigningInput(e),
                        Meaning(w.envelope) = Meaning(e),
                        {w.envelope.created_at.notation, w.envelope.expires_at.notation}
                          \subseteq {"Z", "offset"}
                 PROVE  Verifies(w)
    BY DEF NotationIsFree
  <2>2. Typed(w.envelope) /\ Typed(e) /\ Signable(e)
    BY <1>1, SigningAssumption DEF SignedInv
  <2>3. /\ SigningInput(w.envelope) = SigningInput(e)
        /\ w.envelope.closed = e.closed /\ w.envelope.host_id = e.host_id
        /\ w.envelope.action = e.action /\ w.envelope.schema = e.schema
        /\ w.envelope.target = e.target
        /\ w.envelope.created_at.second = e.created_at.second
        /\ w.envelope.expires_at.second = e.expires_at.second
    BY <2>1, <2>2, MeaningFixesInput
  <2>4. (w.envelope.expires_at.notation # "naive") = (e.expires_at.notation # "naive")
    BY <2>1, <2>2 DEF Signable, ValidTime
  <2>5. Signable(w.envelope)
    BY <2>1, <2>2, <2>3, <2>4 DEF Signable, ValidTime
  <2>6. QED
    BY <2>1, <2>3, <2>5 DEF Verifies
<1>2. Init => SignedInv
  BY DEF Init, SignedInv, ExecutedIsAuthorized
<1>3. QED
  BY <1>1, <1>2, SignedInductive, PTL DEF Spec

-----------------------------------------------------------------------------
(* Recursion.                                                              *)

\* Induction over the naturals, for a set: what holds as soon as it holds for
\* everything smaller holds for all.
LEMMA CompleteInduction ==
  ASSUME NEW S, \A n \in Nat : (\A m \in 0 .. n - 1 : m \in S) => n \in S
  PROVE  \A n \in Nat : n \in S
<1>. DEFINE T == {n \in Nat : n \notin S}
<1>1. SUFFICES ASSUME T # {} PROVE FALSE
  OBVIOUS
<1>2. PICK x \in T : \A y \in T : ~ (<<y, x>> \in OpToRel(<, Nat))
  <2>1. T \subseteq Nat
    OBVIOUS
  <2>2. \E x \in T : \A y \in T : ~ (<<y, x>> \in OpToRel(<, Nat))
    BY <1>1, <2>1, NatLessThanWellFounded, WFMin, Zenon
  <2>. QED
    BY <2>2
<1>3. ASSUME NEW y \in T PROVE ~ (y < x)
  <2>1. ~ (<<y, x>> \in {ss \in Nat \X Nat : ss[1] < ss[2]})
    BY <1>2, <1>3 DEF OpToRel
  <2>2. <<y, x>> \in Nat \X Nat
    BY <1>3
  <2>. QED
    BY <2>1, <2>2
<1>4. \A m \in 0 .. x - 1 : m \in S
  <2>1. TAKE m \in 0 .. x - 1
  <2>2. m \in Nat /\ m < x
    OBVIOUS
  <2>. QED
    BY <1>3, <2>2
<1>. QED
  BY <1>4

LEMMA Induction ==
  ASSUME NEW S, 0 \in S, \A n \in Nat : n \in S => n + 1 \in S
  PROVE  \A n \in Nat : n \in S
<1>1. ASSUME NEW n \in Nat, \A m \in 0 .. n - 1 : m \in S PROVE n \in S
  <2>1. CASE n = 0
    BY <2>1
  <2>2. CASE n # 0
    <3>1. n - 1 \in Nat /\ n - 1 \in 0 .. n - 1 /\ (n - 1) + 1 = n
      BY <2>2
    <3>2. n - 1 \in S
      BY <1>1, <3>1
    <3>3. (n - 1) + 1 \in S
      BY <3>1, <3>2
    <3>. QED
      BY <3>1, <3>3
  <2>. QED
    BY <2>1, <2>2
<1>. QED
  BY <1>1, CompleteInduction

\* Decimal is defined: its equation has a solution.
LEMMA DecimalEquation ==
  \A n \in Nat :
    Decimal[n] = IF n < 10 THEN <<Digits[n + 1]>>
                 ELSE Append(Decimal[n \div 10], Digits[(n % 10) + 1])
<1>. DEFINE Unfold(f, n) == IF n < 10 THEN <<Digits[n + 1]>>
                           ELSE Append(f[n \div 10], Digits[(n % 10) + 1])
            Upto(f, m) == DOMAIN f = 0 .. m /\ \A n \in 0 .. m : f[n] = Unfold(f, n)
<1>1. ASSUME NEW n \in Nat, ~ (n < 10)
      PROVE  n \div 10 \in Nat /\ n \div 10 < n
  BY <1>1
\* Two solutions agree where both are defined.
<1>2. ASSUME NEW f, NEW g, NEW k \in Nat, NEW m \in Nat, Upto(f, k), Upto(g, m)
      PROVE  \A n \in Nat : n <= k /\ n <= m => f[n] = g[n]
  <2>. DEFINE S == {n \in Nat : n <= k /\ n <= m => f[n] = g[n]}
  <2>1. ASSUME NEW n \in Nat, \A i \in 0 .. n - 1 : i \in S PROVE n \in S
    <3>1. SUFFICES ASSUME n <= k, n <= m PROVE f[n] = g[n]
      OBVIOUS
    <3>2. f[n] = Unfold(f, n) /\ g[n] = Unfold(g, n)
      <4>1. n \in 0 .. k /\ n \in 0 .. m
        BY <3>1
      <4>. QED
        BY <1>2, <4>1, Zenon
    <3>3. ~ (n < 10) => f[n \div 10] = g[n \div 10]
      <4>1. SUFFICES ASSUME ~ (n < 10) PROVE f[n \div 10] = g[n \div 10]
        OBVIOUS
      <4>2. PICK q : q = n \div 10
        OBVIOUS
      <4>3. q \in Nat /\ q < n
        BY <1>1, <4>1, <4>2
      <4>4. q \in 0 .. n - 1 /\ q <= k /\ q <= m
        BY <3>1, <4>3
      <4>5. q \in S
        BY <2>1, <4>4
      <4>. QED
        BY <4>2, <4>4, <4>5
    <3>. QED
      BY <3>2, <3>3, Zenon
  <2>2. \A n \in Nat : n \in S
    <3>. HIDE DEF S
    <3>. QED
      BY <2>1, CompleteInduction
  <2>. QED
    BY <2>2
\* There is one up to every number.
<1>3. \A m \in Nat : \E f : Upto(f, m)
  <2>. DEFINE S == {m \in Nat : \E f : Upto(f, m)}
  <2>1. 0 \in S
    <3>1. PICK f : f = [n \in 0 .. 0 |-> <<Digits[n + 1]>>]
      OBVIOUS
    <3>2. Upto(f, 0)
      BY <3>1
    <3>. QED
      BY <3>2
  <2>2. ASSUME NEW m \in Nat, m \in S PROVE m + 1 \in S
    <3>1. PICK f : Upto(f, m)
      BY <2>2
    <3>2. PICK g : g = [n \in 0 .. m + 1 |-> Unfold(f, n)]
      OBVIOUS
    <3>3. DOMAIN g = 0 .. m + 1 /\ \A n \in 0 .. m + 1 : g[n] = Unfold(f, n)
      BY <3>2, Zenon
    <3>4. ASSUME NEW n \in 0 .. m + 1 PROVE g[n] = Unfold(g, n)
      <4>1. ~ (n < 10) => g[n \div 10] = f[n \div 10]
        <5>1. SUFFICES ASSUME ~ (n < 10) PROVE g[n \div 10] = f[n \div 10]
          OBVIOUS
        <5>2. PICK q : q = n \div 10
          OBVIOUS
        <5>3. q \in Nat /\ q < n
          BY <1>1, <5>1, <5>2
        <5>4. q \in 0 .. m + 1 /\ q \in 0 .. m
          BY <5>3
        <5>5. g[q] = Unfold(f, q) /\ f[q] = Unfold(f, q)
          BY <3>1, <3>3, <5>4, Zenon
        <5>. QED
          BY <5>2, <5>5
      <4>. QED
        BY <3>3, <4>1, Zenon
    <3>5. Upto(g, m + 1)
      BY <3>3, <3>4, Zenon
    <3>6. m + 1 \in Nat
      OBVIOUS
    <3>. QED
      BY <3>5, <3>6, Zenon
  <2>3. \A m \in Nat : m \in S
    <3>. HIDE DEF S
    <3>. QED
      BY <2>1, <2>2, Induction
  <2>. QED
    BY <2>3
<1>4. PICK F : F = [m \in Nat |-> CHOOSE f : Upto(f, m)]
  OBVIOUS
<1>5. \A m \in Nat : Upto(F[m], m)
  BY <1>3, <1>4, Zenon
<1>6. PICK G : G = [n \in Nat |-> F[n][n]]
  OBVIOUS
<1>7. ASSUME NEW n \in Nat PROVE G[n] = Unfold(G, n)
  <2>1. G[n] = F[n][n] /\ F[n][n] = Unfold(F[n], n)
    <3>1. n \in 0 .. n
      OBVIOUS
    <3>. QED
      BY <1>5, <1>6, <3>1, Zenon
  <2>2. ~ (n < 10) => G[n \div 10] = F[n][n \div 10]
    <3>1. SUFFICES ASSUME ~ (n < 10) PROVE G[n \div 10] = F[n][n \div 10]
      OBVIOUS
    <3>2. PICK q : q = n \div 10
      OBVIOUS
    <3>3. q \in Nat /\ q <= n /\ q <= q
      BY <1>1, <3>1, <3>2
    <3>5. Upto(F[q], q) /\ Upto(F[n], n)
      BY <1>5, <3>3, Zenon
    <3>4. F[q][q] = F[n][q]
      <4>1. q \in Nat /\ n \in Nat
        BY <3>3
      <4>2. PICK a, b : a = F[q] /\ b = F[n]
        OBVIOUS
      <4>3. Upto(a, q) /\ Upto(b, n)
        BY <3>5, <4>2, Zenon
      <4>4. \A i \in Nat : i <= q /\ i <= n => a[i] = b[i]
        <5>. HIDE DEF Upto
        <5>. QED
          BY <1>2, <4>1, <4>3
      <4>. QED
        BY <3>3, <4>2, <4>4
    <3>. QED
      BY <1>6, <3>2, <3>3, <3>4
  <2>. QED
    BY <2>1, <2>2, Zenon
<1>8. G = [n \in Nat |-> Unfold(G, n)]
  BY <1>6, <1>7, Zenon
<1>9. Decimal = [n \in Nat |-> Unfold(Decimal, n)]
  BY <1>8, Zenon DEF Decimal
<1>. QED
  BY <1>9, Zenon

-----------------------------------------------------------------------------
(* Numerals.                                                               *)

DigitSet == {"0", "1", "2", "3", "4", "5", "6", "7", "8", "9"}

LEMMA DigitsAreDistinct ==
  /\ \A i \in 1 .. 10 : Digits[i] \in DigitSet
  /\ \A i, j \in 1 .. 10 : Digits[i] = Digits[j] => i = j
<1>1. \A i \in 1 .. 10 : i \in {1, 2, 3, 4, 5, 6, 7, 8, 9, 10}
  OBVIOUS
<1>. QED
  BY <1>1 DEF Digits, DigitSet

LEMMA TenthIsSmaller ==
  ASSUME NEW n \in Nat, ~ (n < 10)
  PROVE  n \div 10 \in 0 .. n - 1
OBVIOUS

LEMMA LastDigit ==
  ASSUME NEW n \in Nat
  PROVE  (n % 10) \in 0 .. 9 /\ n = 10 * (n \div 10) + (n % 10)
OBVIOUS

\* A numeral is written in digits.
LEMMA NumeralsAreDigits == \A n \in Nat : Decimal[n] \in Seq(DigitSet) /\ Decimal[n] # << >>
<1>. DEFINE S == {n \in Nat : Decimal[n] \in Seq(DigitSet) /\ Decimal[n] # << >>}
<1>1. ASSUME NEW n \in Nat, \A m \in 0 .. n - 1 : m \in S PROVE n \in S
  <2>1. CASE n < 10
    <3>1. Decimal[n] = <<Digits[n + 1]>>
      BY <2>1, DecimalEquation
    <3>2. Digits[n + 1] \in DigitSet
      BY <2>1, DigitsAreDistinct
    <3>3. \A d \in DigitSet : <<d>> \in Seq(DigitSet) /\ <<d>> # << >>
      OBVIOUS
    <3>4. Decimal[n] \in Seq(DigitSet) /\ Decimal[n] # << >>
      BY <3>1, <3>2, <3>3
    <3>. QED
      BY <3>4
  <2>2. CASE ~ (n < 10)
    <3>1. Decimal[n] = Append(Decimal[n \div 10], Digits[(n % 10) + 1])
      BY <2>2, DecimalEquation
    <3>2. Decimal[n \div 10] \in Seq(DigitSet)
      BY <1>1, <2>2, TenthIsSmaller
    <3>3. Digits[(n % 10) + 1] \in DigitSet
      <4>1. (n % 10) + 1 \in 1 .. 10
        BY LastDigit
      <4>. QED
        BY <4>1, DigitsAreDistinct
    <3>4. Decimal[n] \in Seq(DigitSet) /\ Decimal[n] # << >>
      <4>1. PICK s, d : s = Decimal[n \div 10] /\ d = Digits[(n % 10) + 1]
        OBVIOUS
      <4>2. s \in Seq(DigitSet) /\ d \in DigitSet /\ Decimal[n] = Append(s, d)
        BY <3>1, <3>2, <3>3, <4>1
      <4>3. Append(s, d) \in Seq(DigitSet) /\ Append(s, d) # << >>
        BY <4>2, AppendProperties
      <4>. QED
        BY <4>2, <4>3
    <3>. QED
      BY <3>4
  <2>. QED
    BY <2>1, <2>2
<1>2. \A n \in Nat : n \in S
  <2>. HIDE DEF S
  <2>. QED
    BY <1>1, CompleteInduction
<1>. QED
  BY <1>2

\* Two numbers never have the same numeral.
LEMMA NumeralsDiffer ==
  ASSUME NEW m \in Nat, NEW n \in Nat, Decimal[m] = Decimal[n]
  PROVE  m = n
<1>. DEFINE S == {k \in Nat : \A i \in Nat : Decimal[k] = Decimal[i] => k = i}
<1>1. ASSUME NEW k \in Nat, \A j \in 0 .. k - 1 : j \in S PROVE k \in S
  <2>1. SUFFICES ASSUME NEW i \in Nat, Decimal[k] = Decimal[i] PROVE k = i
    OBVIOUS
  <2>2. ASSUME NEW a \in Nat, a < 10
        PROVE  Decimal[a] = <<Digits[a + 1]>> /\ a + 1 \in 1 .. 10 /\ Digits[a + 1] \in DigitSet
    <3>1. Decimal[a] = <<Digits[a + 1]>>
      BY <2>2, DecimalEquation
    <3>2. a + 1 \in 1 .. 10
      BY <2>2
    <3>. QED
      BY <3>1, <3>2, DigitsAreDistinct
  <2>3. ASSUME NEW a \in Nat, ~ (a < 10)
        PROVE  /\ Decimal[a] = Append(Decimal[a \div 10], Digits[(a % 10) + 1])
               /\ a \div 10 \in Nat /\ (a % 10) + 1 \in 1 .. 10
               /\ Decimal[a \div 10] \in Seq(DigitSet) /\ Decimal[a \div 10] # << >>
               /\ Digits[(a % 10) + 1] \in DigitSet
    <3>1. Decimal[a] = Append(Decimal[a \div 10], Digits[(a % 10) + 1])
      BY <2>3, DecimalEquation
    <3>2. a \div 10 \in Nat /\ (a % 10) + 1 \in 1 .. 10
      BY <2>3, TenthIsSmaller, LastDigit
    <3>. QED
      BY <3>1, <3>2, NumeralsAreDigits, DigitsAreDistinct
  <2>4. ASSUME NEW a \in Nat, NEW b \in Nat, a < 10, ~ (b < 10), Decimal[a] = Decimal[b]
        PROVE  FALSE
    <3>1. Len(Decimal[a]) = 1
      BY <2>2, <2>4
    <3>2. PICK s, d : s = Decimal[b \div 10] /\ d = Digits[(b % 10) + 1]
      OBVIOUS
    <3>3. /\ Decimal[b] = Append(s, d) /\ s \in Seq(DigitSet) /\ s # << >>
          /\ d \in DigitSet
      BY <2>3, <2>4, <3>2
    <3>4. Len(Append(s, d)) = Len(s) + 1 /\ Len(s) \in Nat \ {0}
      BY <3>3, AppendProperties, EmptySeq
    <3>. QED
      BY <2>4, <3>1, <3>3, <3>4
  <2>5. CASE k < 10 /\ i < 10
    BY <2>1, <2>2, <2>5, DigitsAreDistinct
  <2>6. CASE ~ (k < 10) /\ ~ (i < 10)
    <3>1. PICK s, t, d, e : /\ s = Decimal[k \div 10] /\ d = Digits[(k % 10) + 1]
                            /\ t = Decimal[i \div 10] /\ e = Digits[(i % 10) + 1]
      OBVIOUS
    <3>2. /\ Decimal[k] = Append(s, d) /\ Decimal[i] = Append(t, e)
          /\ s \in Seq(DigitSet) /\ t \in Seq(DigitSet) /\ d \in DigitSet /\ e \in DigitSet
      BY <2>3, <2>6, <3>1
    <3>3. Append(s, d) = Append(t, e)
      BY <2>1, <3>2
    <3>4. s = t /\ d = e
      BY <3>2, <3>3, AppendInjective
    <3>5. k \div 10 \in S /\ i \div 10 \in Nat
      BY <1>1, <2>3, <2>6, TenthIsSmaller
    <3>6. k \div 10 = i \div 10
      BY <3>1, <3>4, <3>5
    <3>7. (k % 10) + 1 = (i % 10) + 1
      BY <2>3, <2>6, <3>1, <3>4, DigitsAreDistinct
    <3>8. (k % 10) \in Int /\ (i % 10) \in Int
      BY LastDigit
    <3>9. (k % 10) = (i % 10)
      BY <3>7, <3>8
    <3>. QED
      BY <3>6, <3>9, LastDigit
  <2>. QED
    BY <2>1, <2>4, <2>5, <2>6
<1>2. \A k \in Nat : k \in S
  <2>. HIDE DEF S
  <2>. QED
    BY <1>1, CompleteInduction
<1>. QED
  BY <1>2

-----------------------------------------------------------------------------
(* Frames.                                                                 *)

\* The tokens of a frame, and the texts over them.
Token == Characters \cup DigitSet \cup {":", "\n"} \cup ClosedActions \cup {"digest", "uuid"}
           \cup {"panopticon-command-auth/1", "panopticon-response-artifact-auth/2"}
           \cup {CommandFields[i] : i \in DOMAIN CommandFields}
           \cup {FIELDS[i] : i \in DOMAIN FIELDS}
Text == Seq(Token)

\* Beginnings of the same length of the same sequence are the same.
LEMMA SameBeginning ==
  ASSUME NEW s \in Text, NEW t \in Text, NEW x \in Text, NEW y \in Text,
         Len(s) = Len(t), s \o x = t \o y
  PROVE  s = t /\ x = y
<1>. USE DEF Text
<1>1. s = t
  BY ConcatProperties, SeqEqual, LenProperties
<1>. QED
  BY <1>1, ConcatSimplifications

\* What is before the first colon is determined, and so is what is after it.
LEMMA UntilColon ==
  ASSUME NEW s \in Seq(DigitSet), NEW t \in Seq(DigitSet), NEW x \in Text, NEW y \in Text,
         s \o <<":">> \o x = t \o <<":">> \o y
  PROVE  s = t /\ x = y
<1>. USE DEF Text
<1>1. ASSUME NEW a \in Seq(DigitSet), NEW z \in Text
      PROVE  /\ a \in Text /\ a \o <<":">> \in Text /\ Len(a) \in Nat
             /\ Len(a \o <<":">>) = Len(a) + 1
             /\ (a \o <<":">> \o z)[Len(a) + 1] = ":"
             /\ \A i \in 1 .. Len(a) : (a \o <<":">> \o z)[i] \in DigitSet
  <2>1. a \in Text /\ <<":">> \in Text /\ Len(<<":">>) = 1 /\ <<":">>[1] = ":"
    <3>1. a \in Text
      <4>1. DigitSet \subseteq Token
        BY DEF Token
      <4>. QED
        BY <4>1, SeqMonotonic
    <3>2. <<":">> \in Text
      BY DEF Token
    <3>3. Len(<<":">>) = 1 /\ <<":">>[1] = ":"
      OBVIOUS
    <3>. QED
      BY <3>1, <3>2, <3>3
  <2>2. Len(a) \in Nat /\ \A i \in 1 .. Len(a) : a[i] \in DigitSet
    BY ElementOfSeq, LenProperties
  <2>3. PICK b : b = a \o <<":">>
    OBVIOUS
  <2>4. /\ b \in Text /\ Len(b) = Len(a) + 1 /\ b[Len(a) + 1] = ":"
        /\ \A i \in 1 .. Len(a) : b[i] = a[i]
    BY <2>1, <2>2, <2>3, ConcatProperties
  <2>5. \A i \in 1 .. Len(b) : (b \o z)[i] = b[i]
    BY <2>4, ConcatProperties, LenProperties
  <2>. QED
    BY <2>1, <2>2, <2>3, <2>4, <2>5
<1>2. ":" \notin DigitSet
  BY DEF DigitSet
<1>3. PICK u : u = s \o <<":">> \o x /\ u = t \o <<":">> \o y
  OBVIOUS
<1>4. /\ Len(s) \in Nat /\ u[Len(s) + 1] = ":" /\ \A i \in 1 .. Len(s) : u[i] \in DigitSet
      /\ Len(t) \in Nat /\ u[Len(t) + 1] = ":" /\ \A i \in 1 .. Len(t) : u[i] \in DigitSet
  BY <1>1, <1>3
<1>5. Len(s) = Len(t)
  BY <1>2, <1>4
<1>6. PICK a, b : a = s \o <<":">> /\ b = t \o <<":">>
  OBVIOUS
<1>7. a \in Text /\ b \in Text /\ Len(a) = Len(b) /\ a \o x = b \o y
  BY <1>1, <1>5, <1>6
<1>8. a = b /\ x = y
  BY <1>7, SameBeginning
<1>. QED
  BY <1>1, <1>5, <1>6, <1>8, SameBeginning

\* Concatenation, for the provers to take as given.
Then(s, t) == s \o t

LEMMA Joined == \A s, t \in Text : Then(s, t) \in Text
BY ConcatProperties DEF Text, Then

LEMMA Associative == \A s, t, u \in Text : Then(Then(s, t), u) = Then(s, Then(t, u))
BY ConcatAssociative DEF Text, Then

LEMMA Cancelled ==
  \A s, t, x, y \in Text : Len(s) = Len(t) /\ Then(s, x) = Then(t, y) => s = t /\ x = y
BY SameBeginning DEF Then

LEMMA Separated ==
  \A s, t \in Seq(DigitSet), x, y \in Text :
    Then(Then(s, <<":">>), x) = Then(Then(t, <<":">>), y) => s = t /\ x = y
BY UntilColon, Zenon DEF Then

LEMMA Regrouped ==
  \A a, d, c, v, l, x \in Text :
    Then(Then(Then(Then(Then(a, d), c), v), l), x)
      = Then(a, Then(Then(d, c), Then(v, Then(l, x))))
<1>1. TAKE a, d, c, v, l, x \in Text
<1>2. PICK k, m, p, q : k = Then(d, c) /\ m = Then(l, x) /\ p = Then(a, k) /\ q = Then(v, m)
  OBVIOUS
<1>3. k \in Text /\ m \in Text /\ p \in Text /\ q \in Text
  BY <1>2, Joined
<1>4. Then(Then(a, d), c) = p
  BY <1>2, Associative
<1>5. Then(Then(Then(p, v), l), x) = Then(Then(p, v), m)
  <2>1. Then(p, v) \in Text
    BY <1>3, Joined
  <2>. QED
    BY <1>2, <2>1, Associative
<1>6. Then(Then(p, v), m) = Then(p, q)
  BY <1>2, <1>3, Associative
<1>7. Then(p, q) = Then(a, Then(k, q))
  BY <1>2, <1>3, Associative
<1>. QED
  BY <1>2, <1>4, <1>5, <1>6, <1>7

\* The parts of a framed field.
LEMMA FieldParts ==
  ASSUME NEW name \in Token, NEW v \in Text
  PROVE  /\ <<name>> \in Text /\ <<":">> \in Text /\ <<"\n">> \in Text
         /\ Len(v) \in Nat /\ Decimal[Len(v)] \in Text /\ Decimal[Len(v)] \in Seq(DigitSet)
         /\ FramedField(name, v)
              = Then(Then(Then(Then(<<name>>, Decimal[Len(v)]), <<":">>), v), <<"\n">>)
         /\ FramedField(name, v) \in Text
<1>1. <<name>> \in Text
  BY DEF Text
<1>2. <<":">> \in Text /\ <<"\n">> \in Text
  BY DEF Text, Token
<1>3. Len(v) \in Nat
  BY LenProperties DEF Text
<1>4. Decimal[Len(v)] \in Seq(DigitSet)
  BY <1>3, NumeralsAreDigits
<1>5. Decimal[Len(v)] \in Text
  <2>1. DigitSet \subseteq Token
    BY DEF Token
  <2>. QED
    BY <1>4, <2>1, SeqMonotonic DEF Text
<1>6. FramedField(name, v)
        = Then(Then(Then(Then(<<name>>, Decimal[Len(v)]), <<":">>), v), <<"\n">>)
  BY DEF FramedField, Then
<1>7. PICK b, d, c, l : b = <<name>> /\ d = Decimal[Len(v)] /\ c = <<":">> /\ l = <<"\n">>
  OBVIOUS
<1>8. b \in Text /\ d \in Text /\ c \in Text /\ l \in Text
  BY <1>1, <1>2, <1>5, <1>7
<1>9. Then(Then(Then(Then(b, d), c), v), l) \in Text
  BY <1>8, Joined
<1>. QED
  BY <1>1, <1>2, <1>3, <1>4, <1>5, <1>6, <1>7, <1>9

\* A framed field and what follows it, from the left.
LEMMA FieldReads ==
  ASSUME NEW name \in Token, NEW v \in Text, NEW x \in Text
  PROVE  Then(FramedField(name, v), x)
           = Then(<<name>>, Then(Then(Decimal[Len(v)], <<":">>), Then(v, Then(<<"\n">>, x))))
<1>1. PICK b, d, c, l : b = <<name>> /\ d = Decimal[Len(v)] /\ c = <<":">> /\ l = <<"\n">>
  OBVIOUS
<1>2. b \in Text /\ d \in Text /\ c \in Text /\ l \in Text
  BY <1>1, FieldParts, Zenon
<1>3. FramedField(name, v) = Then(Then(Then(Then(b, d), c), v), l)
  BY <1>1, FieldParts, Zenon
<1>4. Then(Then(Then(Then(Then(b, d), c), v), l), x)
        = Then(b, Then(Then(d, c), Then(v, Then(l, x))))
  BY <1>2, Regrouped
<1>. QED
  BY <1>1, <1>3, <1>4, Zenon

\* A framed value ends where its length says, whatever the value contains and
\* whatever comes after it (signing.py:31-33).
LEMMA FieldDeterminesValue ==
  ASSUME NEW name \in Token, NEW v \in Text, NEW w \in Text, NEW x \in Text, NEW y \in Text,
         Then(FramedField(name, v), x) = Then(FramedField(name, w), y)
  PROVE  v = w /\ x = y
<1>1. PICK b, c, l : b = <<name>> /\ c = <<":">> /\ l = <<"\n">>
  OBVIOUS
<1>2. PICK d, e : d = Decimal[Len(v)] /\ e = Decimal[Len(w)]
  OBVIOUS
<1>3. /\ b \in Text /\ c \in Text /\ l \in Text /\ d \in Text /\ e \in Text
      /\ d \in Seq(DigitSet) /\ e \in Seq(DigitSet) /\ Len(v) \in Nat /\ Len(w) \in Nat
      /\ FramedField(name, v) = Then(Then(Then(Then(b, d), c), v), l)
      /\ FramedField(name, w) = Then(Then(Then(Then(b, e), c), w), l)
  BY <1>1, <1>2, FieldParts, Zenon
<1>4. PICK p, q : p = Then(v, Then(l, x)) /\ q = Then(w, Then(l, y))
  OBVIOUS
<1>5. /\ p \in Text /\ q \in Text /\ Then(l, x) \in Text /\ Then(l, y) \in Text
      /\ Then(Then(d, c), p) \in Text /\ Then(Then(e, c), q) \in Text
  BY <1>3, <1>4, Joined
<1>6. b \in Text /\ c \in Text /\ l \in Text /\ d \in Text /\ e \in Text
  BY <1>3, Zenon
<1>7. Then(FramedField(name, v), x) = Then(b, Then(Then(d, c), p))
  BY <1>1, <1>2, <1>4, FieldReads, Zenon
<1>8. Then(FramedField(name, w), y) = Then(b, Then(Then(e, c), q))
  BY <1>1, <1>2, <1>4, FieldReads, Zenon
<1>9. Then(Then(d, c), p) = Then(Then(e, c), q)
  <2>1. PICK r, s : r = Then(Then(d, c), p) /\ s = Then(Then(e, c), q)
    OBVIOUS
  <2>2. r \in Text /\ s \in Text /\ Then(b, r) = Then(b, s)
    BY <1>5, <1>7, <1>8, <2>1, Zenon
  <2>. QED
    BY <1>6, <2>1, <2>2, Cancelled
<1>10. d = e /\ p = q
  <2>1. Then(Then(d, <<":">>), p) = Then(Then(e, <<":">>), q)
    BY <1>1, <1>9, Zenon
  <2>2. d \in Seq(DigitSet) /\ e \in Seq(DigitSet) /\ p \in Text /\ q \in Text
    BY <1>3, <1>5, Zenon
  <2>. QED
    BY <2>1, <2>2, Separated
<1>11. Len(v) = Len(w)
  <2>1. Len(v) \in Nat /\ Len(w) \in Nat /\ Decimal[Len(v)] = Decimal[Len(w)]
    BY <1>2, <1>3, <1>10, Zenon
  <2>. QED
    BY <2>1, NumeralsDiffer
<1>12. v = w /\ Then(l, x) = Then(l, y)
  <2>1. PICK r, s : r = Then(l, x) /\ s = Then(l, y)
    OBVIOUS
  <2>2. r \in Text /\ s \in Text /\ Then(v, r) = Then(w, s)
    BY <1>4, <1>5, <1>10, <2>1, Zenon
  <2>. QED
    BY <1>11, <2>1, <2>2, Cancelled
<1>. QED
  BY <1>6, <1>12, Cancelled

\* FlattenSeq adds one sequence after the other.
LEMMA FlattenedStepwise ==
  ASSUME NEW n \in Nat \ {0}, NEW seqs \in [1 .. n -> Seq(Token)]
  PROVE  \E f \in [1 .. n -> Seq(Token)] :
           /\ f[1] = seqs[1] /\ FlattenSeq(seqs) = f[n]
           /\ \A i \in 1 .. n - 1 : f[i + 1] = f[i] \o seqs[i + 1]
<1>. DEFINE E == {m \in Nat : \E f : f = [i \in 1 .. m |->
                    IF i = 1 THEN seqs[i] ELSE f[i - 1] \o seqs[i]]}
<1>1. 0 \in E
  <2>1. PICK f : f = [i \in 1 .. 0 |-> seqs[i]]
    OBVIOUS
  <2>2. f = [i \in 1 .. 0 |-> IF i = 1 THEN seqs[i] ELSE f[i - 1] \o seqs[i]]
    BY <2>1
  <2>. QED
    BY <2>2
<1>2. ASSUME NEW m \in Nat, m \in E PROVE m + 1 \in E
  <2>1. PICK f : f = [i \in 1 .. m |-> IF i = 1 THEN seqs[i] ELSE f[i - 1] \o seqs[i]]
    BY <1>2
  <2>2. PICK g : g = [i \in 1 .. m + 1 |->
                  IF i = 1 THEN seqs[i] ELSE f[i - 1] \o seqs[i]]
    OBVIOUS
  <2>3. \A i \in 1 .. m : f[i] = IF i = 1 THEN seqs[i] ELSE f[i - 1] \o seqs[i]
    BY <2>1, Zenon
  <2>4. \A i \in 1 .. m + 1 : g[i] = IF i = 1 THEN seqs[i] ELSE f[i - 1] \o seqs[i]
    BY <2>2, Zenon
  <2>5. \A i \in 1 .. m + 1 : i # 1 => g[i - 1] = f[i - 1]
    <3>1. TAKE i \in 1 .. m + 1
    <3>2. i # 1 => i - 1 \in 1 .. m /\ i - 1 \in 1 .. m + 1
      OBVIOUS
    <3>. QED
      BY <2>3, <2>4, <3>2
  <2>6. [i \in 1 .. m + 1 |-> IF i = 1 THEN seqs[i] ELSE f[i - 1] \o seqs[i]]
          = [i \in 1 .. m + 1 |-> IF i = 1 THEN seqs[i] ELSE g[i - 1] \o seqs[i]]
    BY <2>5, Zenon
  <2>7. g = [i \in 1 .. m + 1 |-> IF i = 1 THEN seqs[i] ELSE g[i - 1] \o seqs[i]]
    BY <2>2, <2>6, Zenon
  <2>8. m + 1 \in Nat
    OBVIOUS
  <2>. QED
    BY <2>7, <2>8, Zenon
<1>3. \A m \in Nat : m \in E
  <2>. HIDE DEF E
  <2>. QED
    BY <1>1, <1>2, Induction
<1>4. PICK f : f = [i \in 1 .. n |-> IF i = 1 THEN seqs[i] ELSE f[i - 1] \o seqs[i]]
  BY <1>3
<1>. DEFINE F == CHOOSE h : h = [i \in 1 .. n |->
                    IF i = 1 THEN seqs[i] ELSE h[i - 1] \o seqs[i]]
<1>5. F = [i \in 1 .. n |-> IF i = 1 THEN seqs[i] ELSE F[i - 1] \o seqs[i]]
  BY <1>4
<1>6. seqs \in Seq(Seq(Token)) /\ Len(seqs) = n
  OBVIOUS
<1>7. FlattenSeq(seqs) = F[n]
  BY <1>6 DEF FlattenSeq
<1>. HIDE DEF F
<1>8. \A i \in 1 .. n : F[i] = IF i = 1 THEN seqs[i] ELSE F[i - 1] \o seqs[i]
  BY <1>5, Zenon
<1>9. \A i \in 1 .. n - 1 : F[i + 1] = F[i] \o seqs[i + 1]
  <2>1. TAKE i \in 1 .. n - 1
  <2>2. i + 1 \in 1 .. n /\ i + 1 # 1 /\ (i + 1) - 1 = i
    OBVIOUS
  <2>. QED
    BY <1>8, <2>2
<1>10. F \in [1 .. n -> Seq(Token)]
  <2>. DEFINE G == {m \in Nat : m + 1 <= n => F[m + 1] \in Seq(Token)}
  <2>1. 0 \in G
    BY <1>8
  <2>2. ASSUME NEW m \in Nat, m \in G PROVE m + 1 \in G
    <3>1. SUFFICES ASSUME m + 2 <= n PROVE F[m + 2] \in Seq(Token)
      OBVIOUS
    <3>2. F[m + 1] \in Seq(Token) /\ seqs[m + 2] \in Seq(Token)
      BY <2>2, <3>1
    <3>3. F[m + 2] = F[m + 1] \o seqs[m + 2]
      <4>1. m + 1 \in 1 .. n - 1 /\ (m + 1) + 1 = m + 2
        BY <3>1
      <4>. QED
        BY <1>9, <4>1
    <3>. QED
      BY <3>2, <3>3
  <2>3. \A m \in Nat : m \in G
    <3>. HIDE DEF G
    <3>. QED
      BY <2>1, <2>2, Induction
  <2>4. ASSUME NEW i \in 1 .. n PROVE F[i] \in Seq(Token)
    <3>1. i - 1 \in Nat /\ (i - 1) + 1 = i
      OBVIOUS
    <3>2. i - 1 \in G
      BY <2>3, <3>1
    <3>3. (i - 1) + 1 <= n => F[(i - 1) + 1] \in Seq(Token)
      BY <3>2
    <3>. QED
      BY <3>1, <3>3
  <2>. QED
    BY <1>5, <2>4
<1>11. F[1] = seqs[1]
  BY <1>8
<1>. QED
  BY <1>7, <1>9, <1>10, <1>11

\* The fields of a frame, one after the other.
LEMMA FieldsStepwise ==
  ASSUME NEW n \in Nat \ {0}, NEW p \in [1 .. n -> Text]
  PROVE  \E f \in [1 .. n -> Text] :
           /\ f[1] = p[1] /\ FlattenSeq(p) = f[n]
           /\ \A i \in 1 .. n - 1 : f[i + 1] = Then(f[i], p[i + 1])
<1>1. PICK f \in [1 .. n -> Seq(Token)] :
        /\ f[1] = p[1] /\ FlattenSeq(p) = f[n]
        /\ \A i \in 1 .. n - 1 : f[i + 1] = f[i] \o p[i + 1]
  <2>1. p \in [1 .. n -> Seq(Token)]
    BY DEF Text
  <2>. QED
    BY <2>1, FlattenedStepwise, Zenon
<1>2. f \in [1 .. n -> Text] /\ \A i \in 1 .. n - 1 : f[i + 1] = Then(f[i], p[i + 1])
  BY <1>1, Zenon DEF Text, Then
<1>. QED
  BY <1>1, <1>2, Zenon

\* The fields of a frame.
Framed(names, v) == FlattenSeq([i \in DOMAIN names |-> FramedField(names[i], v[i])])

\* The fields are read off one after the other, as many as there are.
LEMMA FieldsDetermineValues ==
  ASSUME NEW n \in Nat \ {0}, NEW names \in [1 .. n -> Token],
         NEW v \in [1 .. n -> Text], NEW w \in [1 .. n -> Text],
         Framed(names, v) = Framed(names, w)
  PROVE  \A i \in 1 .. n : v[i] = w[i]
<1>1. PICK p, q : /\ p = [i \in 1 .. n |-> FramedField(names[i], v[i])]
                  /\ q = [i \in 1 .. n |-> FramedField(names[i], w[i])]
  OBVIOUS
<1>2. \A i \in 1 .. n : p[i] = FramedField(names[i], v[i]) /\ q[i] = FramedField(names[i], w[i])
  BY <1>1
<1>3. p \in [1 .. n -> Text] /\ q \in [1 .. n -> Text]
  <2>1. \A i \in 1 .. n : /\ FramedField(names[i], v[i]) \in Text
                          /\ FramedField(names[i], w[i]) \in Text
    BY FieldParts
  <2>. QED
    BY <1>1, <2>1
<1>4. PICK f \in [1 .. n -> Text] :
        /\ f[1] = p[1] /\ FlattenSeq(p) = f[n]
        /\ \A i \in 1 .. n - 1 : f[i + 1] = Then(f[i], p[i + 1])
  BY <1>3, FieldsStepwise, Zenon
<1>5. PICK g \in [1 .. n -> Text] :
        /\ g[1] = q[1] /\ FlattenSeq(q) = g[n]
        /\ \A i \in 1 .. n - 1 : g[i + 1] = Then(g[i], q[i + 1])
  BY <1>3, FieldsStepwise, Zenon
<1>. DEFINE S == {k \in Nat : k + 1 <= n =>
                   \A x, y \in Text : Then(f[k + 1], x) = Then(g[k + 1], y) =>
                     x = y /\ \A i \in 1 .. k + 1 : v[i] = w[i]}
<1>6. 0 \in S
  <2>1. ASSUME NEW x \in Text, NEW y \in Text, Then(f[1], x) = Then(g[1], y)
        PROVE  x = y /\ v[1] = w[1]
    <3>1. 1 \in 1 .. n
      OBVIOUS
    <3>2. Then(FramedField(names[1], v[1]), x) = Then(FramedField(names[1], w[1]), y)
      BY <1>2, <1>4, <1>5, <2>1, <3>1
    <3>3. names[1] \in Token /\ v[1] \in Text /\ w[1] \in Text
      BY <3>1
    <3>. QED
      BY <3>2, <3>3, FieldDeterminesValue
  <2>2. \A i \in 1 .. 0 + 1 : i = 1
    OBVIOUS
  <2>. QED
    BY <2>1, <2>2
<1>7. ASSUME NEW k \in Nat, k \in S PROVE k + 1 \in S
  <2>1. ASSUME k + 2 <= n, NEW x \in Text, NEW y \in Text,
               Then(f[k + 2], x) = Then(g[k + 2], y)
        PROVE  x = y /\ \A i \in 1 .. k + 2 : v[i] = w[i]
    <3>1. /\ k + 1 \in 1 .. n - 1 /\ k + 1 \in 1 .. n /\ k + 2 \in 1 .. n
          /\ (k + 1) + 1 = k + 2
      BY <2>1
    <3>2. PICK a, b, c, d : a = f[k + 1] /\ b = g[k + 1] /\ c = p[k + 2] /\ d = q[k + 2]
      OBVIOUS
    <3>3. a \in Text /\ b \in Text /\ c \in Text /\ d \in Text
      BY <1>3, <3>1, <3>2
    <3>4. f[k + 2] = Then(a, c) /\ g[k + 2] = Then(b, d)
      BY <1>4, <1>5, <3>1, <3>2
    <3>5. Then(a, Then(c, x)) = Then(b, Then(d, y))
      BY <2>1, <3>3, <3>4, Associative
    <3>6. Then(c, x) \in Text /\ Then(d, y) \in Text
      BY <3>3, Joined
    <3>7. Then(c, x) = Then(d, y) /\ \A i \in 1 .. k + 1 : v[i] = w[i]
      <4>1. k + 1 <= n
        BY <2>1
      <4>2. \A s, t \in Text : Then(a, s) = Then(b, t) =>
                     s = t /\ \A i \in 1 .. k + 1 : v[i] = w[i]
        BY <1>7, <3>2, <4>1
      <4>. QED
        BY <3>5, <3>6, <4>2
    <3>8. names[k + 2] \in Token /\ v[k + 2] \in Text /\ w[k + 2] \in Text
      BY <3>1
    <3>9. c = FramedField(names[k + 2], v[k + 2]) /\ d = FramedField(names[k + 2], w[k + 2])
      BY <1>2, <3>1, <3>2
    <3>10. x = y /\ v[k + 2] = w[k + 2]
      BY <3>7, <3>8, <3>9, FieldDeterminesValue
    <3>11. \A i \in 1 .. k + 2 : i \in 1 .. k + 1 \/ i = k + 2
      OBVIOUS
    <3>. QED
      BY <3>7, <3>10, <3>11
  <2>2. (k + 1) + 1 = k + 2 /\ k + 1 \in Nat
    OBVIOUS
  <2>. QED
    BY <2>1, <2>2
<1>8. n - 1 \in S
  <2>1. \A k \in Nat : k \in S
    <3>. HIDE DEF S
    <3>. QED
      BY <1>6, <1>7, Induction
  <2>2. n - 1 \in Nat
    OBVIOUS
  <2>. QED
    BY <2>1, <2>2
<1>9. (n - 1) + 1 = n
  OBVIOUS
<1>10. \A x, y \in Text : Then(f[n], x) = Then(g[n], y) => \A i \in 1 .. n : v[i] = w[i]
  BY <1>8, <1>9
<1>11. f[n] = g[n]
  <2>1. DOMAIN names = 1 .. n
    OBVIOUS
  <2>2. Framed(names, v) = FlattenSeq(p) /\ Framed(names, w) = FlattenSeq(q)
    BY <1>1, <2>1, Zenon DEF Framed
  <2>. QED
    BY <1>4, <1>5, <2>2
<1>12. << >> \in Text
  BY DEF Text
<1>. QED
  BY <1>10, <1>11, <1>12

-----------------------------------------------------------------------------
(* Commands and manifests.                                                 *)

\* A frame of n fields is its domain line and its fields.
LEMMA FramesAreRead ==
  ASSUME NEW n \in Nat \ {0}, NEW names \in [1 .. n -> Token], NEW domain \in Token,
         NEW v \in [1 .. n -> Text]
  PROVE  /\ Framed(names, v) \in Text /\ <<domain>> \in Text
         /\ Frame(domain, names, v) = Then(<<domain>>, Framed(names, v))
<1>1. PICK p : p = [i \in 1 .. n |-> FramedField(names[i], v[i])]
  OBVIOUS
<1>2. \A i \in 1 .. n : FramedField(names[i], v[i]) \in Text
  BY FieldParts
<1>3. p \in [1 .. n -> Text]
  BY <1>1, <1>2
<1>4. FlattenSeq(p) \in Text
  BY <1>3, FieldsStepwise
<1>5. Framed(names, v) = FlattenSeq(p)
  <2>1. DOMAIN names = 1 .. n
    OBVIOUS
  <2>. QED
    BY <1>1, <2>1, Zenon DEF Framed
<1>6. Frame(domain, names, v) = Then(<<domain>>, Framed(names, v))
  BY Zenon DEF Frame, Then, Framed
<1>7. <<domain>> \in Text
  BY DEF Text
<1>. QED
  BY <1>4, <1>5, <1>6, <1>7

\* Two frames with the same names and bytes have the same values, and frames
\* of different domains differ.
LEMMA FramesDetermineValues ==
  ASSUME NEW n \in Nat \ {0}, NEW names \in [1 .. n -> Token], NEW domain \in Token,
         NEW v \in [1 .. n -> Text], NEW w \in [1 .. n -> Text],
         Frame(domain, names, v) = Frame(domain, names, w)
  PROVE  \A i \in 1 .. n : v[i] = w[i]
<1>1. PICK b, s, t : b = <<domain>> /\ s = Framed(names, v) /\ t = Framed(names, w)
  OBVIOUS
<1>2. b \in Text /\ s \in Text /\ t \in Text /\ Then(b, s) = Then(b, t)
  BY <1>1, FramesAreRead
<1>3. s = t
  BY <1>2, Cancelled
<1>. QED
  <2>1. Framed(names, v) = Framed(names, w)
    BY <1>1, <1>3
  <2>. QED
    BY <2>1, FieldsDetermineValues, Zenon

LEMMA DomainsDiffer ==
  ASSUME NEW b \in Token, NEW c \in Token, b # c, NEW s \in Text, NEW t \in Text
  PROVE  Then(<<b>>, s) # Then(<<c>>, t)
<1>1. PICK x, y : x = <<b>> /\ y = <<c>>
  OBVIOUS
<1>2. x \in Text /\ y \in Text /\ Len(x) = 1 /\ Len(y) = 1 /\ x # y
  BY <1>1 DEF Text
<1>3. Then(x, s) # Then(y, t)
  BY <1>2, Cancelled
<1>. QED
  BY <1>1, <1>3

LEMMA CommandNames ==
  /\ CommandFields \in [1 .. 12 -> Token]
  /\ "panopticon-command-auth/1" \in Token
<1>1. \A i \in DOMAIN CommandFields : CommandFields[i] \in Token
  BY DEF Token
<1>2. DOMAIN CommandFields = 1 .. 12
  BY DEF CommandFields
<1>3. CommandFields = [i \in 1 .. 12 |-> CommandFields[i]]
  BY <1>2 DEF CommandFields
<1>. QED
  BY <1>1, <1>2, <1>3 DEF Token

LEMMA ManifestNames ==
  /\ FIELDS \in [1 .. 13 -> Token]
  /\ "panopticon-response-artifact-auth/2" \in Token
<1>1. \A i \in DOMAIN FIELDS : FIELDS[i] \in Token
  BY DEF Token
<1>2. DOMAIN FIELDS = 1 .. 13
  BY DEF FIELDS
<1>3. FIELDS = [i \in 1 .. 13 |-> FIELDS[i]]
  BY <1>2 DEF FIELDS
<1>. QED
  BY <1>1, <1>2, <1>3 DEF Token

\* The signing inputs of commands that can be signed.
Input ==
  [schema : {"1", "2"}, command_id : Seq(Characters), correlation_id : Seq(Characters),
   agent_id : Seq(Characters), host_id : Seq(Characters), action : ClosedActions,
   created_at : Nat, expires_at : Nat, pid : Nat, ticks : Nat,
   boot : {NoBoot} \cup [form : {"digest"}, n : Nat], path : Seq(Characters)]

LEMMA InputsAreInput ==
  ASSUME NEW e, Typed(e), Signable(e)
  PROVE  SigningInput(e) \in Input
<1>1. /\ e.command_id \in Seq(Characters) /\ e.correlation_id \in Seq(Characters)
      /\ e.agent_id \in Seq(Characters) /\ e.host_id \in Seq(Characters)
      /\ e.file \in Seq(Characters)
  BY DEF Typed
<1>2. e.created_at.second \in Nat /\ e.expires_at.second \in Nat
  BY DEF Typed, Signable, ValidTime, Time
<1>3. e.action \in ClosedActions /\ ImpliedSchema(e.target) \in {"1", "2"}
  BY DEF Signable, ImpliedSchema
<1>4. e.target \in Target /\ ValidCommand(e.schema, e.action, e.target, e.expires_at.notation # "naive")
  BY DEF Typed, Signable
<1>5. /\ e.target.pid.n \in Nat /\ e.target.ticks.n \in Nat
      /\ e.target.boot \in {NoBoot} \cup [form : {"digest"}, n : Nat]
  <2>1. /\ e.target.pid.n \in Int /\ e.target.ticks.n \in Int
        /\ e.target.boot \in [form : {"digest", "uuid", "absent"}, n : Nat]
    BY <1>4 DEF Target, Field
  <2>2. CASE e.schema = "2"
    BY <1>4, <2>1, <2>2 DEF ValidCommand, PositiveWithin
  <2>3. CASE e.schema # "2" /\ e.action \in ProcessActions
    BY <1>4, <2>1, <2>3 DEF ValidCommand, Target
  <2>4. CASE e.schema # "2" /\ e.action \notin ProcessActions
    BY <1>4, <2>4 DEF ValidCommand, Target, Absent, Value
  <2>. QED
    BY <2>2, <2>3, <2>4
<1>. QED
  BY <1>1, <1>2, <1>3, <1>5 DEF SigningInput, Input, EpochSeconds, Unsigned

LEMMA NumeralsAreText == \A n \in Nat : Decimal[n] \in Text
<1>1. DigitSet \subseteq Token
  BY DEF Token
<1>. QED
  BY <1>1, NumeralsAreDigits, SeqMonotonic DEF Text

LEMMA CharactersAreText == Seq(Characters) \subseteq Text
<1>1. Characters \subseteq Token
  BY DEF Token
<1>. QED
  BY <1>1, SeqMonotonic DEF Text

\* What is written for a boot.
Booted(boot) == IF boot = NoBoot THEN << >> ELSE <<boot.form>> \o Decimal[boot.n]

LEMMA BootsAreText ==
  ASSUME NEW boot \in {NoBoot} \cup [form : {"digest"}, n : Nat]
  PROVE  Booted(boot) \in Text
<1>1. CASE boot = NoBoot
  BY <1>1 DEF Booted, Text
<1>2. CASE boot # NoBoot
  <2>1. PICK d : d = Decimal[boot.n]
    OBVIOUS
  <2>2. <<boot.form>> \in Text /\ d \in Text
    <3>1. boot.form = "digest" /\ boot.n \in Nat
      BY <1>2
    <3>2. <<boot.form>> \in Text
      BY <3>1 DEF Text, Token
    <3>. QED
      BY <2>1, <3>1, <3>2, NumeralsAreText
  <2>3. Then(<<boot.form>>, d) \in Text
    BY <2>2, Joined
  <2>. QED
    BY <1>2, <2>1, <2>3 DEF Booted, Then
<1>. QED
  BY <1>1, <1>2

LEMMA BootsDiffer ==
  ASSUME NEW a \in {NoBoot} \cup [form : {"digest"}, n : Nat],
         NEW b \in {NoBoot} \cup [form : {"digest"}, n : Nat],
         Booted(a) = Booted(b)
  PROVE  a = b
<1>1. ASSUME NEW c \in {NoBoot} \cup [form : {"digest"}, n : Nat], c # NoBoot
      PROVE  c = [form |-> "digest", n |-> c.n] /\ c.n \in Nat
             /\ Booted(c) = Then(<<"digest">>, Decimal[c.n]) /\ Booted(c) # << >>
  <2>1. c = [form |-> "digest", n |-> c.n] /\ c.n \in Nat
    BY <1>1
  <2>2. Booted(c) = Then(<<"digest">>, Decimal[c.n])
    BY <1>1, <2>1 DEF Booted, Then
  <2>3. PICK d : d = Decimal[c.n]
    OBVIOUS
  <2>4. d \in Text
    BY <2>1, <2>3, NumeralsAreText
  <2>5. Then(<<"digest">>, d) # << >>
    <3>1. <<"digest">> \in Text /\ Len(<<"digest">>) = 1
      BY DEF Text, Token
    <3>2. Len(Then(<<"digest">>, d)) = 1 + Len(d) /\ Len(d) \in Nat
      BY <2>4, <3>1, ConcatProperties, LenProperties DEF Text, Then
    <3>. QED
      BY <3>2
  <2>. QED
    BY <2>1, <2>2, <2>3, <2>5
<1>2. Booted(NoBoot) = << >>
  BY DEF Booted
<1>3. CASE a = NoBoot \/ b = NoBoot
  BY <1>1, <1>2, <1>3
<1>4. CASE a # NoBoot /\ b # NoBoot
  <2>1. PICK x, d, e : x = <<"digest">> /\ d = Decimal[a.n] /\ e = Decimal[b.n]
    OBVIOUS
  <2>2. Then(x, d) = Then(x, e) /\ a.n \in Nat /\ b.n \in Nat
    BY <1>1, <1>4, <2>1, Zenon
  <2>3. x \in Text
    BY <2>1 DEF Text, Token
  <2>4. d \in Text /\ e \in Text
    BY <2>1, <2>2, NumeralsAreText
  <2>5. d = e
    BY <2>2, <2>3, <2>4, Cancelled
  <2>6. a.n = b.n
    BY <2>1, <2>2, <2>5, NumeralsDiffer
  <2>. QED
    BY <1>1, <1>4, <2>6
<1>. QED
  BY <1>3, <1>4

\* The twelve values of a command are texts, and determine its input.
LEMMA ValuesAreText ==
  ASSUME NEW i \in Input
  PROVE  CommandValues(i) \in [1 .. 12 -> Text]
<1>1. /\ <<i.schema>> \in Text /\ <<i.action>> \in Text
  BY DEF Input, Text, Token, DigitSet
<1>2. /\ i.command_id \in Text /\ i.correlation_id \in Text /\ i.agent_id \in Text
      /\ i.host_id \in Text /\ i.path \in Text
  BY CharactersAreText DEF Input
<1>3. /\ Decimal[i.created_at] \in Text /\ Decimal[i.expires_at] \in Text
      /\ Decimal[i.pid] \in Text /\ Decimal[i.ticks] \in Text
  BY NumeralsAreText DEF Input
<1>4. Booted(i.boot) \in Text
  BY BootsAreText DEF Input
<1>5. CommandValues(i)
        = << <<i.schema>>, i.command_id, i.correlation_id, i.agent_id, i.host_id,
             <<i.action>>, Decimal[i.created_at], Decimal[i.expires_at], Decimal[i.pid],
             Decimal[i.ticks], Booted(i.boot), i.path >>
  BY DEF CommandValues, Booted
<1>. QED
  BY <1>1, <1>2, <1>3, <1>4, <1>5

LEMMA ValuesDetermineInput ==
  ASSUME NEW i \in Input, NEW j \in Input,
         \A k \in 1 .. 12 : CommandValues(i)[k] = CommandValues(j)[k]
  PROVE  i = j
<1>1. ASSUME NEW x \in Input
      PROVE  LET v == CommandValues(x) IN
             /\ v[1] = <<x.schema>> /\ v[2] = x.command_id /\ v[3] = x.correlation_id
             /\ v[4] = x.agent_id /\ v[5] = x.host_id /\ v[6] = <<x.action>>
             /\ v[7] = Decimal[x.created_at] /\ v[8] = Decimal[x.expires_at]
             /\ v[9] = Decimal[x.pid] /\ v[10] = Decimal[x.ticks]
             /\ v[11] = Booted(x.boot) /\ v[12] = x.path
  BY DEF CommandValues, Booted
<1>2. /\ <<i.schema>> = <<j.schema>> /\ i.command_id = j.command_id
      /\ i.correlation_id = j.correlation_id /\ i.agent_id = j.agent_id
      /\ i.host_id = j.host_id /\ <<i.action>> = <<j.action>>
      /\ Decimal[i.created_at] = Decimal[j.created_at]
      /\ Decimal[i.expires_at] = Decimal[j.expires_at]
      /\ Decimal[i.pid] = Decimal[j.pid] /\ Decimal[i.ticks] = Decimal[j.ticks]
      /\ Booted(i.boot) = Booted(j.boot) /\ i.path = j.path
  <2>1. \A k \in {1, 2, 3, 4, 5, 6, 7, 8, 9, 10, 11, 12} : k \in 1 .. 12
    OBVIOUS
  <2>. QED
    BY <1>1, <2>1
<1>3. i.schema = j.schema /\ i.action = j.action
  BY <1>2
<1>4. /\ i.created_at = j.created_at /\ i.expires_at = j.expires_at
      /\ i.pid = j.pid /\ i.ticks = j.ticks
  BY <1>2, NumeralsDiffer DEF Input
<1>5. i.boot = j.boot
  BY <1>2, BootsDiffer DEF Input
<1>6. ASSUME NEW x \in Input
      PROVE  x = [schema |-> x.schema, command_id |-> x.command_id,
                  correlation_id |-> x.correlation_id, agent_id |-> x.agent_id,
                  host_id |-> x.host_id, action |-> x.action, created_at |-> x.created_at,
                  expires_at |-> x.expires_at, pid |-> x.pid, ticks |-> x.ticks,
                  boot |-> x.boot, path |-> x.path]
  BY DEF Input
<1>. QED
  BY <1>2, <1>3, <1>4, <1>5, <1>6

\* The bytes that are signed determine what is signed, whatever the identifiers
\* and the path contain (signing.py:86-107).
THEOREM CommandBytesDetermineInput ==
  ASSUME NEW a, NEW b, Typed(a), Typed(b), Signable(a), Signable(b),
         CommandBytes(SigningInput(a)) = CommandBytes(SigningInput(b))
  PROVE  SigningInput(a) = SigningInput(b)
<1>1. PICK i, j : i = SigningInput(a) /\ j = SigningInput(b)
  OBVIOUS
<1>2. i \in Input /\ j \in Input
  BY <1>1, InputsAreInput
<1>3. PICK v, w : v = CommandValues(i) /\ w = CommandValues(j)
  OBVIOUS
<1>4. v \in [1 .. 12 -> Text] /\ w \in [1 .. 12 -> Text]
  BY <1>2, <1>3, ValuesAreText
<1>5. Frame("panopticon-command-auth/1", CommandFields, v)
        = Frame("panopticon-command-auth/1", CommandFields, w)
  BY <1>1, <1>3, Zenon DEF CommandBytes
<1>6. \A k \in 1 .. 12 : v[k] = w[k]
  <2>1. PICK size, names, domain : /\ size = 12 /\ names = CommandFields
                                  /\ domain = "panopticon-command-auth/1"
    OBVIOUS
  <2>2. /\ size \in Nat \ {0} /\ names \in [1 .. size -> Token] /\ domain \in Token
        /\ v \in [1 .. size -> Text] /\ w \in [1 .. size -> Text]
    BY <1>4, <2>1, CommandNames
  <2>3. Frame(domain, names, v) = Frame(domain, names, w)
    BY <1>5, <2>1
  <2>4. \A k \in 1 .. size : v[k] = w[k]
    BY <2>2, <2>3, FramesDetermineValues
  <2>. QED
    BY <2>1, <2>4
<1>. QED
  BY <1>1, <1>2, <1>3, <1>6, ValuesDetermineInput

LEMMA ManifestsAreText ==
  ASSUME NEW m \in Manifests
  PROVE  [i \in DOMAIN FIELDS |-> m[FIELDS[i]]] \in [1 .. 13 -> Text]
<1>1. DOMAIN FIELDS = 1 .. 13
  BY DEF FIELDS
<1>2. \A i \in 1 .. 13 : FIELDS[i] \in ToSet(FIELDS)
  BY <1>1, Zenon DEF ToSet
<1>3. m \in [ToSet(FIELDS) -> Seq(Characters)]
  BY FramingAssumption
<1>4. \A i \in 1 .. 13 : m[FIELDS[i]] \in Text
  BY <1>2, <1>3, CharactersAreText
<1>. QED
  BY <1>1, <1>4

\* The bytes of a manifest determine the manifest (artifacts.py:51-58).
THEOREM ArtifactBytesDetermineManifest ==
  ASSUME NEW m \in Manifests, NEW n \in Manifests, ArtifactBytes(m) = ArtifactBytes(n)
  PROVE  m = n
<1>1. PICK v, w : /\ v = [i \in DOMAIN FIELDS |-> m[FIELDS[i]]]
                  /\ w = [i \in DOMAIN FIELDS |-> n[FIELDS[i]]]
  OBVIOUS
<1>2. v \in [1 .. 13 -> Text] /\ w \in [1 .. 13 -> Text]
  BY <1>1, ManifestsAreText
<1>3. Frame("panopticon-response-artifact-auth/2", FIELDS, v)
        = Frame("panopticon-response-artifact-auth/2", FIELDS, w)
  BY <1>1, Zenon DEF ArtifactBytes
<1>4. \A i \in 1 .. 13 : v[i] = w[i]
  <2>1. PICK size, names, domain : /\ size = 13 /\ names = FIELDS
                                  /\ domain = "panopticon-response-artifact-auth/2"
    OBVIOUS
  <2>2. /\ size \in Nat \ {0} /\ names \in [1 .. size -> Token] /\ domain \in Token
        /\ v \in [1 .. size -> Text] /\ w \in [1 .. size -> Text]
    BY <1>2, <2>1, ManifestNames
  <2>3. Frame(domain, names, v) = Frame(domain, names, w)
    BY <1>3, <2>1
  <2>4. \A i \in 1 .. size : v[i] = w[i]
    BY <2>2, <2>3, FramesDetermineValues
  <2>. QED
    BY <2>1, <2>4
<1>5. DOMAIN FIELDS = 1 .. 13
  BY DEF FIELDS
<1>6. \A i \in DOMAIN FIELDS : m[FIELDS[i]] = n[FIELDS[i]]
  BY <1>1, <1>4, <1>5
<1>7. \A f \in ToSet(FIELDS) : m[f] = n[f]
  BY <1>6, Zenon DEF ToSet
<1>8. m \in [ToSet(FIELDS) -> Seq(Characters)] /\ n \in [ToSet(FIELDS) -> Seq(Characters)]
  BY FramingAssumption
<1>. QED
  BY <1>7, <1>8

\* No command has the bytes of a manifest: a signature of one is never one of the
\* other (signing.py:102, artifacts.py:51).
THEOREM CommandBytesAreNoManifest ==
  ASSUME NEW e, Typed(e), Signable(e), NEW m \in Manifests
  PROVE  ArtifactBytes(m) # CommandBytes(SigningInput(e))
<1>1. PICK v, w : /\ v = CommandValues(SigningInput(e))
                  /\ w = [i \in DOMAIN FIELDS |-> m[FIELDS[i]]]
  OBVIOUS
<1>2. v \in [1 .. 12 -> Text] /\ w \in [1 .. 13 -> Text]
  BY <1>1, InputsAreInput, ValuesAreText, ManifestsAreText
<1>3. PICK s \in Text :
        CommandBytes(SigningInput(e)) = Then(<<"panopticon-command-auth/1">>, s)
  <2>1. 12 \in Nat \ {0}
    OBVIOUS
  <2>. QED
    BY <1>1, <1>2, <2>1, CommandNames, FramesAreRead, Zenon DEF CommandBytes
<1>4. PICK t \in Text :
        ArtifactBytes(m) = Then(<<"panopticon-response-artifact-auth/2">>, t)
  <2>1. 13 \in Nat \ {0}
    OBVIOUS
  <2>. QED
    BY <1>1, <1>2, <2>1, ManifestNames, FramesAreRead, Zenon DEF ArtifactBytes
<1>5. "panopticon-command-auth/1" # "panopticon-response-artifact-auth/2"
  OBVIOUS
<1>. QED
  BY <1>3, <1>4, <1>5, CommandNames, ManifestNames, DomainsDiffer

-----------------------------------------------------------------------------
\* Among the commands that are on the way or were authorized, and the manifests,
\* equal bytes mean equal fields, in every state (signing.py:31-33, 102-107,
\* artifacts.py:51-58).
THEOREM BytesTellTheFields == Spec => []BytesDetermineFields
<1>1. ASSUME SignedInv PROVE BytesDetermineFields
  <2>1. ASSUME NEW e \in authorized, NEW w \in wire, Signable(w.envelope),
               CommandBytes(SigningInput(w.envelope)) = CommandBytes(SigningInput(e))
        PROVE  SigningInput(w.envelope) = SigningInput(e)
    <3>1. Typed(e) /\ Signable(e) /\ Typed(w.envelope)
      BY <1>1, SigningAssumption DEF SignedInv
    <3>. QED
      BY <2>1, <3>1, CommandBytesDetermineInput
  <2>2. ASSUME NEW e \in authorized, NEW m \in Manifests
        PROVE  ArtifactBytes(m) # CommandBytes(SigningInput(e))
    <3>1. Typed(e) /\ Signable(e)
      BY <1>1, SigningAssumption DEF SignedInv
    <3>. QED
      BY <3>1, CommandBytesAreNoManifest
  <2>. QED
    BY <2>1, <2>2 DEF BytesDetermineFields
<1>2. Init => SignedInv
  BY DEF Init, SignedInv, ExecutedIsAuthorized
<1>. QED
  BY <1>1, <1>2, SignedInductive, PTL DEF Spec
=============================================================================
