---------------------------- MODULE EchoProofs ----------------------------
(***************************************************************************)
(* What the echo of mqtt() publishes, for every capacity, greeting and     *)
(* payload.                                                                *)
(***************************************************************************)
EXTENDS Echo, TLAPS

\* A text cut where is_char_boundary holds is UTF-8.
LEMMA CutIsUtf8 ==
    ASSUME NEW s \in Seq(Octets), NEW n \in 0 .. Len(s),
           IsUtf8(s), IsCharBoundary(s, n)
    PROVE  IsUtf8(SubSeq(s, 1, n))
<1> DEFINE t == SubSeq(s, 1, n)
<1>1. t \in Seq(Octets) /\ Len(t) = n /\ \A i \in 1 .. n : t[i] = s[i]
  OBVIOUS
<1>2. SUFFICES ASSUME NEW i \in 1 .. n
               PROVE  IF s[i] = 0 THEN \E j \in 1 .. i - 1 : s[j] > i - j
                      ELSE \A k \in 1 .. s[i] - 1 : i + k <= n /\ s[i + k] = 0
  <2>1. \A i \in 1 .. n : \A j \in 1 .. i - 1 : t[j] = s[j]
    BY <1>1
  <2>2. \A i \in 1 .. n : \A k \in 1 .. s[i] - 1 : i + k <= n => t[i + k] = s[i + k]
    <3>1. \A i \in 1 .. n : s[i] \in Octets
      OBVIOUS
    <3> QED BY <1>1, <3>1 DEF Octets
  <2> HIDE DEF t
  <2> QED BY <1>1, <2>1, <2>2 DEF IsUtf8
<1>3. i \in 1 .. Len(s) /\ s[i] \in Octets
  OBVIOUS
<1>4. CASE s[i] = 0
  BY <1>3, <1>4 DEF IsUtf8
<1>5. CASE s[i] # 0
  <2>1. \A k \in 1 .. s[i] - 1 : i + k <= Len(s) /\ s[i + k] = 0
    BY <1>3, <1>5 DEF IsUtf8
  <2>2. ASSUME NEW k \in 1 .. s[i] - 1, i + k > n PROVE FALSE
    <3>1. n + 1 - i \in 1 .. s[i] - 1 /\ n # 0
      BY <1>3, <2>2 DEF Octets
    <3>2. n + 1 <= Len(s) /\ s[n + 1] = 0
      BY <2>1, <3>1, <1>3 DEF Octets
    <3> QED BY <3>1, <3>2 DEF IsCharBoundary
  <2> QED BY <1>3, <1>5, <2>1, <2>2 DEF Octets
<1> QED BY <1>4, <1>5

\* The loop reads the text only after from_utf8 has accepted it, and pushes it
\* to a string that holds the greeting alone.
EchoInv ==
    /\ TypeOK
    /\ stage \in {"string", "push", "publish"} => IsUtf8(payload)
    /\ stage = "push" => string = << >>
    /\ PublishedIsUtf8
    /\ PublishedIsEcho

LEMMA TakeFits ==
    ASSUME TypeOK
    PROVE  /\ Take \in 0 .. Len(payload)
           /\ Greeting + Take <= Capacity
           /\ Take = Len(payload) \/ Greeting + Take = Capacity
BY EchoAssumption DEF TypeOK, Take, MinOf

LEMMA EchoInvInit == Init => EchoInv
BY EchoAssumption DEF Init, EchoInv, TypeOK, Stages, PublishedIsUtf8, PublishedIsEcho

LEMMA EchoInvNext == EchoInv /\ [Next]_vars => EchoInv'
<1> SUFFICES ASSUME EchoInv, [Next]_vars PROVE EchoInv'
  OBVIOUS
<1> USE DEF EchoInv, PublishedIsUtf8, PublishedIsEcho, Stages
<1>1. CASE Recv
  <2>1. payload' \in Seq(Octets)
    BY <1>1 DEF Recv, Payloads
  <2> QED BY <1>1, <2>1 DEF Recv, TypeOK
<1>2. CASE NewString
  BY <1>2, EchoAssumption DEF NewString, TypeOK
<1>3. CASE Push
  <2> DEFINE cut == SubSeq(payload, 1, Take)
  <2>1. payload \in Seq(Octets) /\ IsUtf8(payload) /\ string = << >>
    BY <1>3 DEF Push, TypeOK
  <2>2. Take \in 0 .. Len(payload) /\ Greeting + Take <= Capacity
        /\ (Take = Len(payload) \/ Greeting + Take = Capacity)
    BY TakeFits
  <2>3. /\ cut \in Seq(Octets) /\ Len(cut) = Take
        /\ \A i \in 1 .. Take : cut[i] = payload[i]
    BY <2>1, <2>2
  <2>4. IsUtf8(cut)
    BY <2>1, <2>2, <1>3, CutIsUtf8 DEF Push
  <2>5. string' = cut /\ payload' = payload /\ stage' = "publish"
    <3> HIDE DEF cut
    <3>1. string \o cut = cut
      BY <2>1, <2>3
    <3>2. Greeting + Len(string) + Len(cut) <= Capacity
      BY <2>1, <2>2, <2>3, EchoAssumption
    <3>3. string' = (IF Greeting + Len(string) + Len(cut) <= Capacity
                     THEN string \o cut ELSE string)
      BY <1>3 DEF Push, PushStr, cut
    <3> QED BY <3>1, <3>2, <3>3, <1>3 DEF Push
  <2> HIDE DEF cut
  <2> QED BY <2>1, <2>2, <2>3, <2>4, <2>5 DEF TypeOK
<1>4. CASE PushPanics
  BY <1>4 DEF PushPanics, TypeOK
<1>5. CASE Publish
  BY <1>5 DEF Publish, TypeOK
<1>6. CASE UNCHANGED vars
  BY <1>6 DEF vars, TypeOK
<1> QED BY <1>1, <1>2, <1>3, <1>4, <1>5, <1>6 DEF Next

\* The string of the echo, greeting included, never outgrows its capacity.
THEOREM TypeCorrect == Spec => []TypeOK
<1>1. EchoInv => TypeOK
  BY DEF EchoInv
<1> QED BY EchoInvInit, EchoInvNext, <1>1, PTL DEF Spec

\* What mqtt_task publishes is UTF-8, wherever the text is cut.
THEOREM EchoIsUtf8 == Spec => []PublishedIsUtf8
<1>1. EchoInv => PublishedIsUtf8
  BY DEF EchoInv
<1> QED BY EchoInvInit, EchoInvNext, <1>1, PTL DEF Spec

\* What mqtt_task publishes is the text it received, or as much of it as fits.
THEOREM EchoIsComplete == Spec => []PublishedIsEcho
<1>1. EchoInv => PublishedIsEcho
  BY DEF EchoInv
<1> QED BY EchoInvInit, EchoInvNext, <1>1, PTL DEF Spec
=============================================================================
