------------------------------- MODULE Echo -------------------------------
(***************************************************************************)
(* The message loop of mqtt(): a payload is received, read as UTF-8, cut   *)
(* to what a heapless::String has room for after "Echoing back: ", and     *)
(* published.                                                              *)
(*                                                                         *)
(* Of an octet only its role in UTF-8 is kept: w in 1..4 is the first      *)
(* octet of a character of w octets, 0 a continuation octet. An octet that *)
(* occurs nowhere in UTF-8 is a continuation octet out of place.           *)
(***************************************************************************)
EXTENDS Naturals, Sequences

CONSTANTS
    Capacity,   \* octets in the heapless::String; 512 in the code
    Greeting,   \* octets in "Echoing back: "; 14 in the code
    MaxPayload  \* bound: the longest payload, at most MQTT_RX_SIZE in the code

ASSUME EchoAssumption ==
    /\ Capacity \in Nat /\ Greeting \in Nat /\ MaxPayload \in Nat
    /\ Greeting <= Capacity

VARIABLES
    stage,      \* where the loop is
    payload,    \* msg.payload()
    string      \* the octets pushed after the greeting

vars == << stage, payload, string >>

Octets == 0 .. 4
Payloads == UNION { [1 .. n -> Octets] : n \in 0 .. MaxPayload }

\* What core::str::from_utf8 accepts: every first octet is followed by the
\* continuation octets it announces, and there are no others.
IsUtf8(s) ==
    \A i \in 1 .. Len(s) :
        IF s[i] = 0
        THEN \E j \in 1 .. i - 1 : s[j] > i - j
        ELSE \A k \in 1 .. s[i] - 1 : i + k <= Len(s) /\ s[i + k] = 0

\* str::is_char_boundary, which the index text[..n] asserts.
IsCharBoundary(s, n) == n = 0 \/ n = Len(s) \/ (n < Len(s) /\ s[n + 1] # 0)

MinOf(a, b) == IF a <= b THEN a ELSE b

Init == stage = "recv" /\ payload = << >> /\ string = << >>

-----------------------------------------------------------------------------
\* Mutant: from_utf8_unchecked.
BugRecv ==
    /\ stage = "recv"
    /\ payload' \in Payloads
    /\ stage' = "string"
    /\ UNCHANGED string

Recv ==
    /\ stage = "recv"
    /\ payload' \in Payloads
    /\ stage' = IF IsUtf8(payload') THEN "string" ELSE "disconnect"
    /\ UNCHANGED string

NewString ==
    /\ stage = "string"
    /\ string' = << >>
    /\ stage' = "push"
    /\ UNCHANGED payload

\* Mutant: the greeting is forgotten in the count.
BugTake == MinOf(Len(payload), Capacity)

Take == MinOf(Len(payload), Capacity - Greeting)

\* push_str pushes all of its argument or nothing, and the error is dropped.
PushStr(s) ==
    string' = IF Greeting + Len(string) + Len(s) <= Capacity THEN string \o s
              ELSE string

\* Mutant: the text is appended whole and without a check of the capacity.
BugPush ==
    /\ stage = "push"
    /\ string' = string \o payload
    /\ stage' = "publish"
    /\ UNCHANGED payload

Push ==
    /\ stage = "push"
    /\ IsCharBoundary(payload, Take)
    /\ PushStr(SubSeq(payload, 1, Take))
    /\ stage' = "publish"
    /\ UNCHANGED payload

PushPanics ==
    /\ stage = "push"
    /\ ~IsCharBoundary(payload, Take)
    /\ stage' = "panicked"
    /\ UNCHANGED << payload, string >>

\* Ok and PubError::Payload go on with the next message; PubError::Session ends
\* the session.
Publish ==
    /\ stage = "publish"
    /\ stage' \in {"recv", "disconnect"}
    /\ UNCHANGED << payload, string >>

Next == Recv \/ NewString \/ Push \/ PushPanics \/ Publish

Spec == Init /\ [][Next]_vars

-----------------------------------------------------------------------------
Stages == { "recv", "string", "push", "publish", "disconnect", "panicked" }

\* The string, greeting included, fits the heapless::String.
TypeOK ==
    /\ stage \in Stages
    /\ payload \in Seq(Octets) /\ string \in Seq(Octets)
    /\ Greeting + Len(string) <= Capacity

\* Whatever the broker sends, and wherever the text is cut, what is published
\* is UTF-8: the cut at a byte count never lets half a character through.
PublishedIsUtf8 == stage = "publish" => IsUtf8(string)

\* The push_str whose result is dropped never fails: what is published is the
\* start of this message's text, all of it or as much as there is room for.
PublishedIsEcho ==
    stage = "publish" =>
        /\ Len(string) = Len(payload) \/ Greeting + Len(string) = Capacity
        /\ \A i \in 1 .. Len(string) : string[i] = payload[i]

\* The code cuts the text at take, a byte count, to echo a text of any length:
\* the index text[..take] does not panic.
CutNeverPanics == stage # "panicked"
=============================================================================
