-------------------------- MODULE TranscriptProofs --------------------------
(***************************************************************************)
(* The validators of tool transcripts accept exactly the well-formed       *)
(* transcripts: for every transcript, whatever its length and its ids.     *)
(*                                                                         *)
(* The loops of the validators keep the calls of the span that is open, so *)
(* the proof needs to know what a transcript looks like whose last span is *)
(* still open: it is sound (Ok), and some calls of its last assistant are  *)
(* pending.  As long as the validator has found nothing, the transcript is *)
(* Ok and the span holds exactly the pending calls; once it has found      *)
(* something, no longer transcript is Ok either.                           *)
(***************************************************************************)
EXTENDS TranscriptCheck, FiniteSets, FiniteSetsExt, WellFoundedInduction, TLAPS

-----------------------------------------------------------------------------
(* Transcripts whose last span may be open *)

Callers(t) == {i \in DOMAIN t : Counts(t[i])}
Results(t) == {r \in DOMAIN t : t[r].role = "toolResult"}
Called(t) == {id \in Nat : \E i \in Callers(t) : id \in Ids(t[i].calls)}
Answered(t) == {t[r].id : r \in Results(t)}
Pending(t) == Called(t) \ Answered(t)

DistinctCalls(t) ==
    \A i \in Callers(t) : \A k \in DOMAIN t[i].calls :
        /\ t[i].calls[k] # Blank
        /\ \A j \in Callers(t) : \A l \in DOMAIN t[j].calls :
             t[i].calls[k] = t[j].calls[l] => i = j /\ k = l

ResultsAnswer(t) ==
    \A r \in Results(t) : t[r].id # Blank /\ \E i \in Callers(t) : Answers(t, r, i)

DistinctResults(t) == \A r, q \in Results(t) : t[r].id = t[q].id => r = q

\* A call is answered, or its span is still open.
OpenOrAnswered(t) ==
    \A i \in Callers(t) : \A id \in Ids(t[i].calls) :
        id \in Answered(t) \/ SameSpan(t, i, Len(t) + 1)

Ok(t) == DistinctCalls(t) /\ ResultsAnswer(t) /\ DistinctResults(t) /\ OpenOrAnswered(t)

\* A transcript is well-formed when it is sound and no call is pending: what the
\* validators flush after the last message (transcript-validation.ts).
LEMMA WellFormedMeans ==
    ASSUME NEW t \in Seq(AnyMessage)
    PROVE  WellFormed(t) <=> Ok(t) /\ Pending(t) = {}
<1>1. ASSUME NEW i \in DOMAIN t PROVE Ids(t[i].calls) \subseteq Nat
  <2>1. t[i] \in AnyMessage
    OBVIOUS
  <2>2. t[i].calls \in Seq(Nat)
    BY <2>1 DEF AnyMessage
  <2> QED
    BY <2>2 DEF Ids
<1>2. ASSUME WellFormed(t) PROVE Ok(t) /\ Pending(t) = {}
  <2>1. DistinctCalls(t) /\ ResultsAnswer(t)
    BY <1>2 DEF WellFormed, DistinctCalls, ResultsAnswer, Callers, Results
  <2>2. \A i \in Callers(t) : \A id \in Ids(t[i].calls) :
           \E r \in Results(t) : /\ t[r].id = id /\ Answers(t, r, i)
                                 /\ \A q \in Results(t) : t[q].id = id => q = r
    BY <1>2 DEF WellFormed, Callers, Results
  <2>3. DistinctResults(t)
    <3> SUFFICES ASSUME NEW r \in Results(t), NEW q \in Results(t), t[r].id = t[q].id PROVE r = q
      BY DEF DistinctResults
    <3>1. PICK i \in Callers(t) : t[r].id \in Ids(t[i].calls)
      BY <2>1 DEF ResultsAnswer, Answers
    <3> QED
      BY <2>2, <3>1
  <2> QED
    BY <2>1, <2>2, <2>3 DEF Ok, Pending, Called, Answered, OpenOrAnswered
<1>3. ASSUME Ok(t), Pending(t) = {} PROVE WellFormed(t)
  <2>1. ASSUME NEW i \in Callers(t), NEW id \in Ids(t[i].calls)
        PROVE  \E r \in Results(t) : /\ t[r].id = id /\ Answers(t, r, i)
                                     /\ \A q \in Results(t) : t[q].id = id => q = r
    <3>1. PICK r \in Results(t) : t[r].id = id
      BY <1>1, <1>3, <2>1 DEF Pending, Called, Answered, Callers
    <3>2. PICK j \in Callers(t) : Answers(t, r, j)
      BY <1>3, <3>1 DEF Ok, ResultsAnswer
    <3>3. i = j
      BY <1>3, <2>1, <3>1, <3>2 DEF Ok, DistinctCalls, Answers, Ids
    <3> QED
      BY <1>3, <3>1, <3>2, <3>3 DEF Ok, DistinctResults
  <2> QED
    BY <1>3, <2>1 DEF WellFormed, Ok, DistinctCalls, ResultsAnswer, Callers, Results
<1> QED
  BY <1>2, <1>3

-----------------------------------------------------------------------------
(* What one more message changes *)

\* A message that is read becomes the last one; it leaves what was before it alone, and
\* the spans that are open stay open unless an assistant or a user speaks.
LEMMA OneMore ==
    ASSUME NEW t \in Seq(AnyMessage), NEW m \in AnyMessage
    PROVE  LET u == Append(t, m)
               n == Len(t)
           IN  /\ u \in Seq(AnyMessage) /\ Len(u) = n + 1 /\ n \in Nat
               /\ DOMAIN t = 1..n /\ u[n + 1] = m /\ n + 1 \notin DOMAIN t
               /\ \A i \in DOMAIN t : u[i] = t[i] /\ i <= n
               /\ Callers(u) = Callers(t) \cup (IF Counts(m) THEN {n + 1} ELSE {})
               /\ Results(u) = Results(t) \cup (IF m.role = "toolResult" THEN {n + 1} ELSE {})
               /\ \A i, r \in 1..(n + 1) : SameSpan(u, i, r) <=> SameSpan(t, i, r)
               /\ SameSpan(u, n + 1, n + 2)
               /\ \A i \in DOMAIN t : SameSpan(u, i, n + 2) <=>
                     SameSpan(t, i, n + 1) /\ ~Counts(m) /\ m.role # "user"
<1> DEFINE u == Append(t, m)
           n == Len(t)
<1>1. u \in Seq(AnyMessage) /\ Len(u) = n + 1 /\ n \in Nat /\ DOMAIN t = 1..n /\ DOMAIN u = 1..(n + 1)
      /\ u[n + 1] = m /\ \A i \in 1..n : u[i] = t[i]
  OBVIOUS
<1> HIDE DEF u
<1>2. n + 1 \notin DOMAIN t /\ \A i \in DOMAIN t : u[i] = t[i] /\ i <= n
  BY <1>1
<1>3. /\ Callers(u) = Callers(t) \cup (IF Counts(m) THEN {n + 1} ELSE {})
      /\ Results(u) = Results(t) \cup (IF m.role = "toolResult" THEN {n + 1} ELSE {})
  <2>1. DOMAIN u = DOMAIN t \cup {n + 1}
    BY <1>1
  <2> QED
    BY <1>1, <1>2, <2>1 DEF Callers, Results
<1>4. \A i, r \in 1..(n + 1) : SameSpan(u, i, r) <=> SameSpan(t, i, r)
  <2> SUFFICES ASSUME NEW i \in 1..(n + 1), NEW r \in 1..(n + 1)
               PROVE  SameSpan(u, i, r) <=> SameSpan(t, i, r)
    OBVIOUS
  <2>1. \A k \in (i + 1)..(r - 1) : k \in 1..n /\ u[k] = t[k]
    BY <1>1
  <2> QED
    BY <2>1 DEF SameSpan
<1>5. SameSpan(u, n + 1, n + 2)
  BY <1>1 DEF SameSpan
<1>6. ASSUME NEW i \in DOMAIN t
      PROVE  SameSpan(u, i, n + 2) <=> SameSpan(t, i, n + 1) /\ ~Counts(m) /\ m.role # "user"
  <2>1. (i + 1)..(n + 2 - 1) = ((i + 1)..(n + 1 - 1)) \cup {n + 1}
    BY <1>1
  <2>2. \A k \in (i + 1)..(n + 1 - 1) : u[k] = t[k]
    BY <1>1
  <2>3. i < n + 1 /\ i < n + 2
    BY <1>1
  <2> QED
    BY <1>1, <2>1, <2>2, <2>3 DEF SameSpan
<1> QED
  BY <1>1, <1>2, <1>3, <1>4, <1>5, <1>6 DEF u

\* The calls and the answers of one more message.
LEMMA OneMoreIds ==
    ASSUME NEW t \in Seq(AnyMessage), NEW m \in AnyMessage
    PROVE  /\ Called(Append(t, m)) = Called(t) \cup (IF Counts(m) THEN Ids(m.calls) ELSE {})
           /\ Answered(Append(t, m)) =
                 Answered(t) \cup (IF m.role = "toolResult" THEN {m.id} ELSE {})
           /\ Called(t) \subseteq Nat /\ Ids(m.calls) \subseteq Nat
<1> DEFINE u == Append(t, m)
           n == Len(t)
<1>1. /\ u[n + 1] = m /\ n + 1 \notin DOMAIN t
      /\ \A i \in DOMAIN t : u[i] = t[i]
      /\ Callers(u) = Callers(t) \cup (IF Counts(m) THEN {n + 1} ELSE {})
      /\ Results(u) = Results(t) \cup (IF m.role = "toolResult" THEN {n + 1} ELSE {})
  BY OneMore
<1>2. Callers(t) \subseteq DOMAIN t /\ Results(t) \subseteq DOMAIN t
  BY DEF Callers, Results
<1>3. Ids(m.calls) \subseteq Nat
  BY DEF Ids, AnyMessage
<1> HIDE DEF u, n
<1>4. Called(u) = Called(t) \cup (IF Counts(m) THEN Ids(m.calls) ELSE {})
  BY <1>1, <1>2, <1>3 DEF Called
<1>5. Answered(u) = Answered(t) \cup (IF m.role = "toolResult" THEN {m.id} ELSE {})
  BY <1>1, <1>2 DEF Answered
<1>6. Called(t) \subseteq Nat
  BY DEF Called
<1> QED
  BY <1>3, <1>4, <1>5, <1>6 DEF u

\* What is wrong with a transcript stays wrong: no message heals it.
LEMMA NothingHeals ==
    ASSUME NEW t \in Seq(AnyMessage), NEW m \in AnyMessage, Ok(Append(t, m))
    PROVE  Ok(t)
<1> DEFINE u == Append(t, m)
           n == Len(t)
<1>1. /\ u \in Seq(AnyMessage) /\ Len(u) = n + 1 /\ n \in Nat
      /\ DOMAIN t = 1..n /\ u[n + 1] = m /\ n + 1 \notin DOMAIN t
      /\ \A i \in DOMAIN t : u[i] = t[i] /\ i <= n
      /\ Callers(u) = Callers(t) \cup (IF Counts(m) THEN {n + 1} ELSE {})
      /\ Results(u) = Results(t) \cup (IF m.role = "toolResult" THEN {n + 1} ELSE {})
      /\ \A i, r \in 1..(n + 1) : SameSpan(u, i, r) <=> SameSpan(t, i, r)
      /\ SameSpan(u, n + 1, n + 2)
      /\ \A i \in DOMAIN t : SameSpan(u, i, n + 2) <=>
            SameSpan(t, i, n + 1) /\ ~Counts(m) /\ m.role # "user"
  BY OneMore
<1>2. Ok(u)
  OBVIOUS
<1>3. Callers(t) \subseteq DOMAIN t /\ Results(t) \subseteq DOMAIN t
  BY DEF Callers, Results
<1>4. Answered(u) = Answered(t) \cup (IF m.role = "toolResult" THEN {m.id} ELSE {})
  BY OneMoreIds
<1> HIDE DEF u, n
<1>5. DistinctCalls(t)
  BY <1>1, <1>2, <1>3 DEF Ok, DistinctCalls
<1>6. DistinctResults(t)
  BY <1>1, <1>2, <1>3 DEF Ok, DistinctResults
<1>7. ResultsAnswer(t)
  <2> SUFFICES ASSUME NEW r \in Results(t)
               PROVE  t[r].id # Blank /\ \E i \in Callers(t) : Answers(t, r, i)
    BY DEF ResultsAnswer
  <2>1. PICK i \in Callers(u) : Answers(u, r, i)
    BY <1>1, <1>2 DEF Ok, ResultsAnswer
  <2>2. r \in DOMAIN t /\ u[r] = t[r]
    BY <1>1, <1>3
  <2>3. i # n + 1
    BY <1>1, <2>1, <2>2 DEF Answers, SameSpan
  <2>4. i \in Callers(t) /\ u[i] = t[i] /\ i \in 1..(n + 1) /\ r \in 1..(n + 1)
    BY <1>1, <1>3, <2>1, <2>2, <2>3
  <2>5. Answers(t, r, i)
    BY <1>1, <2>1, <2>2, <2>4 DEF Answers
  <2> QED
    BY <1>1, <1>2, <2>2, <2>4, <2>5 DEF Ok, ResultsAnswer
<1>8. OpenOrAnswered(t)
  <2> SUFFICES ASSUME NEW i \in Callers(t), NEW id \in Ids(t[i].calls), id \notin Answered(t)
               PROVE  SameSpan(t, i, n + 1)
    BY DEF OpenOrAnswered, n
  <2>1. i \in Callers(u) /\ u[i] = t[i] /\ i \in DOMAIN t /\ i \in 1..(n + 1)
    BY <1>1, <1>3
  <2>2. CASE SameSpan(u, i, n + 2)
    BY <1>1, <2>1, <2>2
  <2>3. CASE ~SameSpan(u, i, n + 2)
    <3>1. m.role = "toolResult" /\ m.id = id
      <4>1. n + 1 + 1 = n + 2
        BY <1>1
      <4>2. id \in Answered(u)
        BY <1>1, <1>2, <2>1, <2>3, <4>1 DEF Ok, OpenOrAnswered
      <4> QED
        BY <1>4, <4>2
    <3>2. n + 1 \in Results(u) /\ n + 1 \in 1..(n + 1)
      BY <1>1, <3>1
    <3>3. PICK j \in Callers(u) : Answers(u, n + 1, j)
      BY <1>2, <3>2 DEF Ok, ResultsAnswer
    <3>4. j = i
      BY <1>1, <1>2, <2>1, <3>1, <3>3 DEF Ok, DistinctCalls, Answers, Ids
    <3> QED
      BY <1>1, <2>1, <3>2, <3>3, <3>4 DEF Answers
  <2> QED
    BY <2>2, <2>3
<1> QED
  BY <1>5, <1>6, <1>7, <1>8 DEF Ok
\* An assistant that did not fail may speak when no call is pending, and its own calls
\* must be new; other messages that carry no answer change nothing, a user's needs that
\* no call is pending; a result must answer a pending call.
LEMMA OneMoreIsOk ==
    ASSUME NEW t \in Seq(AnyMessage), NEW m \in AnyMessage, Ok(t)
    PROVE  Ok(Append(t, m)) <=>
             /\ Counts(m) =>
                  Pending(t) = {} /\ Blank \notin Ids(m.calls) /\ Repeated(m.calls, Called(t)) = {}
             /\ m.role = "user" => Pending(t) = {}
             /\ m.role = "toolResult" => m.id \in Pending(t)
<1> DEFINE u == Append(t, m)
           n == Len(t)
<1>1. /\ u \in Seq(AnyMessage) /\ Len(u) = n + 1 /\ n \in Nat
      /\ DOMAIN t = 1..n /\ u[n + 1] = m /\ n + 1 \notin DOMAIN t
      /\ \A i \in DOMAIN t : u[i] = t[i] /\ i <= n
      /\ Callers(u) = Callers(t) \cup (IF Counts(m) THEN {n + 1} ELSE {})
      /\ Results(u) = Results(t) \cup (IF m.role = "toolResult" THEN {n + 1} ELSE {})
      /\ \A i, r \in 1..(n + 1) : SameSpan(u, i, r) <=> SameSpan(t, i, r)
      /\ SameSpan(u, n + 1, n + 2)
      /\ \A i \in DOMAIN t : SameSpan(u, i, n + 2) <=>
            SameSpan(t, i, n + 1) /\ ~Counts(m) /\ m.role # "user"
  BY OneMore
<1>2. /\ Called(u) = Called(t) \cup (IF Counts(m) THEN Ids(m.calls) ELSE {})
      /\ Answered(u) = Answered(t) \cup (IF m.role = "toolResult" THEN {m.id} ELSE {})
      /\ Called(t) \subseteq Nat /\ Ids(m.calls) \subseteq Nat
  BY OneMoreIds
<1>3. Callers(t) \subseteq DOMAIN t /\ Results(t) \subseteq DOMAIN t
      /\ \A i \in DOMAIN t : i \in Results(t) <=> t[i].role = "toolResult"
  BY DEF Callers, Results
<1>4. n + 1 + 1 = n + 2 /\ n + 1 \in 1..(n + 1) /\ \A i \in DOMAIN t : i \in 1..(n + 1)
  BY <1>1
<1>5. Counts(m) => m.role = "assistant"
  BY DEF Counts
<1>6. \A i \in Callers(t) : Ids(t[i].calls) \subseteq Called(t)
  <2> SUFFICES ASSUME NEW i \in Callers(t), NEW id \in Ids(t[i].calls) PROVE id \in Nat
    BY DEF Called
  <2>1. t[i] \in AnyMessage
    BY <1>3
  <2> QED
    BY <2>1 DEF AnyMessage, Ids
<1>7. \A id \in Called(t) : \E i \in Callers(t) : id \in Ids(t[i].calls)
  BY DEF Called
<1>8. Answered(t) \subseteq Called(t)
  BY <1>6 DEF Ok, ResultsAnswer, Answers, Answered
<1>9. DistinctCalls(t) /\ ResultsAnswer(t) /\ DistinctResults(t) /\ OpenOrAnswered(t)
  BY DEF Ok
<1> HIDE DEF u, n
<1>10. ASSUME ~Counts(m), m.role # "toolResult"
       PROVE  Ok(u) <=> (m.role = "user" => Pending(t) = {})
  <2>1. Callers(u) = Callers(t) /\ Results(u) = Results(t) /\ Answered(u) = Answered(t)
    BY <1>1, <1>2, <1>10
  <2>2. DistinctCalls(u) /\ DistinctResults(u)
    BY <1>1, <1>3, <1>9, <2>1 DEF DistinctCalls, DistinctResults
  <2>3. ResultsAnswer(u)
    BY <1>1, <1>3, <1>4, <1>9, <2>1 DEF ResultsAnswer, Answers
  <2>4. OpenOrAnswered(u) <=>
           \A i \in Callers(t) : \A id \in Ids(t[i].calls) :
              id \in Answered(t) \/ (SameSpan(t, i, n + 1) /\ m.role # "user")
    BY <1>1, <1>3, <1>4, <1>10, <2>1 DEF OpenOrAnswered
  <2>5. CASE m.role # "user"
    BY <1>9, <2>2, <2>3, <2>4, <2>5 DEF Ok, OpenOrAnswered, n
  <2>6. CASE m.role = "user"
    <3>1. (\A i \in Callers(t) : \A id \in Ids(t[i].calls) : id \in Answered(t)) <=> Pending(t) = {}
      BY <1>6, <1>7 DEF Pending
    <3> QED
      BY <2>2, <2>3, <2>4, <2>6, <3>1 DEF Ok
  <2> QED
    BY <2>5, <2>6
<1>11. ASSUME m.role = "toolResult" PROVE Ok(u) <=> m.id \in Pending(t)
  <2>1. /\ Callers(u) = Callers(t) /\ Results(u) = Results(t) \cup {n + 1}
        /\ Answered(u) = Answered(t) \cup {m.id} /\ ~Counts(m) /\ m.role # "user"
    BY <1>1, <1>2, <1>5, <1>11
  <2>2. ASSUME Ok(u) PROVE m.id \in Pending(t)
    <3>1. PICK i \in Callers(u) : Answers(u, n + 1, i)
      BY <2>1, <2>2 DEF Ok, ResultsAnswer
    <3>2. m.id \in Called(t)
      BY <1>1, <1>3, <1>6, <2>1, <3>1 DEF Answers
    <3>3. m.id \notin Answered(t)
      <4> SUFFICES ASSUME NEW r \in Results(t), t[r].id = m.id PROVE FALSE
        BY DEF Answered
      <4>1. r = n + 1
        BY <1>1, <1>3, <2>1, <2>2 DEF Ok, DistinctResults
      <4> QED
        BY <1>1, <1>3, <4>1
    <3> QED
      BY <3>2, <3>3 DEF Pending
  <2>3. ASSUME m.id \in Pending(t) PROVE Ok(u)
    <3>1. PICK i \in Callers(t) : m.id \in Ids(t[i].calls)
      BY <1>7, <2>3 DEF Pending
    <3>2. m.id \notin Answered(t)
      BY <2>3 DEF Pending
    <3>3. SameSpan(t, i, n + 1) /\ m.id # Blank
      BY <1>9, <3>1, <3>2 DEF OpenOrAnswered, DistinctCalls, Ids, n
    <3>4. Counts(t[i])
      BY DEF Callers
    <3>5. Answers(u, n + 1, i)
      BY <1>1, <1>3, <1>4, <1>11, <3>1, <3>3, <3>4 DEF Answers
    <3>6. DistinctCalls(u)
      BY <1>1, <1>3, <1>9, <2>1 DEF DistinctCalls
    <3>7. ResultsAnswer(u)
      <4>1. ASSUME NEW r \in Results(t)
            PROVE  u[r].id # Blank /\ \E j \in Callers(u) : Answers(u, r, j)
        BY <1>1, <1>3, <1>4, <1>9, <2>1 DEF ResultsAnswer, Answers
      <4> QED
        BY <1>1, <2>1, <3>3, <3>5, <4>1 DEF ResultsAnswer
    <3>8. DistinctResults(u)
      BY <1>1, <1>3, <1>9, <2>1, <3>2 DEF DistinctResults, Answered
    <3>9. OpenOrAnswered(u)
      BY <1>1, <1>3, <1>4, <1>9, <2>1 DEF OpenOrAnswered, n
    <3> QED
      BY <3>6, <3>7, <3>8, <3>9 DEF Ok
  <2> QED
    BY <2>2, <2>3
<1>12. ASSUME Counts(m)
       PROVE  Ok(u) <=> /\ Pending(t) = {} /\ Blank \notin Ids(m.calls)
                        /\ Repeated(m.calls, Called(t)) = {}
  <2>1. /\ Callers(u) = Callers(t) \cup {n + 1} /\ Results(u) = Results(t)
        /\ Answered(u) = Answered(t)
    BY <1>1, <1>2, <1>5, <1>12
  <2>2. ResultsAnswer(u) /\ DistinctResults(u)
    BY <1>1, <1>3, <1>4, <1>9, <2>1 DEF ResultsAnswer, Answers, DistinctResults
  <2>3. OpenOrAnswered(u) <=> Pending(t) = {}
    <3>1. OpenOrAnswered(u) <=>
             \A i \in Callers(t) : \A id \in Ids(t[i].calls) : id \in Answered(t)
      BY <1>1, <1>3, <1>4, <1>12, <2>1 DEF OpenOrAnswered
    <3> QED
      BY <1>6, <1>7, <3>1 DEF Pending
  <2>4. m.calls \in Seq(Nat)
    BY DEF AnyMessage
  <2>5. Blank \notin Ids(m.calls) => \A k \in DOMAIN m.calls : m.calls[k] # Blank
    BY DEF Ids
  <2>6. ASSUME DistinctCalls(u) PROVE Blank \notin Ids(m.calls) /\ Repeated(m.calls, Called(t)) = {}
    <3>1. Blank \notin Ids(m.calls)
      BY <1>1, <2>1, <2>6 DEF DistinctCalls, Ids
    <3>2. ASSUME NEW k \in DOMAIN m.calls, m.calls[k] \in Called(t) PROVE FALSE
      <4>1. PICK i \in Callers(t) : m.calls[k] \in Ids(t[i].calls)
        BY <1>7, <3>2
      <4> QED
        BY <1>1, <1>3, <2>1, <2>6, <4>1 DEF DistinctCalls, Ids
    <3>3. ASSUME NEW k \in DOMAIN m.calls, NEW j \in DOMAIN m.calls, j < k, m.calls[j] = m.calls[k]
          PROVE  FALSE
      <4>1. j = k
        BY <1>1, <2>1, <2>6, <3>3 DEF DistinctCalls
      <4> QED
        BY <2>4, <3>3, <4>1
    <3> QED
      BY <3>1, <3>2, <3>3 DEF Repeated
  <2>7. ASSUME Blank \notin Ids(m.calls), Repeated(m.calls, Called(t)) = {} PROVE DistinctCalls(u)
    <3>1. \A k \in DOMAIN m.calls : m.calls[k] # Blank /\ m.calls[k] \notin Called(t)
      BY <2>5, <2>7 DEF Repeated
    <3>2. \A k, j \in DOMAIN m.calls : m.calls[j] = m.calls[k] => j = k
      <4> SUFFICES ASSUME NEW k \in DOMAIN m.calls, NEW j \in DOMAIN m.calls,
                          m.calls[j] = m.calls[k], j # k
                   PROVE  FALSE
        OBVIOUS
      <4>1. j < k \/ k < j
        BY <2>4
      <4> QED
        BY <2>5, <2>7, <4>1 DEF Repeated
    <3>3. \A i \in Callers(t) : \A k \in DOMAIN t[i].calls : t[i].calls[k] \in Called(t)
      BY <1>6 DEF Ids
    <3> QED
      BY <1>1, <1>3, <1>9, <2>1, <3>1, <3>2, <3>3 DEF DistinctCalls
  <2> QED
    BY <2>2, <2>3, <2>6, <2>7 DEF Ok
<1> QED
  BY <1>5, <1>10, <1>11, <1>12 DEF u

-----------------------------------------------------------------------------
(* The validator's loop *)

Verdicts ==
    [span : SUBSET Nat, seenCalls : SUBSET Nat, seenResults : SUBSET Nat, missing : SUBSET Nat,
     duplicateResults : SUBSET Nat, orphans : SUBSET Nat, duplicateCalls : SUBSET Nat]

NothingFound(v) ==
    /\ v.missing = {} /\ v.duplicateResults = {} /\ v.orphans = {} /\ v.duplicateCalls = {}

\* What the local variables v of the validator say of the transcript t read so far.
Validated(t, v) ==
    /\ v \in Verdicts
    /\ NothingFound(v) <=> Ok(t)
    /\ Ok(t) => v.span = Pending(t) /\ v.seenCalls = Called(t) /\ v.seenResults = Answered(t)

\* Nothing was read, nothing is found.
LEMMA NothingRead == Validated(<<>>, ValidatorStart)
<1>1. Callers(<<>>) = {} /\ Results(<<>>) = {}
  BY DEF Callers, Results
<1>2. Ok(<<>>) /\ Called(<<>>) = {} /\ Answered(<<>>) = {}
  BY <1>1 DEF Ok, DistinctCalls, ResultsAnswer, DistinctResults, OpenOrAnswered, Called, Answered
<1> QED
  BY <1>2 DEF Validated, Verdicts, NothingFound, ValidatorStart, NoSpan, Pending

\* What the validator's loop keeps are sets of ids.
LEMMA VerdictsStay ==
    ASSUME NEW v \in Verdicts, NEW m \in AnyMessage
    PROVE  ValidateMessage(v, m) \in Verdicts
<1>1. m.id \in Nat /\ Ids(m.calls) \subseteq Nat /\ Repeated(m.calls, v.seenCalls) \subseteq Ids(m.calls)
  BY DEF AnyMessage, Repeated, Ids
<1>2. ValidateAssistant(v, m.calls) \in Verdicts
  BY <1>1 DEF ValidateAssistant, Verdicts
<1>3. ValidateToolResult(v, m.id) \in Verdicts
  <2>1. /\ [v EXCEPT !.span = @ \ {m.id}, !.seenResults = @ \cup {m.id}] \in Verdicts
        /\ [v EXCEPT !.duplicateResults = @ \cup {m.id}] \in Verdicts
        /\ [v EXCEPT !.orphans = @ \cup {m.id}] \in Verdicts
    BY <1>1 DEF Verdicts
  <2> QED
    BY <2>1 DEF ValidateToolResult
<1>4. ValidateUser(v) \in Verdicts
  BY DEF ValidateUser, NoSpan, Verdicts
<1> QED
  BY <1>2, <1>3, <1>4 DEF ValidateMessage

\* The validator understands one more message (validateChatCompletionsTranscript's loop).
LEMMA OneMoreIsValidated ==
    ASSUME NEW t \in Seq(AnyMessage), NEW m \in AnyMessage, NEW v, Validated(t, v)
    PROVE  Validated(Append(t, m), ValidateMessage(v, m))
<1> DEFINE u == Append(t, m)
           w == ValidateMessage(v, m)
<1>1. v \in Verdicts /\ (NothingFound(v) <=> Ok(t))
      /\ (Ok(t) => v.span = Pending(t) /\ v.seenCalls = Called(t) /\ v.seenResults = Answered(t))
  BY DEF Validated
<1>2. /\ Called(u) = Called(t) \cup (IF Counts(m) THEN Ids(m.calls) ELSE {})
      /\ Answered(u) = Answered(t) \cup (IF m.role = "toolResult" THEN {m.id} ELSE {})
      /\ Called(t) \subseteq Nat /\ Ids(m.calls) \subseteq Nat
  BY OneMoreIds
<1>3. Ok(u) => Ok(t)
  BY NothingHeals
<1>4. Ok(t) => (Ok(u) <=>
             /\ Counts(m) =>
                  Pending(t) = {} /\ Blank \notin Ids(m.calls) /\ Repeated(m.calls, Called(t)) = {}
             /\ m.role = "user" => Pending(t) = {}
             /\ m.role = "toolResult" => m.id \in Pending(t))
  BY OneMoreIsOk
<1>5. m.role = "assistant" /\ ~m.failed <=> Counts(m)
  BY DEF Counts
<1>6. m.id \in Nat /\ Repeated(m.calls, v.seenCalls) \subseteq Ids(m.calls)
  BY DEF AnyMessage, Repeated, Ids
<1>7. Ok(t) => Answered(t) \subseteq Called(t) /\ Blank \notin Called(t)
  <2> SUFFICES ASSUME Ok(t) PROVE Answered(t) \subseteq Called(t) /\ Blank \notin Called(t)
    OBVIOUS
  <2>1. Blank \notin Called(t)
    BY DEF Ok, DistinctCalls, Called, Ids
  <2>2. ASSUME NEW r \in Results(t) PROVE t[r].id \in Called(t)
    <3>1. t[r] \in AnyMessage
      BY DEF Results
    <3>2. t[r].id \in Nat
      BY <3>1 DEF AnyMessage
    <3> QED
      BY <3>2 DEF Ok, ResultsAnswer, Answers, Called
  <2> QED
    BY <2>1, <2>2 DEF Answered
<1> SUFFICES Validated(u, w)
  OBVIOUS
<1> HIDE DEF u, w
<1>8. CASE Counts(m)
  <2>1. w = ValidateAssistant(v, m.calls)
    BY <1>5, <1>8 DEF ValidateMessage, w
  <2>2. /\ w \in Verdicts /\ w.missing = v.missing \cup v.span \cup (Ids(m.calls) \cap {Blank})
        /\ w.duplicateCalls = v.duplicateCalls \cup Repeated(m.calls, v.seenCalls)
        /\ w.seenCalls = v.seenCalls \cup (Ids(m.calls) \ {Blank})
        /\ w.span = (IF m.calls # <<>> THEN Ids(m.calls) \ {Blank} ELSE v.span)
        /\ w.duplicateResults = v.duplicateResults /\ w.orphans = v.orphans
        /\ w.seenResults = v.seenResults
    <3> QED
      BY <1>1, <1>2, <1>6, <2>1 DEF ValidateAssistant, Verdicts
  <2>3. m.calls = <<>> => Ids(m.calls) = {}
    BY DEF Ids
  <2>4. m.role # "user" /\ m.role # "toolResult"
    BY <1>8 DEF Counts
  <2>5. NothingFound(w) <=> Ok(u)
    BY <1>1, <1>3, <1>4, <1>8, <2>2, <2>4 DEF NothingFound
  <2>6. ASSUME Ok(u) PROVE w.span = Pending(u) /\ w.seenCalls = Called(u) /\ w.seenResults = Answered(u)
    <3>1. Ok(t) /\ Pending(t) = {} /\ Blank \notin Ids(m.calls) /\ Repeated(m.calls, Called(t)) = {}
      BY <1>3, <1>4, <1>8, <2>6
    <3>2. Called(u) = Called(t) \cup Ids(m.calls) /\ Answered(u) = Answered(t)
      BY <1>2, <1>8, <2>4
    <3>3. Ids(m.calls) \cap Called(t) = {}
      BY <3>1 DEF Repeated, Ids
    <3>4. Called(t) \subseteq Answered(t)
      BY <3>1 DEF Pending
    <3>5. Pending(u) = Ids(m.calls)
      BY <1>7, <3>1, <3>2, <3>3, <3>4 DEF Pending
    <3> QED
      BY <1>1, <2>2, <2>3, <3>1, <3>2, <3>5
  <2> QED
    BY <2>2, <2>5, <2>6 DEF Validated
<1>9. CASE m.role = "toolResult"
  <2>1. w = ValidateToolResult(v, m.id) /\ ~Counts(m)
    BY <1>9 DEF ValidateMessage, Counts, w
  <2>2. Ok(t) => (Ok(u) <=> m.id \in Pending(t))
    BY <1>4, <1>9, <2>1
  <2>3. Called(u) = Called(t) /\ Answered(u) = Answered(t) \cup {m.id}
    BY <1>2, <1>9, <2>1
  <2>4. CASE m.id # Blank /\ m.id \in v.span
    <3>1. w = [v EXCEPT !.span = @ \ {m.id}, !.seenResults = @ \cup {m.id}]
      BY <2>1, <2>4 DEF ValidateToolResult
    <3>2. /\ w \in Verdicts /\ w.span = v.span \ {m.id} /\ w.seenResults = v.seenResults \cup {m.id}
          /\ w.seenCalls = v.seenCalls /\ (NothingFound(w) <=> NothingFound(v))
      BY <1>1, <1>6, <3>1 DEF Verdicts, NothingFound
    <3> QED
      BY <1>1, <1>3, <2>2, <2>3, <2>4, <3>2 DEF Validated, Pending
  <2>5. CASE ~(m.id # Blank /\ m.id \in v.span)
    <3>1. ~Ok(u)
      BY <1>1, <1>3, <1>7, <2>2, <2>5 DEF Pending
    <3>2. \/ w = [v EXCEPT !.duplicateResults = @ \cup {m.id}]
          \/ w = [v EXCEPT !.orphans = @ \cup {m.id}]
      BY <2>1, <2>5 DEF ValidateToolResult
    <3>3. w \in Verdicts /\ (m.id \in w.duplicateResults \/ m.id \in w.orphans)
      <4>1. CASE w = [v EXCEPT !.duplicateResults = @ \cup {m.id}]
        BY <1>1, <1>6, <4>1 DEF Verdicts
      <4>2. CASE w = [v EXCEPT !.orphans = @ \cup {m.id}]
        BY <1>1, <1>6, <4>2 DEF Verdicts
      <4> QED
        BY <3>2, <4>1, <4>2
    <3> QED
      BY <3>1, <3>3 DEF Validated, NothingFound
  <2> QED
    BY <2>4, <2>5
<1>10. CASE m.role = "user"
  <2>1. w = ValidateUser(v) /\ ~Counts(m)
    BY <1>10 DEF ValidateMessage, Counts, w
  <2>2. Ok(t) => (Ok(u) <=> Pending(t) = {})
    BY <1>4, <1>10, <2>1
  <2>3. Called(u) = Called(t) /\ Answered(u) = Answered(t)
    BY <1>2, <1>10, <2>1
  <2>4. /\ w \in Verdicts /\ w.span = {} /\ w.seenResults = v.seenResults /\ w.seenCalls = v.seenCalls
        /\ (NothingFound(w) <=> NothingFound(v) /\ v.span = {})
    BY <1>1, <2>1 DEF ValidateUser, NoSpan, Verdicts, NothingFound
  <2> QED
    BY <1>1, <1>3, <2>2, <2>3, <2>4 DEF Validated, Pending
<1>11. CASE ~Counts(m) /\ m.role # "toolResult" /\ m.role # "user"
  <2>1. w = v
    BY <1>5, <1>11 DEF ValidateMessage, w
  <2>2. Ok(u) <=> Ok(t)
    BY <1>3, <1>4, <1>11
  <2>3. Called(u) = Called(t) /\ Answered(u) = Answered(t)
    BY <1>2, <1>11
  <2> QED
    BY <1>1, <2>1, <2>2, <2>3 DEF Validated, Pending
<1> QED
  BY <1>8, <1>9, <1>10, <1>11

\* The verdict: with the open span flushed, nothing is found in exactly the well-formed
\* transcripts.
LEMMA ValidatedMeans ==
    ASSUME NEW t \in Seq(AnyMessage), NEW v, Validated(t, v)
    PROVE  ValidatorAccepts(v) <=> WellFormed(t)
BY WellFormedMeans DEF Validated, ValidatorAccepts, NothingFound

-----------------------------------------------------------------------------
(* The loop of validateToolSpanIntegrity *)

Spans == [pending : SUBSET Nat, missing : SUBSET Nat, orphans : SUBSET Nat]

\* What the two loops found, as far as they look for the same.
BothFoundNothing(v, s) ==
    /\ s.missing = {} /\ s.orphans = {}
    /\ v.missing = {} /\ v.duplicateResults = {} /\ v.orphans = {} /\ s.pending = v.span

BothFoundSomething(v, s) ==
    /\ s.missing # {} \/ s.orphans # {}
    /\ v.missing # {} \/ v.duplicateResults # {} \/ v.orphans # {}

\* On distinct ids the loops agree on whether there is something to find, and as long
\* as there is nothing they wait for the same calls.
LoopsAgree(v, s) ==
    /\ v \in Verdicts /\ s \in Spans
    /\ \/ v.duplicateCalls # {} \/ Blank \in v.missing \cup v.orphans
       \/ BothFoundNothing(v, s) \/ BothFoundSomething(v, s)

\* One more message changes both loops alike.
LEMMA LoopsStayTogether ==
    ASSUME NEW m \in AnyMessage, NEW v, NEW s, LoopsAgree(v, s), ValidateMessage(v, m) \in Verdicts
    PROVE  LoopsAgree(ValidateMessage(v, m), SpanMessage(s, m))
<1> DEFINE w == ValidateMessage(v, m)
           z == SpanMessage(s, m)
<1>1. v \in Verdicts /\ s \in Spans /\ w \in Verdicts /\ m.id \in Nat /\ Ids(m.calls) \subseteq Nat
  BY DEF LoopsAgree, AnyMessage, Ids
<1>2. m.calls = <<>> => Ids(m.calls) = {}
  BY DEF Ids
<1> SUFFICES LoopsAgree(w, z)
  OBVIOUS
<1> HIDE DEF w, z
<1>3. CASE m.role = "assistant" /\ ~m.failed
  <2>1. w = ValidateAssistant(v, m.calls)
        /\ z = [s EXCEPT !.missing = @ \cup s.pending, !.pending = Ids(m.calls) \ {Blank}]
    BY <1>3 DEF ValidateMessage, SpanMessage, w, z
  <2>2. /\ z \in Spans /\ z.missing = s.missing \cup s.pending /\ z.orphans = s.orphans
        /\ z.pending = Ids(m.calls) \ {Blank}
    BY <1>1, <2>1 DEF Spans
  <2>3. /\ w.missing = v.missing \cup v.span \cup (Ids(m.calls) \cap {Blank})
        /\ v.duplicateCalls # {} => w.duplicateCalls # {}
        /\ w.span = (IF m.calls # <<>> THEN Ids(m.calls) \ {Blank} ELSE v.span)
        /\ w.duplicateResults = v.duplicateResults /\ w.orphans = v.orphans
    BY <1>1, <2>1 DEF ValidateAssistant, Verdicts
  <2> QED
    BY <1>1, <1>2, <2>2, <2>3 DEF LoopsAgree, BothFoundNothing, BothFoundSomething
<1>4. CASE m.role = "toolResult"
  <2>1. /\ w = ValidateToolResult(v, m.id)
        /\ z = (IF m.id \in s.pending THEN [s EXCEPT !.pending = @ \ {m.id}]
                                      ELSE [s EXCEPT !.orphans = @ \cup {m.id}])
    BY <1>4 DEF ValidateMessage, SpanMessage, w, z
  <2>2. /\ z \in Spans /\ z.missing = s.missing
        /\ m.id \in s.pending => z.orphans = s.orphans /\ z.pending = s.pending \ {m.id}
        /\ m.id \notin s.pending => z.orphans = s.orphans \cup {m.id}
    BY <1>1, <2>1 DEF Spans
  <2>3. /\ w.missing = v.missing /\ w.duplicateCalls = v.duplicateCalls
        /\ v.orphans \subseteq w.orphans /\ v.duplicateResults \subseteq w.duplicateResults
        /\ m.id = Blank => Blank \in w.orphans
        /\ m.id # Blank /\ m.id \in v.span =>
              /\ w.orphans = v.orphans /\ w.duplicateResults = v.duplicateResults
              /\ w.span = v.span \ {m.id}
        /\ m.id # Blank /\ m.id \notin v.span =>
              m.id \in w.orphans \/ m.id \in w.duplicateResults
    BY <1>1, <2>1 DEF ValidateToolResult, Verdicts
  <2> QED
    BY <1>1, <2>2, <2>3 DEF LoopsAgree, BothFoundNothing, BothFoundSomething
<1>5. CASE m.role = "user"
  <2>1. w = ValidateUser(v)
        /\ z = [s EXCEPT !.missing = @ \cup s.pending, !.pending = {}]
    BY <1>5 DEF ValidateMessage, SpanMessage, w, z
  <2>2. z \in Spans /\ z.missing = s.missing \cup s.pending /\ z.orphans = s.orphans /\ z.pending = {}
    BY <1>1, <2>1 DEF Spans
  <2>3. /\ w.missing = v.missing \cup v.span /\ w.span = {} /\ w.duplicateCalls = v.duplicateCalls
        /\ w.duplicateResults = v.duplicateResults /\ w.orphans = v.orphans
    BY <1>1, <2>1 DEF ValidateUser, NoSpan, Verdicts
  <2> QED
    BY <1>1, <2>2, <2>3 DEF LoopsAgree, BothFoundNothing, BothFoundSomething
<1>6. CASE ~(m.role = "assistant" /\ ~m.failed) /\ m.role # "toolResult" /\ m.role # "user"
  <2>1. w = v /\ z = s
    BY <1>6 DEF ValidateMessage, SpanMessage, w, z
  <2> QED
    BY <2>1
<1> QED
  BY <1>3, <1>4, <1>5, <1>6

-----------------------------------------------------------------------------
(* Every transcript *)

TranscriptInv ==
    /\ transcript \in Seq(AnyMessage)
    /\ Validated(transcript, validator)
    /\ LoopsAgree(validator, spanCheck)

\* The validators that decide what may be sent to a model accept exactly the
\* well-formed transcripts, and validateToolSpanIntegrity, which decides what is trimmed
\* on restore, agrees with them on transcripts whose call ids are distinct.
THEOREM ValidatorsExact == CheckSpec => []ValidatorsAreExact
<1>1. CheckInit => TranscriptInv
  <2> SUFFICES ASSUME CheckInit PROVE TranscriptInv
    OBVIOUS
  <2>1. Validated(transcript, validator) /\ transcript \in Seq(AnyMessage)
    BY NothingRead DEF CheckInit
  <2>2. LoopsAgree(validator, spanCheck)
    BY DEF CheckInit, LoopsAgree, BothFoundNothing, Verdicts, Spans, ValidatorStart, SpanStart, NoSpan
  <2> QED
    BY <2>1, <2>2 DEF TranscriptInv
<1>2. TranscriptInv /\ [CheckNext]_checkVars => TranscriptInv'
  <2> SUFFICES ASSUME TranscriptInv, [CheckNext]_checkVars PROVE TranscriptInv'
    OBVIOUS
  <2>1. CASE UNCHANGED checkVars
    BY <2>1 DEF TranscriptInv, checkVars
  <2>2. ASSUME NEW m \in Messages, ReadMessage(m) PROVE TranscriptInv'
    <3>1. m \in AnyMessage
      BY MessagesAssumption
    <3>2. /\ transcript' = Append(transcript, m) /\ validator' = ValidateMessage(validator, m)
          /\ spanCheck' = SpanMessage(spanCheck, m)
      BY <2>2 DEF ReadMessage
    <3>3. transcript' \in Seq(AnyMessage)
      BY <3>1, <3>2 DEF TranscriptInv
    <3>4. Validated(transcript', validator')
      BY <3>1, <3>2, OneMoreIsValidated DEF TranscriptInv
    <3>5. LoopsAgree(validator', spanCheck')
      <4>1. ValidateMessage(validator, m) \in Verdicts
        BY <3>2, <3>4 DEF Validated
      <4> QED
        BY <3>1, <3>2, <4>1, LoopsStayTogether DEF TranscriptInv
    <3> QED
      BY <3>3, <3>4, <3>5 DEF TranscriptInv
  <2> QED
    BY <2>1, <2>2 DEF CheckNext
<1>3. TranscriptInv => ValidatorsAreExact
  <2> SUFFICES ASSUME TranscriptInv PROVE ValidatorsAreExact
    OBVIOUS
  <2>1. AcceptsExactlyWellFormed
    BY ValidatedMeans DEF TranscriptInv, AcceptsExactlyWellFormed
  <2>2. SpanCheckAgrees
    BY DEF TranscriptInv, SpanCheckAgrees, LoopsAgree, BothFoundNothing, BothFoundSomething,
           SpanValid, SpanEnd, ValidatorAccepts, Verdicts, Spans
  <2> QED
    BY <2>1, <2>2 DEF ValidatorsAreExact
<1> QED
  BY <1>1, <1>2, <1>3, PTL DEF CheckSpec

-----------------------------------------------------------------------------
(* Loops over a whole transcript: the folds of module Transcript           *)

\* Induction, stated of a set of numbers.
LEMMA Induction ==
    ASSUME NEW P \in SUBSET Nat, 0 \in P, \A k \in P : k + 1 \in P
    PROVE  P = Nat
<1> SUFFICES ASSUME Nat \ P # {} PROVE FALSE
  OBVIOUS
<1>1. \E k \in Nat \ P : \A j \in Nat \ P : ~(<<j, k>> \in OpToRel(<, Nat))
  BY NatLessThanWellFounded, WFMin
<1>2. PICK k \in Nat \ P : \A j \in Nat \ P : ~(<<j, k>> \in OpToRel(<, Nat))
  BY <1>1
<1>3. k # 0 /\ k - 1 \in Nat
  OBVIOUS
<1>4. k - 1 \in P
  <2> SUFFICES ASSUME k - 1 \in Nat \ P PROVE FALSE
    BY <1>3
  <2>1. ~(k - 1 < k) /\ k \in Nat
    BY <1>2, <1>3 DEF OpToRel
  <2> QED
    BY <2>1
<1> QED
  BY <1>3, <1>4

\* Max is the last position of a part of a transcript.
LEMMA MaxOfPositions ==
    ASSUME NEW n \in Nat, NEW s \in SUBSET (1..n), s # {}
    PROVE  Max(s) \in s /\ \A j \in s : j <= Max(s)
<1> DEFINE back == {k \in Nat : n - k \in s}
<1>1. back # {}
  <2>1. PICK j \in s : TRUE
    OBVIOUS
  <2>2. n - j \in Nat /\ n - (n - j) = j
    BY <2>1
  <2> QED
    BY <2>1, <2>2
<1>2. PICK k \in back : \A j \in back : ~(<<j, k>> \in OpToRel(<, Nat))
  BY <1>1, NatLessThanWellFounded, WFMin
<1>3. n - k \in s
  BY <1>2
<1>4. ASSUME NEW j \in s PROVE n - k >= j
  <2>1. n - j \in Nat /\ n - (n - j) = j
    OBVIOUS
  <2>2. n - j \in back
    BY <2>1
  <2> HIDE DEF back
  <2>3. ~(n - j < k) /\ k \in Nat
    BY <1>2, <2>1, <2>2 DEF OpToRel, back
  <2> QED
    BY <2>1, <2>3
<1>5. \E x \in s : \A y \in s : x >= y
  BY <1>3, <1>4
<1>6. Max(s) \in s /\ \A y \in s : Max(s) >= y
  BY <1>5 DEF Max
<1> QED
  BY <1>6

\* The equation by which a fold with this step is defined, on the positions up to n.
Folds(fold, n, base, step, t) ==
    \A s \in SUBSET (1..n) :
        fold[s] = IF s = {} THEN base ELSE step[fold[s \ {Max(s)}], t[Max(s)]]

\* A loop over a transcript has a result, whatever it does with a message.
LEMMA FoldsExist ==
    ASSUME NEW V, NEW base \in V, NEW M, NEW step \in [V \X M -> V], NEW t \in Seq(M)
    PROVE  \E fold \in [SUBSET (1..Len(t)) -> V] : Folds(fold, Len(t), base, step, t)
<1> DEFINE Q(k) == \E fold \in [SUBSET (1..k) -> V] : Folds(fold, k, base, step, t)
           P == {k \in Nat : k <= Len(t) => Q(k)}
<1>1. 0 \in P
  <2>1. SUBSET (1..0) = {{}}
    OBVIOUS
  <2> DEFINE fold == [s \in SUBSET (1..0) |-> base]
  <2>2. fold \in [SUBSET (1..0) -> V]
    OBVIOUS
  <2>3. Folds(fold, 0, base, step, t)
    BY <2>1 DEF Folds
  <2> QED
    BY <2>2, <2>3
<1>2. ASSUME NEW k \in P PROVE k + 1 \in P
  <2> HIDE DEF Q
  <2>k. k \in Nat /\ Len(t) \in Nat /\ k + 1 \in Nat
    OBVIOUS
  <2> SUFFICES ASSUME k + 1 <= Len(t) PROVE Q(k + 1)
    BY <2>k
  <2>q. Q(k)
    BY <2>k
  <2>1. PICK less \in [SUBSET (1..k) -> V] : Folds(less, k, base, step, t)
    BY <2>q DEF Q
  <2> DEFINE fold == [s \in SUBSET (1..(k + 1)) |->
                         IF k + 1 \in s THEN step[less[s \ {k + 1}], t[k + 1]] ELSE less[s]]
  <2>2. \A s \in SUBSET (1..(k + 1)) :
           /\ k + 1 \notin s => s \in SUBSET (1..k)
           /\ s \ {k + 1} \in SUBSET (1..k)
    BY <2>k
  <2>3. t[k + 1] \in M
    BY <2>k
  <2>4. fold \in [SUBSET (1..(k + 1)) -> V]
    BY <2>2, <2>3
  <2>5. ASSUME NEW s \in SUBSET (1..(k + 1))
        PROVE  fold[s] = IF s = {} THEN base ELSE step[fold[s \ {Max(s)}], t[Max(s)]]
    <3>1. CASE k + 1 \in s
      <4>1. Max(s) = k + 1
        <5>1. Max(s) \in s /\ \A j \in s : j <= Max(s)
          BY <2>k, <3>1, MaxOfPositions
        <5>2. Max(s) \in 1..(k + 1) /\ k + 1 <= Max(s)
          BY <3>1, <5>1
        <5> QED
          BY <2>k, <5>2
      <4>2. fold[s \ {k + 1}] = less[s \ {k + 1}]
        BY <2>2
      <4> QED
        BY <3>1, <4>1, <4>2
    <3>2. CASE k + 1 \notin s
      <4>1. s \in SUBSET (1..k) /\ fold[s] = less[s]
        BY <2>2, <3>2
      <4>2. s # {} => fold[s \ {Max(s)}] = less[s \ {Max(s)}]
        BY <2>2, <3>2
      <4> QED
        BY <2>1, <4>1, <4>2 DEF Folds
    <3> QED
      BY <3>1, <3>2
  <2> HIDE DEF fold
  <2>6. Folds(fold, k + 1, base, step, t)
    BY <2>5 DEF Folds
  <2> QED
    BY <2>4, <2>6 DEF Q
<1>3. P = Nat
  <2>1. P \in SUBSET Nat
    OBVIOUS
  <2> HIDE DEF P
  <2> QED
    BY <1>1, <1>2, <2>1, Induction
<1> HIDE DEF Q
<1>4. Len(t) \in Nat /\ Len(t) <= Len(t)
  OBVIOUS
<1>5. Q(Len(t))
  BY <1>3, <1>4
<1> QED
  BY <1>5 DEF Q

\* A fold reads the messages one after the other.
LEMMA FoldsInOrder ==
    ASSUME NEW n \in Nat, NEW k \in 1..n
    PROVE  Max(1..k) = k /\ (1..k) \ {Max(1..k)} = 1..(k - 1) /\ 1..k \in SUBSET (1..n) /\ 1..k # {}
<1>1. 1..k \in SUBSET (1..n) /\ 1..k # {} /\ k \in 1..k
  OBVIOUS
<1>2. Max(1..k) \in 1..k /\ \A j \in 1..k : j <= Max(1..k)
  BY <1>1, MaxOfPositions
<1>3. Max(1..k) = k
  BY <1>1, <1>2
<1> QED
  BY <1>1, <1>3

\* The first messages of a transcript.
LEMMA FirstMessages ==
    ASSUME NEW M, NEW t \in Seq(M)
    PROVE  /\ SubSeq(t, 1, 0) = <<>> /\ SubSeq(t, 1, Len(t)) = t /\ DOMAIN t = 1..Len(t) /\ Len(t) \in Nat
           /\ \A k \in 1..Len(t) : /\ SubSeq(t, 1, k - 1) \in Seq(M) /\ t[k] \in M
                                    /\ SubSeq(t, 1, k) = Append(SubSeq(t, 1, k - 1), t[k])
<1>1. SubSeq(t, 1, 0) = <<>> /\ SubSeq(t, 1, Len(t)) = t /\ DOMAIN t = 1..Len(t) /\ Len(t) \in Nat
  OBVIOUS
<1>2. ASSUME NEW k \in 1..Len(t)
      PROVE  SubSeq(t, 1, k - 1) \in Seq(M) /\ t[k] \in M /\ SubSeq(t, 1, k) = Append(SubSeq(t, 1, k - 1), t[k])
  OBVIOUS
<1> QED
  BY <1>1, <1>2

\* validateChatCompletionsTranscript reads the transcript to its end: what holds of its
\* loop holds of its result.
LEMMA ValidatorReadsAll ==
    ASSUME NEW t \in Seq(AnyMessage)
    PROVE  Validated(t, FoldLeft(ValidateMessage, ValidatorStart, t))
<1> DEFINE n == Len(t)
           step == [p \in Verdicts \X AnyMessage |-> ValidateMessage(p[1], p[2])]
           Equation(fold) ==
             fold = [s \in SUBSET DOMAIN t |->
                       IF s = {} THEN ValidatorStart ELSE ValidateMessage(fold[s \ {Max(s)}], t[Max(s)])]
           fold == CHOOSE fold : Equation(fold)
<1>1. FoldLeft(ValidateMessage, ValidatorStart, t) = fold[DOMAIN t]
  BY DEF FoldLeft, MapThenFoldSet
<1>2. \E g : Equation(g)
  <2>1. n \in Nat /\ DOMAIN t = 1..n
    BY FirstMessages DEF n
  <2>2. step \in [Verdicts \X AnyMessage -> Verdicts]
    <3> SUFFICES ASSUME NEW v \in Verdicts, NEW m \in AnyMessage PROVE ValidateMessage(v, m) \in Verdicts
      OBVIOUS
    <3> QED
      BY VerdictsStay
  <2>3. ValidatorStart \in Verdicts
    BY NothingRead DEF Validated
  <2>4. PICK g \in [SUBSET (1..n) -> Verdicts] : Folds(g, n, ValidatorStart, step, t)
    <3> HIDE DEF step
    <3> QED
      BY <2>2, <2>3, FoldsExist DEF n
  <2>5. ASSUME NEW s \in SUBSET (1..n)
        PROVE  g[s] = IF s = {} THEN ValidatorStart ELSE ValidateMessage(g[s \ {Max(s)}], t[Max(s)])
    <3>1. CASE s # {}
      <4>1. Max(s) \in s
        BY <2>1, <3>1, MaxOfPositions
      <4>2. t[Max(s)] \in AnyMessage /\ s \ {Max(s)} \in SUBSET (1..n)
        <5>1. Max(s) \in 1..n /\ \A k \in 1..n : t[k] \in AnyMessage
          BY <2>1, <4>1, FirstMessages DEF n
        <5> QED
          BY <5>1
      <4>3. g[s \ {Max(s)}] \in Verdicts
        BY <4>2
      <4>4. g[s] = step[g[s \ {Max(s)}], t[Max(s)]]
        BY <2>4, <3>1 DEF Folds
      <4> QED
        BY <3>1, <4>2, <4>3, <4>4
    <3>2. CASE s = {}
      BY <2>4, <3>2 DEF Folds
    <3> QED
      BY <3>1, <3>2
  <2>6. Equation(g)
    BY <2>1, <2>5
  <2> QED
    BY <2>6
<1>3. Equation(fold)
  <2> HIDE DEF Equation
  <2> QED
    BY <1>2
<1>4. n \in Nat /\ DOMAIN t = 1..n /\ SubSeq(t, 1, 0) = <<>> /\ SubSeq(t, 1, n) = t
      /\ \A k \in 1..n : /\ SubSeq(t, 1, k - 1) \in Seq(AnyMessage) /\ t[k] \in AnyMessage
                         /\ SubSeq(t, 1, k) = Append(SubSeq(t, 1, k - 1), t[k])
  BY FirstMessages
<1> HIDE DEF fold, n
<1> DEFINE P == {k \in Nat : k <= n => Validated(SubSeq(t, 1, k), fold[1..k])}
<1>5. 0 \in P
  <2>1. 1..0 = {} /\ 1..0 \in SUBSET (1..n)
    OBVIOUS
  <2>2. fold[1..0] = ValidatorStart
    BY <1>3, <1>4, <2>1
  <2> QED
    BY <1>4, <2>2, NothingRead
<1>6. ASSUME NEW k \in P PROVE k + 1 \in P
  <2>1. CASE k + 1 <= n
    <3>1. k + 1 \in 1..n /\ k + 1 - 1 = k /\ k \in Nat /\ k + 1 \in Nat
      BY <1>4, <2>1
    <3>2. Validated(SubSeq(t, 1, k), fold[1..k])
      BY <1>4, <2>1, <3>1
    <3>3. /\ Max(1..(k + 1)) = k + 1 /\ (1..(k + 1)) \ {Max(1..(k + 1))} = 1..k
          /\ 1..(k + 1) \in SUBSET (1..n) /\ 1..(k + 1) # {}
      <4> DEFINE j == k + 1
      <4>1. n \in Nat /\ j \in 1..n /\ j - 1 = k
        BY <1>4, <3>1
      <4> HIDE DEF j, P
      <4>2. /\ Max(1..j) = j /\ (1..j) \ {Max(1..j)} = 1..(j - 1) /\ 1..j \in SUBSET (1..n) /\ 1..j # {}
        BY <4>1, FoldsInOrder
      <4> QED
        BY <4>1, <4>2 DEF j
    <3>4. fold[1..(k + 1)] = ValidateMessage(fold[1..k], t[k + 1])
      BY <1>3, <1>4, <3>3
    <3>5. /\ SubSeq(t, 1, k) \in Seq(AnyMessage) /\ t[k + 1] \in AnyMessage
          /\ SubSeq(t, 1, k + 1) = Append(SubSeq(t, 1, k), t[k + 1])
      BY <1>4, <3>1
    <3>6. Validated(SubSeq(t, 1, k + 1), fold[1..(k + 1)])
      BY <3>2, <3>4, <3>5, OneMoreIsValidated
    <3> QED
      BY <3>1, <3>6
  <2>2. CASE ~(k + 1 <= n)
    BY <2>2
  <2> QED
    BY <2>1, <2>2
<1>7. P = Nat
  <2>1. P \in SUBSET Nat
    OBVIOUS
  <2> HIDE DEF P
  <2> QED
    BY <1>5, <1>6, <2>1, Induction
<1>8. Validated(SubSeq(t, 1, n), fold[1..n])
  BY <1>4, <1>7
<1> QED
  BY <1>1, <1>4, <1>8

\* validateChatCompletionsTranscript accepts exactly the well-formed transcripts, of any
\* length and with any ids.
THEOREM AcceptedMeansWellFormed ==
    ASSUME NEW t \in Seq(AnyMessage)
    PROVE  ValidTranscript(t) <=> WellFormed(t)
BY ValidatorReadsAll, ValidatedMeans DEF ValidTranscript

\* What convertToLlm makes of a message that is not hidden, and of such messages.
LlmMessage(m) == IF m.role = "session" THEN User ELSE m
AsLlm(t) == [i \in DOMAIN t |-> LlmMessage(t[i])]

\* A message more, converted.
LEMMA LlmMessages ==
    ASSUME NEW t \in Seq(AnyMessage)
    PROVE  /\ AsLlm(t) \in Seq(AnyMessage)
           /\ \A m \in AnyMessage : AsLlm(Append(t, m)) = Append(AsLlm(t), LlmMessage(m))
<1>1. \A m \in AnyMessage : LlmMessage(m) \in AnyMessage
  BY DEF LlmMessage, User, Message, AnyMessage, Roles, Blank
<1>2. DOMAIN t = 1..Len(t) /\ Len(t) \in Nat /\ \A k \in 1..Len(t) : t[k] \in AnyMessage
  OBVIOUS
<1>3. AsLlm(t) \in Seq(AnyMessage) /\ Len(AsLlm(t)) = Len(t)
  <2>1. AsLlm(t) = [i \in 1..Len(t) |-> LlmMessage(t[i])]
    BY <1>2 DEF AsLlm
  <2>2. \A i \in 1..Len(t) : LlmMessage(t[i]) \in AnyMessage
    BY <1>1, <1>2
  <2> QED
    BY <1>2, <2>1, <2>2
<1>4. ASSUME NEW m \in AnyMessage PROVE AsLlm(Append(t, m)) = Append(AsLlm(t), LlmMessage(m))
  <2> DEFINE u == Append(t, m)
             v == Append(AsLlm(t), LlmMessage(m))
  <2>1. DOMAIN u = 1..(Len(t) + 1) /\ u[Len(t) + 1] = m /\ \A i \in 1..Len(t) : u[i] = t[i]
    BY <1>2
  <2>2. /\ v \in Seq(AnyMessage) /\ DOMAIN v = 1..(Len(t) + 1) /\ v[Len(t) + 1] = LlmMessage(m)
        /\ \A i \in 1..Len(t) : v[i] = AsLlm(t)[i]
    BY <1>1, <1>2, <1>3
  <2>3. v = [i \in 1..(Len(t) + 1) |-> v[i]]
    <3> HIDE DEF v
    <3> QED
      BY <2>2
  <2> HIDE DEF u, v
  <2>4. \A i \in 1..(Len(t) + 1) : v[i] = LlmMessage(u[i])
    <3>1. \A i \in 1..Len(t) : AsLlm(t)[i] = LlmMessage(t[i])
      BY <1>2 DEF AsLlm
    <3>2. \A i \in 1..(Len(t) + 1) : i \in 1..Len(t) \/ i = Len(t) + 1
      BY <1>2
    <3> QED
      BY <2>1, <2>2, <3>1, <3>2
  <2>5. AsLlm(u) = v
    BY <2>1, <2>3, <2>4 DEF AsLlm
  <2> QED
    BY <2>5 DEF u, v
<1> QED
  BY <1>3, <1>4

\* convertToLlm, where nothing is hidden from the model: the session's own messages
\* become the user's, the others stay what they are.
LEMMA ConvertsToUsers ==
    ASSUME NEW t \in Seq(AnyMessage), \A i \in DOMAIN t : t[i].role # "hidden"
    PROVE  ConvertToLlm(t) = AsLlm(t)
<1> DEFINE n == Len(t)
           V == Seq(AnyMessage)
           step == [p \in V \X AnyMessage |-> ConvertMessage(p[1], p[2])]
           Equation(fold) ==
             fold = [s \in SUBSET DOMAIN t |->
                       IF s = {} THEN <<>> ELSE ConvertMessage(fold[s \ {Max(s)}], t[Max(s)])]
           fold == CHOOSE fold : Equation(fold)
<1>1. ConvertToLlm(t) = fold[DOMAIN t]
  BY DEF ConvertToLlm, FoldLeft, MapThenFoldSet
<1>2. \E g : Equation(g)
  <2>1. n \in Nat /\ DOMAIN t = 1..n /\ \A k \in 1..n : t[k] \in AnyMessage
    BY FirstMessages DEF n
  <2>2. step \in [V \X AnyMessage -> V]
    <3> SUFFICES ASSUME NEW c \in V, NEW m \in AnyMessage PROVE ConvertMessage(c, m) \in V
      OBVIOUS
    <3>1. User \in AnyMessage
      BY DEF User, Message, AnyMessage, Roles, Blank
    <3> QED
      BY <3>1 DEF ConvertMessage
  <2>3. <<>> \in V
    OBVIOUS
  <2>4. PICK g \in [SUBSET (1..n) -> V] : Folds(g, n, <<>>, step, t)
    <3> HIDE DEF step, V
    <3> QED
      BY <2>2, <2>3, FoldsExist DEF n
  <2>5. ASSUME NEW s \in SUBSET (1..n)
        PROVE  g[s] = IF s = {} THEN <<>> ELSE ConvertMessage(g[s \ {Max(s)}], t[Max(s)])
    <3> HIDE DEF V
    <3>1. CASE s # {}
      <4>1. Max(s) \in s
        BY <2>1, <3>1, MaxOfPositions
      <4>2. t[Max(s)] \in AnyMessage /\ g[s \ {Max(s)}] \in V
        BY <2>1, <4>1
      <4>3. g[s] = step[g[s \ {Max(s)}], t[Max(s)]]
        BY <2>4, <3>1 DEF Folds
      <4> QED
        BY <3>1, <4>2, <4>3
    <3>2. CASE s = {}
      BY <2>4, <3>2 DEF Folds
    <3> QED
      BY <3>1, <3>2
  <2>6. Equation(g)
    BY <2>1, <2>5
  <2> QED
    BY <2>6
<1>3. Equation(fold)
  <2> HIDE DEF Equation
  <2> QED
    BY <1>2
<1>4. n \in Nat /\ DOMAIN t = 1..n /\ SubSeq(t, 1, 0) = <<>> /\ SubSeq(t, 1, n) = t
      /\ \A k \in 1..n : SubSeq(t, 1, k) = Append(SubSeq(t, 1, k - 1), t[k])
  BY FirstMessages
<1> HIDE DEF fold, n
<1> DEFINE P == {k \in Nat : k <= n => fold[1..k] = AsLlm(SubSeq(t, 1, k))}
<1>5. 0 \in P
  <2>1. 1..0 = {} /\ 1..0 \in SUBSET (1..n)
    OBVIOUS
  <2>2. fold[1..0] = <<>>
    BY <1>3, <1>4, <2>1
  <2>3. AsLlm(<<>>) = <<>>
    BY DEF AsLlm
  <2> QED
    BY <1>4, <2>2, <2>3
<1>6. ASSUME NEW k \in P PROVE k + 1 \in P
  <2>1. CASE k + 1 <= n
    <3>1. k + 1 \in 1..n /\ k + 1 - 1 = k /\ k \in Nat /\ k + 1 \in Nat
      BY <1>4, <2>1
    <3>2. fold[1..k] = AsLlm(SubSeq(t, 1, k))
      BY <1>4, <2>1, <3>1
    <3>3. /\ Max(1..(k + 1)) = k + 1 /\ (1..(k + 1)) \ {Max(1..(k + 1))} = 1..k
          /\ 1..(k + 1) \in SUBSET (1..n) /\ 1..(k + 1) # {}
      <4> DEFINE j == k + 1
      <4>1. n \in Nat /\ j \in 1..n /\ j - 1 = k
        BY <1>4, <3>1
      <4> HIDE DEF j, P
      <4>2. /\ Max(1..j) = j /\ (1..j) \ {Max(1..j)} = 1..(j - 1) /\ 1..j \in SUBSET (1..n) /\ 1..j # {}
        BY <4>1, FoldsInOrder
      <4> QED
        BY <4>1, <4>2 DEF j
    <3>4. fold[1..(k + 1)] = ConvertMessage(fold[1..k], t[k + 1])
      BY <1>3, <1>4, <3>3
    <3>5. fold[1..(k + 1)] = Append(AsLlm(SubSeq(t, 1, k)), LlmMessage(t[k + 1]))
      BY <1>4, <3>1, <3>2, <3>4 DEF ConvertMessage, LlmMessage
    <3>6. fold[1..(k + 1)] = AsLlm(SubSeq(t, 1, k + 1))
      <4>1. t[k + 1] \in AnyMessage /\ SubSeq(t, 1, k) \in Seq(AnyMessage)
        BY <1>4, <3>1
      <4>2. SubSeq(t, 1, k + 1) = Append(SubSeq(t, 1, k), t[k + 1])
        BY <1>4, <3>1
      <4> QED
        BY <3>5, <4>1, <4>2, LlmMessages
    <3> QED
      BY <3>1, <3>6
  <2>2. CASE ~(k + 1 <= n)
    BY <2>2
  <2> QED
    BY <2>1, <2>2
<1>7. P = Nat
  <2>1. P \in SUBSET Nat
    OBVIOUS
  <2> HIDE DEF P
  <2> QED
    BY <1>5, <1>6, <2>1, Induction
<1>8. n <= n => fold[1..n] = AsLlm(SubSeq(t, 1, n))
  BY <1>4, <1>7
<1>9. fold[1..n] = AsLlm(t)
  <2>1. n <= n /\ SubSeq(t, 1, n) = t
    BY <1>4
  <2>2. fold[1..n] = AsLlm(SubSeq(t, 1, n))
    BY <1>8, <2>1
  <2>3. AsLlm(SubSeq(t, 1, n)) = AsLlm(t)
    BY <2>1, Zenon
  <2> QED
    BY <2>2, <2>3
<1>10. ConvertToLlm(t) = fold[1..n]
  BY <1>1, <1>4
<1> QED
  BY <1>9, <1>10

\* convertToLlm leaves the messages alone that models understand.
LEMMA ConvertsToItself ==
    ASSUME NEW t \in Seq(AnyMessage), \A i \in DOMAIN t : t[i].role \notin {"session", "hidden"}
    PROVE  ConvertToLlm(t) = t
<1>1. AsLlm(t) = [i \in DOMAIN t |-> t[i]] /\ t = [i \in DOMAIN t |-> t[i]]
  BY DEF AsLlm, LlmMessage
<1> QED
  BY <1>1, ConvertsToUsers
=============================================================================
