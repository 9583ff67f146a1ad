------------------------- MODULE ConversationProofs -------------------------
(***************************************************************************)
(* Proofs about Conversation, for any keys, workflows, history, time to    *)
(* live and limit of a call.                                               *)
(***************************************************************************)
EXTENDS Conversation, TLAPS

-----------------------------------------------------------------------------
(***************************************************************************)
(* Trimming.                                                               *)
(***************************************************************************)

\* A trimmed history is a history, and no longer than it may be.
LEMMA TrimType ==
  ASSUME NEW s \in Seq(Message)
  PROVE  Trim(s) \in Seq(Message) /\ (maxHistory > 0 => Len(Trim(s)) <= maxHistory)
<1>1. CASE maxHistory > 0 /\ Len(s) > maxHistory
  <2> DEFINE t == SubSeq(s, Len(s) - maxHistory + 1, Len(s))
  <2>1. Trim(s) = t
    BY <1>1 DEF Trim
  <2>2. Len(s) - maxHistory + 1 \in 1 .. Len(s)
    BY <1>1, StoreAssumption
  <2>3. t \in Seq(Message) /\ Len(t) = maxHistory
    BY <2>2, StoreAssumption
  <2> QED
    BY <2>1, <2>3, StoreAssumption
<1>2. CASE ~(maxHistory > 0 /\ Len(s) > maxHistory)
  BY <1>2, StoreAssumption DEF Trim
<1> QED
  BY <1>1, <1>2

\* Trimming after every message leaves what trimming once would.
LEMMA TrimAppend ==
  ASSUME NEW s \in Seq(Message), NEW m \in Message
  PROVE  Trim(Append(Trim(s), m)) = Trim(Append(s, m))
<1> DEFINE M == maxHistory
           L == Len(s)
<1>1. CASE ~(M > 0 /\ L > M)
  BY <1>1 DEF Trim
<1>2. CASE M > 0 /\ L > M
  <2> DEFINE t == SubSeq(s, L - M + 1, L)
             a == Append(t, m)
             b == Append(s, m)
  <2>1. M \in Nat /\ L \in Nat /\ L - M + 1 \in 1..L
    BY <1>2, StoreAssumption
  <2>2. t \in Seq(Message) /\ Len(t) = M /\ \A i \in 1..M : t[i] = s[L - M + i]
    BY <2>1
  <2>3. a \in Seq(Message) /\ Len(a) = M + 1 /\ a[M + 1] = m /\ \A i \in 1..M : a[i] = t[i]
    BY <2>1, <2>2
  <2>4. b \in Seq(Message) /\ Len(b) = L + 1 /\ b[L + 1] = m /\ \A i \in 1..L : b[i] = s[i]
    BY <2>1
  <2>5. Trim(s) = t
    BY <1>2 DEF Trim
  <2> HIDE DEF t, a, b, L, M
  <2>6. Trim(a) = SubSeq(a, 2, M + 1)
    <3>1. M + 1 - M + 1 = 2 /\ M + 1 > M /\ M > 0
      BY <1>2, <2>1
    <3> QED
      BY <2>1, <2>3, <3>1 DEF Trim, M
  <2>7. Trim(b) = SubSeq(b, L + 2 - M, L + 1)
    <3>1. L + 1 - M + 1 = L + 2 - M /\ L + 1 > M /\ M > 0
      BY <1>2, <2>1
    <3> QED
      BY <2>1, <2>4, <3>1 DEF Trim, M
  <2>8. SubSeq(a, 2, M + 1) = [i \in 1..M |-> a[i + 1]]
    BY <2>1, <2>3
  <2>9. SubSeq(b, L + 2 - M, L + 1) = [i \in 1..M |-> b[L - M + 1 + i]]
    BY <1>2, <2>1, <2>4
  <2>10. ASSUME NEW i \in 1..M PROVE a[i + 1] = b[L - M + 1 + i]
    <3>1. CASE i = M
      <4>1. L - M + 1 + i = L + 1
        BY <2>1, <3>1
      <4> QED
        BY <2>3, <2>4, <3>1, <4>1
    <3>2. CASE i < M
      <4>1. i + 1 \in 1..M /\ L - M + (i + 1) = L - M + 1 + i /\ L - M + 1 + i \in 1..L
        BY <1>2, <2>1, <3>2
      <4> QED
        BY <2>2, <2>3, <2>4, <4>1
    <3> QED
      BY <2>1, <3>1, <3>2
  <2> QED
    BY <2>5, <2>6, <2>7, <2>8, <2>9, <2>10 DEF a, b
<1> QED
  BY <1>1, <1>2

\* What a trimmed history holds, and what it leaves out.
LEMMA TrimmedEnd ==
  ASSUME NEW s \in Seq(Message)
  PROVE  \E d \in Nat :
           /\ d <= Len(s) /\ Len(Trim(s)) = Len(s) - d
           /\ \A i \in 1 .. Len(s) - d : Trim(s)[i] = s[d + i]
           /\ d > 0 => Len(Trim(s)) = maxHistory
<1>1. CASE ~(maxHistory > 0 /\ Len(s) > maxHistory)
  <2>1. Trim(s) = s
    BY <1>1 DEF Trim
  <2>2. Len(s) \in Nat /\ Len(s) - 0 = Len(s) /\ \A i \in 1 .. Len(s) : 0 + i = i
    OBVIOUS
  <2> WITNESS 0 \in Nat
  <2> QED
    BY <2>1, <2>2
<1>2. CASE maxHistory > 0 /\ Len(s) > maxHistory
  <2> DEFINE d == Len(s) - maxHistory
  <2>1. d \in Nat /\ d <= Len(s) /\ Len(s) - d = maxHistory /\ d + 1 \in 1 .. Len(s)
    BY <1>2, StoreAssumption
  <2>2. Trim(s) = SubSeq(s, d + 1, Len(s))
    BY <1>2 DEF Trim
  <2>3. Len(Trim(s)) = Len(s) - d /\ \A i \in 1 .. Len(s) - d : Trim(s)[i] = s[d + i]
    BY <2>1, <2>2, StoreAssumption
  <2>4. d > 0 => Len(Trim(s)) = maxHistory
    BY <2>1, <2>3
  <2> HIDE DEF d
  <2> QED
    BY <2>1, <2>3, <2>4
<1> QED
  BY <1>1, <1>2

-----------------------------------------------------------------------------
(***************************************************************************)
(* Type correctness, and with it the bound of the history.                 *)
(***************************************************************************)

\* What a call of Store.Append leaves.
LEMMA AppendType ==
  ASSUME ConversationTypeOK, NEW k \in Keys, NEW to \in Nat, AppendMessage(k, to)
  PROVE  /\ messages' \in [Keys -> Seq(Message)] /\ log' \in [Keys -> Seq(Message)]
         /\ maxHistory > 0 => \A j \in Keys : Len(messages'[j]) <= maxHistory
         /\ idle' \in [Keys -> 0 .. ttl + 1] /\ sent' = sent + 1 /\ sent' \in Nat
         /\ UNCHANGED <<convos, metadata, handles>>
<1> DEFINE m == [n |-> sent + 1, to |-> to]
<1>1. m \in Message /\ sent + 1 \in Nat
  BY DEF ConversationTypeOK, Message
<1>2. sent' = sent + 1 /\ UNCHANGED <<convos, metadata, handles>>
  BY DEF AppendMessage
<1>3. CASE k \notin convos
  BY <1>1, <1>2, <1>3 DEF AppendMessage, ConversationTypeOK
<1>4. CASE k \in convos
  <2>1. /\ messages' = [messages EXCEPT ![k] = Trim(Append(messages[k], m))]
        /\ log' = [log EXCEPT ![k] = Append(log[k], m)]
        /\ idle' = [idle EXCEPT ![k] = 0]
    BY <1>4 DEF AppendMessage
  <2>2. Append(messages[k], m) \in Seq(Message) /\ Append(log[k], m) \in Seq(Message)
    BY <1>1 DEF ConversationTypeOK
  <2>3. /\ Trim(Append(messages[k], m)) \in Seq(Message)
        /\ maxHistory > 0 => Len(Trim(Append(messages[k], m))) <= maxHistory
    BY <2>2, TrimType
  <2>4. 0 \in 0 .. ttl + 1
    BY StoreAssumption
  <2> HIDE DEF m
  <2> QED
    BY <1>1, <1>2, <2>1, <2>2, <2>3, <2>4 DEF ConversationTypeOK
<1> QED
  BY <1>3, <1>4

\* Every step of the store and the workflows keeps the types.
LEMMA ConversationTypeStep == ConversationTypeOK /\ [ConversationNext]_conversationVars => ConversationTypeOK'
<1> SUFFICES ASSUME ConversationTypeOK, [ConversationNext]_conversationVars PROVE ConversationTypeOK'
  OBVIOUS
<1>1. \A w \in Workflows : question[w] \in Nat /\ on[w] \in Keys
  BY DEF ConversationTypeOK
<1>2. \A n \in Nat : 1..n \subseteq 1 .. n + 1 /\ n + 1 \in 1 .. n + 1
  OBVIOUS
<1>3. ASSUME NEW w \in Workflows, NEW k \in Keys, GetHandle(w, k) PROVE ConversationTypeOK'
  BY <1>3 DEF GetHandle, ConversationTypeOK, replies
<1>4. ASSUME NEW w \in Workflows, NEW k \in Keys, AddMessage(w, k) PROVE ConversationTypeOK'
  <2>1. AppendMessage(k, 0) /\ UNCHANGED <<replies, lost>>
    BY <1>4 DEF AddMessage
  <2> QED
    BY <1>2, <2>1, AppendType DEF ConversationTypeOK, replies
<1>5. ASSUME NEW w \in Workflows, NEW k \in Keys, SetMetadata(w, k) PROVE ConversationTypeOK'
  BY <1>5 DEF SetMetadata, ConversationTypeOK, replies
<1>6. ASSUME NEW w \in Workflows, NEW k \in Keys, Ask(w, k) PROVE ConversationTypeOK'
  <2>1. /\ AppendMessage(k, 0) /\ lost' \in {lost, lost \cup {sent + 1}}
        /\ step' = [step EXCEPT ![w] = "asked"] /\ on' = [on EXCEPT ![w] = k]
        /\ question' = [question EXCEPT ![w] = sent + 1]
        /\ waited' = [waited EXCEPT ![w] = 0] /\ UNCHANGED context
    BY <1>6 DEF Ask
  <2>2. lost' \subseteq 1 .. sent + 1 /\ 0 \in 0..CallLimit
    BY <1>2, <2>1, BoundsAssumption DEF ConversationTypeOK
  <2>3. /\ step' \in [Workflows -> {"none", "asked", "calling"}] /\ on' \in [Workflows -> Keys]
        /\ question' \in [Workflows -> Nat] /\ waited' \in [Workflows -> 0..CallLimit]
    BY <2>1, <2>2 DEF ConversationTypeOK
  <2> QED
    BY <2>1, <2>2, <2>3, AppendType DEF ConversationTypeOK
<1>7. ASSUME NEW w \in Workflows, Read(w) PROVE ConversationTypeOK'
  BY <1>1, <1>7 DEF Read, ConversationTypeOK, store
<1>8. ASSUME NEW w \in Workflows, Return(w)
      PROVE  /\ step' \in [Workflows -> {"none", "asked", "calling"}] /\ on' \in [Workflows -> Keys]
             /\ question' \in [Workflows -> Nat] /\ waited' \in [Workflows -> 0..CallLimit]
             /\ context' \in [Workflows -> Seq(Message)]
  BY <1>8, BoundsAssumption DEF Return, ConversationTypeOK
<1>9. ASSUME NEW w \in Workflows, Answer(w) PROVE ConversationTypeOK'
  <2>1. AppendMessage(on[w], question[w]) /\ Return(w) /\ UNCHANGED lost
    BY <1>9 DEF Answer
  <2> QED
    BY <1>1, <1>2, <1>8, <2>1, AppendType DEF ConversationTypeOK
<1>10. ASSUME NEW w \in Workflows, LLMFails(w) PROVE ConversationTypeOK'
  <2>1. Return(w) /\ UNCHANGED <<store, handles, sent, lost>>
    BY <1>10 DEF LLMFails
  <2> QED
    BY <1>8, <2>1 DEF ConversationTypeOK, store
<1>11. CASE Cleanup
  <2>1. /\ <<>> \in Seq(Message) /\ Len(<<>>) = 0 /\ 0 \in 0 .. ttl + 1
    BY StoreAssumption
  <2> QED
    BY <1>11, <2>1, StoreAssumption DEF Cleanup, ConversationTypeOK, replies
<1>12. CASE Minute
  <2>1. idle' \in [Keys -> 0 .. ttl + 1]
    BY <1>12, StoreAssumption DEF Minute, ConversationTypeOK
  <2>2. waited' \in [Workflows -> 0..CallLimit]
    <3>1. \A w \in Workflows : waited[w] \in 0..CallLimit /\ (step[w] # "none" => waited[w] < CallLimit)
      BY <1>12 DEF Minute, ConversationTypeOK
    <3>2. waited' = [w \in Workflows |-> IF step[w] = "none" THEN waited[w] ELSE waited[w] + 1]
      BY <1>12 DEF Minute
    <3> QED
      BY <3>1, <3>2, BoundsAssumption
  <2> QED
    BY <1>12, <2>1, <2>2 DEF Minute, ConversationTypeOK
<1>13. CASE UNCHANGED conversationVars
  BY <1>13 DEF conversationVars, ConversationTypeOK
<1> QED
  BY <1>3, <1>4, <1>5, <1>6, <1>7, <1>9, <1>10, <1>11, <1>12, <1>13 DEF ConversationNext

\* The variables keep their types, and no conversation holds more messages than
\* maxHistory, whatever its workflows append.
THEOREM ConversationTypeOKHolds == ConversationSpec => []ConversationTypeOK
<1>1. ConversationInit => ConversationTypeOK
  BY StoreAssumption, BoundsAssumption DEF ConversationInit, ConversationTypeOK
<1> QED
  BY <1>1, ConversationTypeStep, PTL DEF ConversationSpec

-----------------------------------------------------------------------------
(***************************************************************************)
(* The log of a conversation.                                              *)
(***************************************************************************)

\* Messages are numbered in the order they were appended in, and no prompt has
\* a number that is still to come.
Ordered ==
  /\ \A k \in Keys : \A i \in DOMAIN log[k] : log[k][i].n <= sent
  /\ \A k \in Keys : \A i, j \in DOMAIN log[k] : i < j => log[k][i].n < log[k][j].n
  /\ \A w \in Workflows : question[w] <= sent

LogInv == RecentHistory /\ Ordered

\* A log is left alone, or deleted, or grows by the message that is sent.
LogStep ==
  \A k \in Keys :
    \/ log'[k] = log[k] /\ messages'[k] = messages[k]
    \/ log'[k] = <<>> /\ messages'[k] = <<>>
    \/ \E m \in Message :
         /\ m.n = sent + 1 /\ sent' = sent + 1
         /\ log'[k] = Append(log[k], m) /\ messages'[k] = Trim(Append(messages[k], m))

\* Only the conversation it names gets the message, if there is one.
LEMMA AppendEffect ==
  ASSUME ConversationTypeOK, NEW k \in Keys, NEW to \in Nat, AppendMessage(k, to)
  PROVE  \E m \in Message :
           /\ m.n = sent + 1 /\ m.to = to /\ sent' = sent + 1 /\ convos' = convos
           /\ \A j \in Keys :
                IF j = k /\ k \in convos
                THEN /\ log'[j] = Append(log[j], m) /\ messages'[j] = Trim(Append(messages[j], m))
                     /\ idle'[j] = 0
                ELSE log'[j] = log[j] /\ messages'[j] = messages[j] /\ idle'[j] = idle[j]
<1> DEFINE m == [n |-> sent + 1, to |-> to]
<1>1. m \in Message /\ m.n = sent + 1 /\ m.to = to
  BY DEF ConversationTypeOK, Message
<1>2. sent' = sent + 1 /\ convos' = convos
  BY DEF AppendMessage
<1>3. CASE k \notin convos
  BY <1>1, <1>2, <1>3 DEF AppendMessage
<1>4. CASE k \in convos
  <2>1. /\ messages' = [messages EXCEPT ![k] = Trim(Append(messages[k], m))]
        /\ log' = [log EXCEPT ![k] = Append(log[k], m)]
        /\ idle' = [idle EXCEPT ![k] = 0]
    BY <1>4 DEF AppendMessage
  <2> HIDE DEF m
  <2> QED
    BY <1>1, <1>2, <1>4, <2>1 DEF ConversationTypeOK
<1> QED
  BY <1>3, <1>4

\* What one step does to the logs, the counter of messages and the questions.
LEMMA NextLogStep ==
  ASSUME ConversationTypeOK, [ConversationNext]_conversationVars
  PROVE  /\ LogStep /\ sent' \in {sent, sent + 1}
         /\ \A w \in Workflows : question'[w] \in {question[w], 0} \/ question'[w] = sent'
<1>1. ASSUME NEW k \in Keys, NEW to \in Nat, AppendMessage(k, to)
      PROVE  LogStep /\ sent' = sent + 1
  BY <1>1, AppendEffect DEF LogStep
<1>2. ASSUME NEW w \in Workflows, NEW k \in Keys, Ask(w, k)
      PROVE  LogStep /\ sent' = sent + 1 /\ question' = [question EXCEPT ![w] = sent']
  <2>1. AppendMessage(k, 0) /\ question' = [question EXCEPT ![w] = sent + 1]
    BY <1>2 DEF Ask
  <2> QED
    BY <1>1, <2>1
<1>3. ASSUME NEW w \in Workflows, NEW k \in Keys, AddMessage(w, k)
      PROVE  LogStep /\ sent' = sent + 1 /\ question' = question
  <2>1. AppendMessage(k, 0) /\ question' = question
    BY <1>3 DEF AddMessage, replies
  <2> QED
    BY <1>1, <2>1
<1>4. ASSUME NEW w \in Workflows, Answer(w)
      PROVE  LogStep /\ sent' = sent + 1 /\ question' = [question EXCEPT ![w] = 0]
  <2>1. AppendMessage(on[w], question[w]) /\ question' = [question EXCEPT ![w] = 0]
    BY <1>4 DEF Answer, Return
  <2>2. on[w] \in Keys /\ question[w] \in Nat
    BY DEF ConversationTypeOK
  <2> QED
    BY <1>1, <2>1, <2>2
<1>5. ASSUME NEW w \in Workflows, LLMFails(w)
      PROVE  LogStep /\ sent' = sent /\ question' = [question EXCEPT ![w] = 0]
  BY <1>5 DEF LLMFails, Return, store, LogStep
<1>6. CASE Cleanup
  BY <1>6 DEF Cleanup, LogStep, replies
<1>7. ASSUME NEW w \in Workflows, NEW k \in Keys, GetHandle(w, k) \/ SetMetadata(w, k)
      PROVE  LogStep /\ sent' = sent /\ question' = question
  BY <1>7 DEF GetHandle, SetMetadata, LogStep, replies
<1>8. ASSUME (\E w \in Workflows : Read(w)) \/ Minute \/ UNCHANGED conversationVars
      PROVE  LogStep /\ sent' = sent /\ question' = question
  BY <1>8 DEF Read, Minute, conversationVars, LogStep, store
<1>9. question \in [Workflows -> Nat]
  BY DEF ConversationTypeOK
<1>10. CASE LogStep /\ sent' = sent /\ question' = question
  BY <1>10
<1>11. ASSUME NEW w \in Workflows, LogStep, sent' \in {sent, sent + 1},
              question' \in {question, [question EXCEPT ![w] = 0], [question EXCEPT ![w] = sent']}
       PROVE  \A v \in Workflows : question'[v] \in {question[v], 0} \/ question'[v] = sent'
  BY <1>9, <1>11
<1>12. CASE \E w \in Workflows, k \in Keys : Ask(w, k)
  BY <1>2, <1>11, <1>12
<1>13. CASE \E w \in Workflows, k \in Keys : AddMessage(w, k)
  BY <1>3, <1>13
<1>14. CASE \E w \in Workflows : Answer(w)
  BY <1>4, <1>11, <1>14
<1>15. CASE \E w \in Workflows : LLMFails(w)
  BY <1>5, <1>11, <1>15
<1>16. CASE \E w \in Workflows, k \in Keys : GetHandle(w, k) \/ SetMetadata(w, k)
  BY <1>7, <1>16
<1>17. CASE Cleanup
  BY <1>6, <1>17 DEF Cleanup, replies
<1> QED
  BY <1>8, <1>12, <1>13, <1>14, <1>15, <1>16, <1>17 DEF ConversationNext

\* Messages have numbers.
LEMMA Numbered ==
  ASSUME NEW s \in Seq(Message)
  PROVE  /\ Len(s) \in Nat /\ DOMAIN s = 1 .. Len(s)
         /\ \A i \in DOMAIN s : s[i] \in Message /\ s[i].n \in Nat
<1>1. Len(s) \in Nat /\ DOMAIN s = 1 .. Len(s) /\ \A i \in DOMAIN s : s[i] \in Message
  OBVIOUS
<1>2. \A m \in Message : m.n \in Nat
  BY DEF Message
<1> QED
  BY <1>1, <1>2

\* A log that grows by the newest message stays in order.
LEMMA AppendOrdered ==
  ASSUME NEW s \in Seq(Message), NEW m \in Message, NEW b \in Nat, m.n = b + 1,
         \A i \in DOMAIN s : s[i].n <= b,
         \A i, j \in DOMAIN s : i < j => s[i].n < s[j].n
  PROVE  /\ \A i \in DOMAIN Append(s, m) : Append(s, m)[i].n <= b + 1
         /\ \A i, j \in DOMAIN Append(s, m) : i < j => Append(s, m)[i].n < Append(s, m)[j].n
<1> DEFINE t == Append(s, m)
<1>1. /\ DOMAIN s = 1 .. Len(s) /\ DOMAIN t = 1 .. Len(s) + 1 /\ Len(s) \in Nat
      /\ t[Len(s) + 1] = m /\ \A i \in 1 .. Len(s) : t[i] = s[i] /\ s[i].n \in Nat
  BY Numbered
<1>2. \A i \in DOMAIN t : i \in DOMAIN s \/ i = Len(s) + 1
  BY <1>1
<1> HIDE DEF t
<1>3. ASSUME NEW i \in DOMAIN t PROVE t[i].n <= b + 1
  BY <1>1, <1>2
<1>4. ASSUME NEW i \in DOMAIN t, NEW j \in DOMAIN t, i < j PROVE t[i].n < t[j].n
  <2>1. i \in DOMAIN s
    BY <1>1, <1>4
  <2>2. CASE j \in DOMAIN s
    BY <1>1, <1>4, <2>1, <2>2
  <2>3. CASE j = Len(s) + 1
    BY <1>1, <2>1, <2>3
  <2> QED
    BY <1>2, <2>2, <2>3
<1> QED
  BY <1>3, <1>4 DEF t

\* Every step keeps the order of the numbers in every log.
LEMMA LogInvStep == ConversationTypeOK /\ LogInv /\ [ConversationNext]_conversationVars => LogInv'
<1> SUFFICES ASSUME ConversationTypeOK, LogInv, [ConversationNext]_conversationVars PROVE LogInv'
  OBVIOUS
<1>1. /\ LogStep /\ sent' \in {sent, sent + 1} /\ sent \in Nat
      /\ \A w \in Workflows : question'[w] \in {question[w], 0} \/ question'[w] = sent'
  BY NextLogStep DEF ConversationTypeOK
<1>2. \A w \in Workflows : question'[w] <= sent'
  <2>1. \A w \in Workflows : question[w] \in Nat /\ question[w] <= sent
    BY DEF LogInv, Ordered, ConversationTypeOK
  <2> QED
    BY <1>1, <2>1
<1>3. ASSUME NEW k \in Keys
      PROVE  /\ messages'[k] = Trim(log'[k])
             /\ \A i \in DOMAIN log'[k] : log'[k][i].n <= sent'
             /\ \A i, j \in DOMAIN log'[k] : i < j => log'[k][i].n < log'[k][j].n
  <2>1. log[k] \in Seq(Message) /\ \A i \in DOMAIN log[k] : log[k][i].n \in Nat
    BY Numbered DEF ConversationTypeOK
  <2>2. /\ messages[k] = Trim(log[k])
        /\ \A i \in DOMAIN log[k] : log[k][i].n <= sent
        /\ \A i, j \in DOMAIN log[k] : i < j => log[k][i].n < log[k][j].n
    BY DEF LogInv, RecentHistory, Ordered
  <2>3. CASE log'[k] = log[k] /\ messages'[k] = messages[k]
    BY <1>1, <2>1, <2>2, <2>3
  <2>4. CASE log'[k] = <<>> /\ messages'[k] = <<>>
    BY <2>4, StoreAssumption DEF Trim
  <2>5. ASSUME NEW m \in Message, m.n = sent + 1, sent' = sent + 1,
               log'[k] = Append(log[k], m), messages'[k] = Trim(Append(messages[k], m))
        PROVE  /\ messages'[k] = Trim(log'[k])
               /\ \A i \in DOMAIN log'[k] : log'[k][i].n <= sent'
               /\ \A i, j \in DOMAIN log'[k] : i < j => log'[k][i].n < log'[k][j].n
    <3>1. messages'[k] = Trim(log'[k])
      BY <2>1, <2>2, <2>5, TrimAppend
    <3>2. /\ \A i \in DOMAIN Append(log[k], m) : Append(log[k], m)[i].n <= sent + 1
          /\ \A i, j \in DOMAIN Append(log[k], m) :
               i < j => Append(log[k], m)[i].n < Append(log[k], m)[j].n
      BY <1>1, <2>1, <2>2, <2>5, AppendOrdered
    <3> QED
      BY <2>5, <3>1, <3>2
  <2> QED
    BY <1>1, <2>3, <2>4, <2>5 DEF LogStep
<1> QED
  BY <1>2, <1>3 DEF LogInv, RecentHistory, Ordered

\* The numbers in every log increase, and none is above the counter of messages.
LEMMA LogInvariant == ConversationSpec => []LogInv
<1>1. ConversationInit => LogInv
  <2> SUFFICES ASSUME ConversationInit PROVE LogInv
    OBVIOUS
  <2>1. Trim(<<>>) = <<>> /\ DOMAIN <<>> = {}
    BY StoreAssumption DEF Trim
  <2>2. \A k \in Keys : log[k] = <<>> /\ messages[k] = <<>>
    BY DEF ConversationInit
  <2>3. sent = 0 /\ \A w \in Workflows : question[w] = 0
    BY DEF ConversationInit
  <2> QED
    BY <2>1, <2>2, <2>3 DEF LogInv, RecentHistory, Ordered
<1> QED
  BY <1>1, LogInvStep, ConversationTypeOKHolds, PTL DEF ConversationSpec

\* Whatever the order in which workflows append and replies are answered, and
\* however often a conversation expires: its history is the end of its log.
THEOREM RecentHistoryHolds == ConversationSpec => []RecentHistory
<1>1. LogInv => RecentHistory
  BY DEF LogInv
<1> QED
  BY <1>1, LogInvariant, PTL

-----------------------------------------------------------------------------
(***************************************************************************)
(* A conversation somebody replies in.                                     *)
(***************************************************************************)

\* Workflow w waits for the answer to a prompt that the store took.
Waiting(w) == step[w] # "none" /\ question[w] \notin lost

\* The conversation is there, was used since, and holds the prompt.
InUse(w) ==
  /\ on[w] \in convos /\ idle[on[w]] <= waited[w]
  /\ \E i \in DOMAIN log[on[w]] : log[on[w]][i].n = question[w]

UseInv == \A w \in Workflows : Waiting(w) => InUse(w)

\* Another workflow's message is no harm.
LEMMA AppendUse ==
  ASSUME ConversationTypeOK, NEW k \in Keys, NEW to \in Nat, AppendMessage(k, to),
         NEW w \in Workflows, InUse(w),
         on'[w] = on[w], question'[w] = question[w], waited'[w] = waited[w]
  PROVE  InUse(w)'
<1>1. on[w] \in Keys /\ waited[w] \in Nat /\ log[on[w]] \in Seq(Message)
  BY BoundsAssumption DEF ConversationTypeOK
<1>2. PICK m \in Message :
        /\ convos' = convos
        /\ \A j \in Keys :
             IF j = k /\ k \in convos
             THEN log'[j] = Append(log[j], m) /\ idle'[j] = 0
             ELSE log'[j] = log[j] /\ idle'[j] = idle[j]
  BY AppendEffect
<1>3. PICK i \in DOMAIN log[on[w]] : log[on[w]][i].n = question[w]
  BY DEF InUse
<1>4. CASE on[w] = k
  <2>1. log'[on[w]] = Append(log[on[w]], m) /\ idle'[on[w]] = 0
    BY <1>1, <1>2, <1>4 DEF InUse
  <2>2. i \in DOMAIN log'[on[w]] /\ log'[on[w]][i] = log[on[w]][i]
    BY <1>1, <1>3, <2>1
  <2> QED
    BY <1>1, <1>2, <1>3, <2>1, <2>2 DEF InUse
<1>5. CASE on[w] # k
  BY <1>1, <1>2, <1>5 DEF InUse
<1> QED
  BY <1>4, <1>5

\* Every step keeps a conversation that a workflow waits on in use.
LEMMA UseStep == Patient /\ ConversationTypeOK /\ UseInv /\ [ConversationNext]_conversationVars => UseInv'
<1> SUFFICES ASSUME Patient, ConversationTypeOK, UseInv, [ConversationNext]_conversationVars, NEW v \in Workflows, Waiting(v)'
             PROVE  InUse(v)'
  BY DEF UseInv
<1>1. /\ on[v] \in Keys /\ waited[v] \in 0..CallLimit /\ question[v] \in Nat
      /\ \A w \in Workflows : on[w] \in Keys /\ question[w] \in Nat
  BY DEF ConversationTypeOK
<1>2. Waiting(v) => InUse(v)
  BY DEF UseInv
<1>3. ASSUME NEW w \in Workflows, NEW k \in Keys, GetHandle(w, k) PROVE InUse(v)'
  BY <1>2, <1>3 DEF GetHandle, replies, Waiting, InUse
<1>4. ASSUME NEW w \in Workflows, NEW k \in Keys, AddMessage(w, k) PROVE InUse(v)'
  <2>1. AppendMessage(k, 0) /\ UNCHANGED <<step, on, question, waited, lost>>
    BY <1>4 DEF AddMessage, replies
  <2> QED
    BY <1>2, <2>1, AppendUse DEF Waiting
<1>5. ASSUME NEW w \in Workflows, NEW k \in Keys, SetMetadata(w, k) PROVE InUse(v)'
  BY <1>2, <1>5 DEF SetMetadata, replies, Waiting, InUse
<1>6. ASSUME NEW w \in Workflows, NEW k \in Keys, Ask(w, k) PROVE InUse(v)'
  <2>1. /\ AppendMessage(k, 0) /\ lost' = IF k \in convos THEN lost ELSE lost \cup {sent + 1}
        /\ step' = [step EXCEPT ![w] = "asked"] /\ on' = [on EXCEPT ![w] = k]
        /\ question' = [question EXCEPT ![w] = sent + 1] /\ waited' = [waited EXCEPT ![w] = 0]
    BY <1>6 DEF Ask
  <2>2. CASE v # w
    <3>1. /\ on'[v] = on[v] /\ question'[v] = question[v] /\ waited'[v] = waited[v]
          /\ step'[v] = step[v]
      BY <2>1, <2>2 DEF ConversationTypeOK
    <3>2. Waiting(v)
      BY <2>1, <3>1 DEF Waiting
    <3> QED
      BY <1>2, <2>1, <3>1, <3>2, AppendUse
  <2>3. CASE v = w
    <3>1. on'[v] = k /\ question'[v] = sent + 1 /\ waited'[v] = 0
      BY <2>1, <2>3 DEF ConversationTypeOK
    <3>2. k \in convos
      BY <2>1, <3>1 DEF Waiting
    <3>3. PICK m \in Message :
            m.n = sent + 1 /\ convos' = convos /\ log'[k] = Append(log[k], m) /\ idle'[k] = 0
      BY <2>1, <3>2, AppendEffect
    <3>4. log[k] \in Seq(Message)
      BY DEF ConversationTypeOK
    <3>5. Len(log[k]) + 1 \in DOMAIN log'[k] /\ log'[k][Len(log[k]) + 1] = m
      BY <3>3, <3>4
    <3> QED
      BY <3>1, <3>2, <3>3, <3>5 DEF InUse
  <2> QED
    BY <2>2, <2>3
<1>7. ASSUME NEW w \in Workflows, Read(w) PROVE InUse(v)'
  <2>1. /\ step[w] = "asked" /\ step' = [step EXCEPT ![w] = "calling"]
        /\ UNCHANGED <<convos, idle, log, on, question, waited, lost>>
    BY <1>7 DEF Read, store
  <2>2. Waiting(v)
    BY <2>1 DEF Waiting, ConversationTypeOK
  <2> QED
    BY <1>2, <2>1, <2>2 DEF InUse
<1>8. ASSUME NEW w \in Workflows, Return(w)
      PROVE  /\ v # w /\ on'[v] = on[v] /\ question'[v] = question[v] /\ waited'[v] = waited[v]
             /\ step'[v] = step[v]
  BY <1>8 DEF Return, ConversationTypeOK, Waiting
<1>9. ASSUME NEW w \in Workflows, Answer(w) PROVE InUse(v)'
  <2>1. AppendMessage(on[w], question[w]) /\ Return(w) /\ lost' = lost
    BY <1>9 DEF Answer
  <2>2. Waiting(v)
    BY <1>8, <2>1 DEF Waiting
  <2> QED
    BY <1>1, <1>2, <1>8, <2>1, <2>2, AppendUse
<1>10. ASSUME NEW w \in Workflows, LLMFails(w) PROVE InUse(v)'
  <2>1. Return(w) /\ UNCHANGED <<convos, idle, log, lost>>
    BY <1>10 DEF LLMFails, store
  <2> QED
    BY <1>2, <1>8, <2>1 DEF Waiting, InUse
<1>11. CASE Cleanup
  <2>1. UNCHANGED <<step, on, question, waited, lost>>
    BY <1>11 DEF Cleanup, replies
  <2>2. InUse(v)
    BY <1>2, <2>1 DEF Waiting
  <2>3. ~(idle[on[v]] > ttl)
    <3>1. idle[on[v]] \in 0 .. ttl + 1
      BY <1>1 DEF ConversationTypeOK
    <3> QED
      BY <1>1, <2>2, <3>1, StoreAssumption, BoundsAssumption DEF InUse, Patient
  <2>4. on[v] \in convos' /\ idle'[on[v]] = idle[on[v]] /\ log'[on[v]] = log[on[v]]
    BY <1>1, <1>11, <2>2, <2>3 DEF Cleanup, InUse
  <2> QED
    BY <2>1, <2>2, <2>4 DEF InUse
<1>12. CASE Minute
  <2>1. /\ UNCHANGED <<convos, step, on, question, log, lost>>
        /\ idle' = [k \in Keys |-> IF k \in convos /\ idle[k] <= ttl THEN idle[k] + 1 ELSE idle[k]]
        /\ waited' = [w \in Workflows |-> IF step[w] = "none" THEN waited[w] ELSE waited[w] + 1]
    BY <1>12 DEF Minute
  <2>2. InUse(v) /\ step[v] # "none"
    BY <1>2, <2>1 DEF Waiting
  <2>3. waited'[v] = waited[v] + 1 /\ idle'[on[v]] \in {idle[on[v]], idle[on[v]] + 1}
    BY <1>1, <2>1, <2>2
  <2>4. idle[on[v]] \in Nat /\ idle[on[v]] <= waited[v]
    <3>1. idle[on[v]] \in 0 .. ttl + 1
      BY <1>1 DEF ConversationTypeOK
    <3> QED
      BY <2>2, <3>1, StoreAssumption DEF InUse
  <2>5. idle'[on[v]] <= waited'[v]
    BY <1>1, <2>3, <2>4, BoundsAssumption
  <2> QED
    BY <2>1, <2>2, <2>5 DEF InUse
<1>13. CASE UNCHANGED conversationVars
  BY <1>2, <1>13 DEF conversationVars, Waiting, InUse
<1> QED
  BY <1>3, <1>4, <1>5, <1>6, <1>7, <1>9, <1>10, <1>11, <1>12, <1>13 DEF ConversationNext

\* A conversation in which somebody waits for an answer does not expire.
LEMMA UseInvariant == Patient => (ConversationSpec => []UseInv)
<1> SUFFICES ASSUME Patient PROVE ConversationSpec => []UseInv
  OBVIOUS
<1>1. ConversationInit => UseInv
  BY DEF ConversationInit, UseInv, Waiting
<1>2. ConversationTypeOK /\ UseInv /\ [ConversationNext]_conversationVars => UseInv'
  BY UseStep
<1> QED
  BY <1>1, <1>2, ConversationTypeOKHolds, PTL DEF ConversationSpec

-----------------------------------------------------------------------------
(***************************************************************************)
(* Questions and answers.                                                  *)
(***************************************************************************)

\* A history read while the question is in the log holds the question, or is
\* full of newer messages.
Seen(q, history) ==
  \/ \E i \in DOMAIN history : history[i].n = q
  \/ /\ Len(history) = maxHistory
     /\ \A i \in DOMAIN history : history[i].n > q

\* A message of the history is seen after a cut unless maxHistory later ones are there.
LEMMA EndSeen ==
  ASSUME NEW s \in Seq(Message), NEW q, NEW p \in DOMAIN s, s[p].n = q,
         \A i, j \in DOMAIN s : i < j => s[i].n < s[j].n
  PROVE  Seen(q, Trim(s))
<1>1. Len(s) \in Nat /\ DOMAIN s = 1 .. Len(s) /\ Trim(s) \in Seq(Message)
  BY TrimType
<1>2. PICK d \in Nat :
        /\ d <= Len(s) /\ Len(Trim(s)) = Len(s) - d
        /\ \A i \in 1 .. Len(s) - d : Trim(s)[i] = s[d + i]
        /\ d > 0 => Len(Trim(s)) = maxHistory
  BY TrimmedEnd
<1>3. DOMAIN Trim(s) = 1 .. Len(s) - d
  BY <1>1, <1>2
<1>4. CASE p > d
  <2>1. p - d \in 1 .. Len(s) - d /\ d + (p - d) = p
    BY <1>1, <1>2, <1>4
  <2> QED
    BY <1>2, <1>3, <2>1 DEF Seen
<1>5. CASE p <= d
  <2>1. d > 0
    BY <1>1, <1>2, <1>5
  <2>2. ASSUME NEW i \in DOMAIN Trim(s) PROVE Trim(s)[i].n > q
    <3>1. d + i \in DOMAIN s /\ p < d + i
      BY <1>1, <1>2, <1>3, <1>5, <2>2
    <3>2. s[p].n < s[d + i].n
      BY <3>1
    <3>3. Trim(s)[i] = s[d + i]
      BY <1>2, <1>3, <2>2
    <3>4. q \in Nat /\ s[d + i].n \in Nat
      BY <3>1, Numbered
    <3> QED
      BY <3>2, <3>3, <3>4
  <2> QED
    BY <1>2, <2>1, <2>2 DEF Seen
<1> QED
  BY <1>1, <1>2, <1>4, <1>5

SeenInv ==
  \A w \in Workflows :
    step[w] = "calling" /\ question[w] \notin lost => Seen(question[w], context[w])

\* Every step keeps the question of a waiting workflow in sight.
LEMMA SeenStep == ConversationTypeOK /\ LogInv /\ UseInv /\ SeenInv /\ [ConversationNext]_conversationVars => SeenInv'
<1> SUFFICES ASSUME ConversationTypeOK, LogInv, UseInv, SeenInv, [ConversationNext]_conversationVars, NEW v \in Workflows,
                    step'[v] = "calling", question'[v] \notin lost'
             PROVE  Seen(question'[v], context'[v])
  BY DEF SeenInv, Seen
<1>1. step[v] = "calling" /\ question[v] \notin lost => Seen(question[v], context[v])
  BY DEF SeenInv
<1>2. CASE UNCHANGED <<step, question, context, lost>>
  BY <1>1, <1>2
<1>3. ASSUME NEW w \in Workflows, NEW k \in Keys, Ask(w, k)
      PROVE  Seen(question'[v], context'[v])
  <2>1. /\ lost \subseteq lost' /\ context' = context
        /\ step' = [step EXCEPT ![w] = "asked"] /\ question' = [question EXCEPT ![w] = sent + 1]
    BY <1>3 DEF Ask
  <2>2. v # w /\ step[v] = "calling" /\ question'[v] = question[v]
    BY <2>1 DEF ConversationTypeOK
  <2> QED
    BY <1>1, <2>1, <2>2
<1>4. ASSUME NEW w \in Workflows, Read(w) PROVE Seen(question'[v], context'[v])
  <2>1. /\ step[w] = "asked" /\ step' = [step EXCEPT ![w] = "calling"]
        /\ context' = [context EXCEPT ![w] = messages[on[w]]]
        /\ UNCHANGED <<question, lost>>
    BY <1>4 DEF Read
  <2>2. CASE v # w
    BY <1>1, <2>1, <2>2 DEF ConversationTypeOK
  <2>3. CASE v = w
    <3>1. InUse(v) /\ on[v] \in Keys
      BY <2>1, <2>3 DEF UseInv, Waiting, ConversationTypeOK
    <3>2. log[on[v]] \in Seq(Message) /\ context'[v] = Trim(log[on[v]])
      BY <2>1, <2>3, <3>1 DEF ConversationTypeOK, LogInv, RecentHistory
    <3>3. \A i, j \in DOMAIN log[on[v]] : i < j => log[on[v]][i].n < log[on[v]][j].n
      BY <3>1 DEF LogInv, Ordered
    <3>4. PICK p \in DOMAIN log[on[v]] : log[on[v]][p].n = question[v]
      BY <3>1 DEF InUse
    <3> HIDE DEF LogInv, Ordered
    <3>5. Seen(question[v], Trim(log[on[v]]))
      BY <3>2, <3>3, <3>4, EndSeen
    <3> QED
      BY <2>1, <3>2, <3>5
  <2> QED
    BY <2>2, <2>3
<1>5. ASSUME NEW w \in Workflows, Answer(w) \/ LLMFails(w)
      PROVE  Seen(question'[v], context'[v])
  <2>1. Return(w) /\ lost' = lost
    BY <1>5 DEF Answer, LLMFails
  <2>2. /\ v # w /\ step[v] = "calling" /\ question'[v] = question[v] /\ context'[v] = context[v]
    BY <2>1 DEF Return, ConversationTypeOK
  <2> QED
    BY <1>1, <2>1, <2>2
<1> QED
  BY <1>2, <1>3, <1>4, <1>5
  DEF ConversationNext, conversationVars, GetHandle, AddMessage, SetMetadata, Cleanup, Minute, replies

\* A reply that the store took the prompt of shows the LLM its question, as long
\* as conversations outlive replies; only a full history of newer messages, put
\* there by others between AppendMessage and GetMessages, can hide it.
THEOREM QuestionSeenHolds == ConversationSpec => []QuestionSeen
<1>1. CASE Patient
  <2>1. ConversationInit => SeenInv
    BY DEF ConversationInit, SeenInv
  <2>2. SeenInv => QuestionSeen
    BY DEF SeenInv, QuestionSeen, Seen
  <2>3. ConversationSpec => []UseInv
    BY <1>1, UseInvariant
  <2> QED
    BY <2>1, <2>2, <2>3, SeenStep, ConversationTypeOKHolds, LogInvariant, PTL DEF ConversationSpec
<1>2. CASE ~Patient
  <2>1. QuestionSeen
    BY <1>2 DEF QuestionSeen
  <2> QED
    BY <2>1, PTL
<1> QED
  BY <1>1, <1>2

Follow ==
  \A k \in Keys : \A i \in DOMAIN log[k] :
    log[k][i].to \in {0} \cup lost \/ \E j \in 1 .. i - 1 : log[k][j].n = log[k][i].to

\* A message that is no answer, or finds its question, may be appended.
LEMMA AppendFollow ==
  ASSUME ConversationTypeOK, Follow, lost \subseteq lost',
         NEW k \in Keys, NEW to \in Nat, AppendMessage(k, to),
         to \in {0} \cup lost \/ \E j \in DOMAIN log[k] : log[k][j].n = to
  PROVE  Follow'
<1>1. PICK m \in Message :
        /\ m.to = to
        /\ \A j \in Keys :
             IF j = k /\ k \in convos THEN log'[j] = Append(log[j], m) ELSE log'[j] = log[j]
  BY AppendEffect
<1>2. ASSUME NEW l \in Keys, NEW i \in DOMAIN log'[l]
      PROVE  \/ log'[l][i].to \in {0} \cup lost'
             \/ \E j \in 1 .. i - 1 : log'[l][j].n = log'[l][i].to
  <2>1. CASE log'[l] = log[l]
    BY <1>2, <2>1 DEF Follow
  <2>2. CASE l = k /\ log'[l] = Append(log[l], m)
    <3> DEFINE n == Len(log[k])
    <3>1. /\ n \in Nat /\ DOMAIN log[k] = 1..n /\ DOMAIN log'[k] = 1 .. n + 1
          /\ log'[k][n + 1] = m /\ \A j \in 1..n : log'[k][j] = log[k][j]
      BY <2>2 DEF ConversationTypeOK
    <3> HIDE DEF n
    <3>2. CASE i = n + 1
      BY <1>1, <2>2, <3>1, <3>2
    <3>3. CASE i \in 1..n
      <4>1. \A j \in 1 .. i - 1 : j \in 1..n
        BY <3>1, <3>3
      <4>2. \/ log[k][i].to \in {0} \cup lost
            \/ \E j \in 1 .. i - 1 : log[k][j].n = log[k][i].to
        BY <3>1, <3>3 DEF Follow
      <4> QED
        BY <2>2, <3>1, <3>3, <4>1, <4>2
    <3> QED
      BY <1>2, <2>2, <3>1, <3>2, <3>3
  <2> QED
    BY <1>1, <2>1, <2>2
<1> QED
  BY <1>2 DEF Follow

\* Every step keeps answers behind their questions.
LEMMA FollowStep == ConversationTypeOK /\ UseInv /\ Follow /\ [ConversationNext]_conversationVars => Follow'
<1> SUFFICES ASSUME ConversationTypeOK, UseInv, Follow, [ConversationNext]_conversationVars PROVE Follow'
  OBVIOUS
<1>1. ASSUME NEW w \in Workflows, NEW k \in Keys, AddMessage(w, k) \/ Ask(w, k) PROVE Follow'
  <2>1. AppendMessage(k, 0) /\ lost \subseteq lost'
    BY <1>1 DEF AddMessage, Ask
  <2> QED
    BY <2>1, AppendFollow
<1>2. ASSUME NEW w \in Workflows, Answer(w) PROVE Follow'
  <2>1. AppendMessage(on[w], question[w]) /\ lost' = lost /\ step[w] = "calling"
    BY <1>2 DEF Answer
  <2>2. on[w] \in Keys /\ question[w] \in Nat
    BY DEF ConversationTypeOK
  <2>3. \/ question[w] \in {0} \cup lost
        \/ \E j \in DOMAIN log[on[w]] : log[on[w]][j].n = question[w]
    BY <2>1 DEF UseInv, Waiting, InUse
  <2> QED
    BY <2>1, <2>2, <2>3, AppendFollow
<1>3. CASE Cleanup
  <2>1. lost' = lost /\ \A k \in Keys : log'[k] \in {<<>>, log[k]}
    BY <1>3 DEF Cleanup
  <2>2. DOMAIN <<>> = {}
    OBVIOUS
  <2> QED
    BY <2>1, <2>2 DEF Follow
<1>4. CASE UNCHANGED <<log, lost>>
  BY <1>4 DEF Follow
<1> QED
  BY <1>1, <1>2, <1>3, <1>4
  DEF ConversationNext, conversationVars, GetHandle, SetMetadata, Read, LLMFails, Minute, store

\* No answer ends up in a conversation that does not know the question, as long
\* as conversations outlive replies.
THEOREM AnswersFollowHolds == ConversationSpec => []AnswersFollow
<1>1. CASE Patient
  <2>1. ConversationInit => Follow
    BY DEF ConversationInit, Follow
  <2>2. Follow => AnswersFollow
    BY DEF Follow, AnswersFollow
  <2>3. ConversationSpec => []UseInv
    BY <1>1, UseInvariant
  <2> QED
    BY <2>1, <2>2, <2>3, FollowStep, ConversationTypeOKHolds, PTL DEF ConversationSpec
<1>2. CASE ~Patient
  <2>1. AnswersFollow
    BY <1>2 DEF AnswersFollow
  <2> QED
    BY <2>1, PTL
<1> QED
  BY <1>1, <1>2

\* What the LLM is asked is what the workflow asked, and its answer stands behind
\* that question, in every conversation that outlives its replies.
THEOREM DialogueHolds == ConversationSpec => []Dialogue
<1>1. QuestionSeen /\ AnswersFollow => Dialogue
  BY DEF Dialogue
<1> QED
  BY <1>1, QuestionSeenHolds, AnswersFollowHolds, PTL
=============================================================================
