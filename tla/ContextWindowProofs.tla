------------------------- MODULE ContextWindowProofs -------------------------
(***************************************************************************)
(* Nothing of the conversation is lost, for all limits, sizes, batches and *)
(* numbers of tasks: what is sent agrees with the audit history, a rebase  *)
(* covers what it removes, and a request has the results of its calls.     *)
(* The largest part is about the rounds of tool results: what the loop of  *)
(* admit_tool_results does to every round there can be.                    *)
(***************************************************************************)
EXTENDS ContextWindow, SequenceTheorems, FiniteSetTheorems, WellFoundedInduction, TLAPS

-----------------------------------------------------------------------------
(* The inductive invariant.                                                *)

CallIds == SUBSET (Nat \X Nat)

MessageKinds == {"user", "runtime", "text", "use", "results", "checkpoint"}

MessageSizes ==
  {1} \cup Sizes \cup {Total(AdmitToolResults(round).sizes) : round \in ToolRounds}

\* What the loop appends, as Item makes it.
Items == [kind : MessageKinds \ {"checkpoint"}, toks : MessageSizes, ids : CallIds]

Messages ==
  [kind : MessageKinds, toks : MessageSizes, ids : CallIds, ord : Nat \cup {None},
   handoff : SUBSET Nat, ranges : SUBSET Nat]

AuditItems == [kind : MessageKinds, ids : CallIds, epoch : Nat]

\* Not in TypeOK: what the messages and the items are, and that the windows of
\* the history begin in order.
Typed ==
  /\ messages \in Seq(Messages) /\ audit \in Seq(AuditItems)
  /\ starts \in Seq(Nat) /\ starts # <<>> /\ generation = Len(starts) - 1
  /\ pc \in {"ended", "waiting", "prepare", "call", "tools"}
  /\ pc = "tools" <=> batch # None
  /\ pc = "tools" => /\ batch \in [ids : CallIds, left : CallIds, ends : BOOLEAN]
                     /\ batch.left \subseteq batch.ids
  /\ turn \in Nat /\ calls \in 0..MaxTurns /\ recoveries \in 0..MaxRecoveries
  /\ failedGeneration = None \/ failedGeneration \in 0..generation

\* A message is the item of its ordinal, and behind all that came before it.
InHistory ==
  \A i \in DOMAIN messages :
    LET m == messages[i]
    IN /\ m.kind = "checkpoint" => i = 1 /\ m.ord = None
       /\ m.kind # "checkpoint" =>
            /\ m.ord \in 0..(Len(audit) - 1)
            /\ audit[m.ord + 1].kind = m.kind /\ audit[m.ord + 1].ids = m.ids
            /\ \A j \in 1..(i - 1) : messages[j].ord = None \/ messages[j].ord < m.ord

\* The windows follow one another up to the end of the history.
WindowsFollow ==
  /\ starts[1] = 0 /\ starts[Len(starts)] <= Len(audit)
  /\ \A g, h \in DOMAIN starts : g <= h => starts[g] <= starts[h]

\* An item lies in the window of the generation it was appended in.
InWindow ==
  \A o \in 0..(Len(audit) - 1) :
    LET g == audit[o + 1].epoch
    IN g \in 0..generation /\ starts[g + 1] <= o /\ o < WindowEnd(g)

HistoryInv == Typed /\ InHistory /\ WindowsFollow /\ InWindow

Reported == UNION {audit[i].ids : i \in {j \in DOMAIN audit : audit[j].kind = "results"}}

\* A call without its result is there only after Ctrl+C, and a tool that ran is
\* reported, or is one of the batch in hand, as long as the task goes on.
SentInv ==
  /\ ~torn => Paired(messages)
  /\ pc \in {"waiting", "prepare", "call"} => executed \subseteq Reported
  /\ pc = "tools" => executed \subseteq Reported \cup batch.ids
-----------------------------------------------------------------------------
(* Appending.                                                              *)

\* What AddMessages appends to the conversation, and to the history.
Sent(items) ==
  [i \in 1..Len(items) |-> [kind |-> items[i].kind, toks |-> items[i].toks,
     ids |-> items[i].ids, ord |-> Len(audit) + i - 1, handoff |-> {}, ranges |-> {}]]

Kept(items) ==
  [i \in 1..Len(items) |-> [kind |-> items[i].kind, ids |-> items[i].ids, epoch |-> generation]]

\* What is there stays at its place, and the items are behind it.
Behind(a, b, c) ==
  /\ Len(c) = Len(a) + Len(b)
  /\ \A i \in 1..Len(a) : i \in 1..Len(c) /\ c[i] = a[i]
  /\ \A i \in 1..Len(b) : Len(a) + i \in 1..Len(c) /\ c[Len(a) + i] = b[i]
  /\ \A i \in 1..Len(c) : i \in 1..Len(a) \/ (i - Len(a) \in 1..Len(b) /\ c[i] = b[i - Len(a)])

LEMMA Appended ==
  ASSUME NEW S, NEW a \in Seq(S), NEW b \in Seq(S)
  PROVE  /\ a \o b \in Seq(S) /\ Behind(a, b, a \o b) /\ IsPrefix(a, a \o b)
<1>1. /\ a \o b \in Seq(S) /\ Len(a \o b) = Len(a) + Len(b)
      /\ \A i \in 1 .. Len(a) + Len(b) :
           (a \o b)[i] = IF i <= Len(a) THEN a[i] ELSE b[i - Len(a)]
  BY ConcatProperties
<1>2. Len(a) \in Nat /\ Len(b) \in Nat /\ DOMAIN a = 1..Len(a)
  OBVIOUS
<1>3. Behind(a, b, a \o b)
  BY <1>1, <1>2 DEF Behind
<1>4. IsPrefix(a, a \o b)
  <2> DEFINE c == a \o b
             n == Len(a)
  <2>1. \A i \in 1..n : a[i] \in S /\ c[i] = a[i]
    BY <1>1, <1>2
  <2>2. n \in Nat /\ n <= Len(c)
    BY <1>1, <1>2
  <2>3. SubSeq(a, 1, n) = SubSeq(c, 1, n)
    <3> HIDE DEF c, n
    <3>1. /\ SubSeq(a, 1, n) \in Seq(S) /\ SubSeq(c, 1, n) \in Seq(S)
          /\ Len(SubSeq(a, 1, n)) = n /\ Len(SubSeq(c, 1, n)) = n
          /\ \A i \in 1..n : SubSeq(a, 1, n)[i] = a[i] /\ SubSeq(c, 1, n)[i] = c[i]
      BY <2>1, <2>2
    <3> QED BY <2>1, <3>1, SeqEqual
  <2> QED BY <2>2, <2>3 DEF IsPrefix
<1> QED BY <1>1, <1>3, <1>4

LEMMA AddedTyped ==
  ASSUME HistoryInv, NEW STATE items, items \in Seq(Items), AddMessages(items)
  PROVE  /\ messages' = messages \o Sent(items) /\ audit' = audit \o Kept(items)
         /\ Sent(items) \in Seq(Messages) /\ Kept(items) \in Seq(AuditItems)
         /\ Len(Sent(items)) = Len(items) /\ Len(Kept(items)) = Len(items)
         /\ starts' = starts /\ generation' = generation
<1>1. Len(items) \in Nat /\ Len(audit) \in Nat /\ generation \in Nat
  BY DEF HistoryInv, Typed
<1>2. \A i \in 1..Len(items) :
        /\ items[i].kind \in MessageKinds /\ items[i].toks \in MessageSizes
        /\ items[i].ids \in CallIds
  <2>1. \A i \in 1..Len(items) : items[i] \in Items
    BY ElementOfSeq
  <2> QED BY <2>1 DEF Items
<1>3. Sent(items) \in [1..Len(items) -> Messages]
  BY <1>1, <1>2 DEF Sent, Messages
<1>4. Kept(items) \in [1..Len(items) -> AuditItems]
  BY <1>1, <1>2 DEF Kept, AuditItems
<1>5. messages' = messages \o Sent(items) /\ audit' = audit \o Kept(items)
  BY DEF AddMessages, Sent, Kept
<1>6. starts' = starts /\ generation' = generation
  BY DEF AddMessages
<1>7. \A S : \A f \in [1..Len(items) -> S] : f \in Seq(S) /\ Len(f) = Len(items)
  BY <1>1
<1> QED BY <1>3, <1>4, <1>5, <1>6, <1>7

\* Appending keeps the history whole.
LEMMA AddedInHistory ==
  ASSUME HistoryInv, NEW STATE items, items \in Seq(Items), AddMessages(items)
  PROVE  /\ messages' \in Seq(Messages) /\ audit' \in Seq(AuditItems)
         /\ InHistory' /\ WindowsFollow' /\ InWindow'
<1> DEFINE sent == Sent(items)
           kept == Kept(items)
           n == Len(items)
<1>1. /\ messages' \in Seq(Messages) /\ audit' \in Seq(AuditItems)
      /\ Behind(messages, sent, messages') /\ Behind(audit, kept, audit')
      /\ Len(sent) = n /\ Len(kept) = n /\ starts' = starts /\ generation' = generation
  <2>1. /\ messages \in Seq(Messages) /\ audit \in Seq(AuditItems)
        /\ sent \in Seq(Messages) /\ kept \in Seq(AuditItems)
        /\ messages' = messages \o sent /\ audit' = audit \o kept
        /\ Len(sent) = n /\ Len(kept) = n /\ starts' = starts /\ generation' = generation
    BY AddedTyped DEF HistoryInv, Typed
  <2> HIDE DEF sent, kept, n
  <2>2. messages' \in Seq(Messages) /\ Behind(messages, sent, messages')
    BY <2>1, Appended
  <2>3. audit' \in Seq(AuditItems) /\ Behind(audit, kept, audit')
    BY <2>1, Appended
  <2> QED BY <2>1, <2>2, <2>3
<1>2. /\ n \in Nat /\ Len(audit) \in Nat /\ Len(messages) \in Nat
      /\ DOMAIN messages = 1..Len(messages) /\ DOMAIN messages' = 1..Len(messages')
  BY <1>1 DEF HistoryInv, Typed
<1>3. \A i \in 1..n :
        /\ sent[i].kind = items[i].kind /\ sent[i].ids = items[i].ids
        /\ sent[i].ord = Len(audit) + i - 1
        /\ kept[i].kind = items[i].kind /\ kept[i].ids = items[i].ids
        /\ kept[i].epoch = generation /\ items[i].kind # "checkpoint"
  <2>1. \A i \in 1..n : items[i] \in Items
    BY ElementOfSeq
  <2> QED BY <2>1 DEF Sent, Kept, Items
<1> HIDE DEF sent, kept, n
<1>4. Len(audit') = Len(audit) + n /\ Len(messages') = Len(messages) + n
  BY <1>1 DEF Behind
<1>5. InHistory'
  <2> SUFFICES ASSUME NEW i \in 1..Len(messages')
               PROVE  LET m == messages'[i]
                      IN /\ m.kind = "checkpoint" => i = 1 /\ m.ord = None
                         /\ m.kind # "checkpoint" =>
                              /\ m.ord \in 0..(Len(audit') - 1)
                              /\ audit'[m.ord + 1].kind = m.kind
                              /\ audit'[m.ord + 1].ids = m.ids
                              /\ \A j \in 1..(i - 1) :
                                   messages'[j].ord = None \/ messages'[j].ord < m.ord
    BY <1>2 DEF InHistory
  <2>1. \A j \in 1..Len(messages) :
          messages'[j] = messages[j] /\ (messages[j].ord = None \/ messages[j].ord \in 0..(Len(audit) - 1))
    BY <1>1, <1>2 DEF Behind, HistoryInv, InHistory
  <2>2. CASE i \in 1..Len(messages)
    <3>1. \A j \in 1..(i - 1) : j \in 1..Len(messages)
      BY <1>2, <2>2
    <3>2. messages[i].kind # "checkpoint" =>
            /\ messages[i].ord \in 0..(Len(audit) - 1)
            /\ audit'[messages[i].ord + 1] = audit[messages[i].ord + 1]
      <4>1. messages[i].kind # "checkpoint" =>
              messages[i].ord \in Nat /\ messages[i].ord + 1 \in 1..Len(audit)
        BY <1>2, <2>2 DEF HistoryInv, InHistory
      <4>2. \A k \in 1..Len(audit) : audit'[k] = audit[k]
        BY <1>1 DEF Behind
      <4> QED BY <1>2, <2>2, <4>1, <4>2 DEF HistoryInv, InHistory
    <3>3. \A o \in 0..(Len(audit) - 1) : o \in 0..(Len(audit') - 1)
      BY <1>2, <1>4
    <3>4. messages'[i] = messages[i] /\ \A j \in 1..(i - 1) : messages'[j] = messages[j]
      BY <2>1, <2>2, <3>1
    <3>5. /\ messages[i].kind = "checkpoint" => i = 1 /\ messages[i].ord = None
          /\ messages[i].kind # "checkpoint" =>
               /\ messages[i].ord \in 0..(Len(audit) - 1)
               /\ audit[messages[i].ord + 1].kind = messages[i].kind
               /\ audit[messages[i].ord + 1].ids = messages[i].ids
               /\ \A j \in 1..(i - 1) :
                    messages[j].ord = None \/ messages[j].ord < messages[i].ord
      BY <1>2, <2>2 DEF HistoryInv, InHistory
    <3> QED BY <3>2, <3>3, <3>4, <3>5
  <2>3. CASE i - Len(messages) \in 1..n
    <3> DEFINE k == i - Len(messages)
               o == Len(audit) + k - 1
    <3>1. messages'[i] = sent[k] /\ k \in 1..n
      <4>1. i \notin 1..Len(messages)
        BY <1>2, <2>3
      <4> QED BY <1>1, <2>3, <4>1 DEF Behind
    <3>2. messages'[i].ord = o /\ messages'[i].kind # "checkpoint"
          /\ messages'[i].kind = kept[k].kind /\ messages'[i].ids = kept[k].ids
      BY <1>3, <3>1
    <3>3. o \in 0..(Len(audit') - 1) /\ audit'[o + 1] = kept[k]
      <4>1. audit'[Len(audit) + k] = kept[k]
        BY <1>1, <3>1 DEF Behind
      <4>2. o + 1 = Len(audit) + k /\ o \in 0..(Len(audit') - 1)
        BY <1>2, <1>4, <3>1
      <4> QED BY <4>1, <4>2
    <3>4. ASSUME NEW j \in 1..(i - 1)
          PROVE  messages'[j].ord = None \/ messages'[j].ord < o
      <4>1. CASE j \in 1..Len(messages)
        <5>1. \A x \in 0..(Len(audit) - 1) : x < o
          BY <1>2, <3>1
        <5> HIDE DEF o
        <5> QED BY <2>1, <4>1, <5>1
      <4>2. CASE j \notin 1..Len(messages)
        <5>1. j \in 1..Len(messages')
          BY <1>2, <1>4
        <5>2. j - Len(messages) \in 1..n /\ messages'[j] = sent[j - Len(messages)]
          BY <1>1, <4>2, <5>1 DEF Behind
        <5>3. messages'[j].ord = Len(audit) + (j - Len(messages)) - 1
          BY <1>3, <5>2
        <5> QED BY <1>2, <5>2, <5>3
      <4> QED BY <4>1, <4>2
    <3> HIDE DEF o, k
    <3> QED BY <3>2, <3>3, <3>4
  <2> QED BY <1>1, <2>2, <2>3 DEF Behind
<1>6. WindowsFollow'
  BY <1>1, <1>2, <1>4 DEF HistoryInv, WindowsFollow, Typed
<1>7. InWindow'
  <2> DEFINE End(g) == IF g + 1 < Len(starts) THEN starts[g + 2] ELSE Len(audit')
  <2> SUFFICES ASSUME NEW o \in 0..(Len(audit') - 1)
               PROVE  LET g == audit'[o + 1].epoch
                      IN g \in 0..generation /\ starts[g + 1] <= o /\ o < End(g)
    BY <1>1 DEF InWindow, WindowEnd
  <2>1. /\ generation \in Nat /\ Len(starts) \in Nat /\ Len(starts) = generation + 1
        /\ \A g \in 0..generation : starts[g + 1] \in Nat
    <3>1. starts \in Seq(Nat) /\ Len(starts) \in Nat \ {0} /\ generation = Len(starts) - 1
      BY EmptySeq DEF HistoryInv, Typed
    <3>2. \A g \in 0..generation : g + 1 \in 1..Len(starts)
      BY <3>1
    <3> QED BY <3>1, <3>2, ElementOfSeq
  <2>2. CASE o \in 0..(Len(audit) - 1)
    <3>1. o + 1 \in 1..Len(audit) /\ audit'[o + 1] = audit[o + 1]
      BY <1>1, <1>2, <2>2 DEF Behind
    <3> DEFINE g == audit[o + 1].epoch
    <3>2. g \in 0..generation /\ starts[g + 1] <= o /\ o < WindowEnd(g)
      BY <2>2 DEF HistoryInv, InWindow
    <3> HIDE DEF g
    <3>3. o < End(g)
      BY <1>2, <1>4, <2>1, <2>2, <3>2 DEF WindowEnd
    <3> HIDE DEF End
    <3> QED BY <3>1, <3>2, <3>3 DEF g
  <2>3. CASE o \notin 0..(Len(audit) - 1)
    <3>1. o + 1 \in 1..Len(audit') /\ o + 1 \notin 1..Len(audit)
      BY <1>2, <1>4, <2>3
    <3>2. o + 1 - Len(audit) \in 1..n /\ audit'[o + 1] = kept[o + 1 - Len(audit)]
      BY <1>1, <3>1 DEF Behind
    <3>3. audit'[o + 1].epoch = generation
      BY <1>3, <3>2
    <3>4. starts[generation + 1] <= o
      <4>1. starts[generation + 1] <= Len(audit)
        BY <2>1 DEF HistoryInv, WindowsFollow
      <4> QED BY <1>2, <2>1, <3>2, <4>1
    <3>5. o < End(generation)
      BY <1>2, <1>4, <2>1
    <3> HIDE DEF End
    <3> QED BY <2>1, <3>3, <3>4, <3>5
  <2> QED BY <2>2, <2>3
<1> QED BY <1>1, <1>5, <1>6, <1>7

\* Two sequences in which calls and results are paired make one.
LEMMA PairedTogether ==
  ASSUME NEW a, NEW b, NEW c, Len(a) \in Nat, Len(b) \in Nat,
         DOMAIN a = 1..Len(a), DOMAIN b = 1..Len(b), DOMAIN c = 1..Len(c),
         Behind(a, b, c), Paired(a), Paired(b)
  PROVE  Paired(c)
<1> SUFFICES ASSUME NEW i \in 1..Len(c)
             PROVE  /\ c[i].kind = "use" =>
                         i < Len(c) /\ c[i + 1].kind = "results" /\ c[i + 1].ids = c[i].ids
                    /\ c[i].kind = "results" => i > 1 /\ c[i - 1].kind = "use"
  BY DEF Paired
<1>1. CASE i \in 1..Len(a)
  <2>1. c[i] = a[i]
    BY <1>1 DEF Behind
  <2>2. c[i].kind = "use" => /\ i + 1 \in 1..Len(a) /\ c[i + 1] = a[i + 1]
                             /\ a[i + 1].kind = "results" /\ a[i + 1].ids = a[i].ids
    <3>1. a[i].kind = "use" => /\ i + 1 \in 1..Len(a)
                               /\ a[i + 1].kind = "results" /\ a[i + 1].ids = a[i].ids
      BY <1>1 DEF Paired
    <3> QED BY <2>1, <3>1 DEF Behind
  <2>3. c[i].kind = "results" => /\ i - 1 \in 1..Len(a) /\ c[i - 1] = a[i - 1]
                                 /\ a[i - 1].kind = "use"
    <3>1. a[i].kind = "results" => i - 1 \in 1..Len(a) /\ a[i - 1].kind = "use"
      <4>1. a[i].kind = "results" => i > 1 /\ a[i - 1].kind = "use"
        BY <1>1 DEF Paired
      <4>2. i > 1 => i - 1 \in 1..Len(a)
        BY <1>1
      <4> QED BY <4>1, <4>2
    <3> QED BY <2>1, <3>1 DEF Behind
  <2>4. Len(a) <= Len(c) /\ Len(c) \in Nat
    BY DEF Behind
  <2> QED BY <1>1, <2>1, <2>2, <2>3, <2>4
<1>2. CASE i - Len(a) \in 1..Len(b)
  <2> DEFINE k == i - Len(a)
  <2>1. k \in 1..Len(b) /\ i = Len(a) + k /\ i \in Nat
    BY <1>2
  <2> HIDE DEF k
  <2>2. c[i] = b[k]
    BY <2>1 DEF Behind
  <2>3. b[k].kind = "use" => /\ k + 1 \in 1..Len(b)
                             /\ b[k + 1].kind = "results" /\ b[k + 1].ids = b[k].ids
    BY <2>1 DEF Paired
  <2>4. b[k].kind = "results" => k - 1 \in 1..Len(b) /\ b[k - 1].kind = "use"
    <3>1. b[k].kind = "results" => k > 1 /\ b[k - 1].kind = "use"
      BY <2>1 DEF Paired
    <3>2. k > 1 => k - 1 \in 1..Len(b)
      BY <2>1
    <3> QED BY <3>1, <3>2
  <2>5. \A l \in 1..Len(b) : c[Len(a) + l] = b[l]
    BY DEF Behind
  <2>6. i + 1 = Len(a) + (k + 1) /\ i - 1 = Len(a) + (k - 1)
    BY <2>1
  <2>7. k + 1 \in 1..Len(b) => i < Len(c)
    BY <2>1 DEF Behind
  <2>8. k - 1 \in 1..Len(b) => i > 1
    BY <2>1
  <2> QED BY <2>2, <2>3, <2>4, <2>5, <2>6, <2>7, <2>8
<1> QED BY <1>1, <1>2 DEF Behind

\* What is appended at one time is paired, unless it is torn.
LEMMA AddedPaired ==
  ASSUME HistoryInv, NEW STATE items, items \in Seq(Items), AddMessages(items),
         Paired(messages), Paired(items)
  PROVE  Paired(messages')
<1> DEFINE sent == Sent(items)
<1>1. /\ messages' = messages \o sent /\ sent \in Seq(Messages)
      /\ messages \in Seq(Messages) /\ Len(sent) = Len(items)
  BY AddedTyped DEF HistoryInv, Typed
<1>2. \A i \in 1..Len(items) : sent[i].kind = items[i].kind /\ sent[i].ids = items[i].ids
  BY DEF Sent
<1> HIDE DEF sent
<1>3. DOMAIN sent = 1..Len(items) /\ DOMAIN items = 1..Len(items) /\ Len(items) \in Nat
  BY <1>1, LenProperties
<1>4. Paired(sent)
  <2> SUFFICES ASSUME NEW i \in 1..Len(items)
               PROVE  /\ sent[i].kind = "use" =>
                           /\ i < Len(items) /\ sent[i + 1].kind = "results"
                           /\ sent[i + 1].ids = sent[i].ids
                      /\ sent[i].kind = "results" => i > 1 /\ sent[i - 1].kind = "use"
    BY <1>1, <1>3 DEF Paired
  <2>1. /\ items[i].kind = "use" =>
             /\ i + 1 \in 1..Len(items) /\ i < Len(items)
             /\ items[i + 1].kind = "results" /\ items[i + 1].ids = items[i].ids
        /\ items[i].kind = "results" =>
             i - 1 \in 1..Len(items) /\ i > 1 /\ items[i - 1].kind = "use"
    BY <1>3 DEF Paired
  <2> QED BY <1>2, <2>1
<1>5. messages' \in Seq(Messages) /\ Behind(messages, sent, messages')
  BY <1>1, Appended
<1> QED BY <1>1, <1>4, <1>5, PairedTogether, LenProperties

\* The reminders behind a response are paired by themselves.
LEMMA Responses ==
  ASSUME NEW ids \in CallIds, NEW toks \in MessageSizes
  PROVE  \A response \in {<<User>>, <<Runtime>>, <<Text>>, <<Use(ids), Results(ids, toks)>>},
            reminders \in Reminders :
           /\ response \in Seq(Items) /\ response \o reminders \in Seq(Items)
           /\ Paired(response) /\ Paired(response \o reminders)
<1>1. 1 \in MessageSizes /\ {} \in CallIds
  BY DEF MessageSizes, CallIds
<1>2. {User, Runtime, Text, Use(ids), Results(ids, toks)} \subseteq Items
  BY <1>1 DEF User, Runtime, Text, Use, Results, Item, Items, MessageKinds
<1> SUFFICES ASSUME NEW response \in {<<User>>, <<Runtime>>, <<Text>>,
                                       <<Use(ids), Results(ids, toks)>>},
                    NEW reminders \in Reminders
             PROVE  /\ response \in Seq(Items) /\ response \o reminders \in Seq(Items)
                    /\ Paired(response) /\ Paired(response \o reminders)
  OBVIOUS
<1>3. response \in Seq(Items) /\ Paired(response)
  <2>1. ASSUME NEW m \in {User, Runtime, Text}
        PROVE  <<m>> \in Seq(Items) /\ Paired(<<m>>)
    BY <1>2 DEF Paired, User, Runtime, Text, Item
  <2>2. <<Use(ids), Results(ids, toks)>> \in Seq(Items)
    BY <1>2
  <2>3. Paired(<<Use(ids), Results(ids, toks)>>)
    BY DEF Paired, Use, Results, Item
  <2> QED BY <2>1, <2>2, <2>3
<1>4. reminders \in Seq(Items) /\ Paired(reminders)
  <2>1. <<>> \in Seq(Items) /\ Paired(<<>>)
    BY DEF Paired
  <2>2. <<Runtime>> \in Seq(Items) /\ Paired(<<Runtime>>)
    BY <1>2 DEF Paired, Runtime, Item
  <2>3. <<Runtime, Runtime>> \in Seq(Items) /\ Paired(<<Runtime, Runtime>>)
    BY <1>2 DEF Paired, Runtime, Item
  <2> QED BY <2>1, <2>2, <2>3 DEF Reminders
<1> HIDE DEF Items
<1>5. response \o reminders \in Seq(Items) /\ Behind(response, reminders, response \o reminders)
  BY <1>3, <1>4, Appended
<1>6. Paired(response \o reminders)
  BY <1>3, <1>4, <1>5, PairedTogether, LenProperties
<1> QED BY <1>3, <1>5, <1>6

-----------------------------------------------------------------------------
(* Rebasing.                                                               *)

\* Every set of numbers has a least one.
LEMMA LeastNumber ==
  ASSUME NEW S \in SUBSET Nat, S # {}
  PROVE  \E i \in S : \A j \in S : i <= j
<1> DEFINE R == OpToRel(<, Nat)
<1>1. IsWellFoundedOn(R, Nat)
  BY NatLessThanWellFounded
<1>2. \A p \in Nat \X Nat : p[1] < p[2] => p \in R
  BY DEF OpToRel
<1> HIDE DEF R
<1>3. PICK i \in S : \A j \in S : ~(<<j, i>> \in R)
  BY <1>1, WFMin
<1>4. \A j \in S : ~(j < i)
  BY <1>2, <1>3
<1> QED BY <1>3, <1>4

\* What is kept is a tail of the messages, perhaps an empty one.
LEMMA FirstIsInRange ==
  ASSUME Len(messages) \in Nat, NEW budget
  PROVE  SelectFinalRaw(budget) \in 1..(Len(messages) + 1)
<1> DEFINE Tail_(k) == SubSeq(messages, k, Len(messages))
           Fits(k) ==
             /\ Tokens(Tail_(k)) <= budget
             /\ \A i \in {j \in RoundStarts(messages) : j >= k} :
                  Complete(messages, i) /\ messages[i].kind # "checkpoint"
           S == {Len(messages) + 1} \cup {k \in RoundStarts(messages) : Fits(k)}
<1>1. SelectFinalRaw(budget) = Min(S)
  BY DEF SelectFinalRaw
<1>2. S \subseteq 1..(Len(messages) + 1)
  <2> HIDE DEF Fits
  <2> QED BY DEF RoundStarts
<1>3. S # {}
  OBVIOUS
<1> HIDE DEF S
<1>4. PICK i \in S : \A j \in S : i <= j
  <2>1. S \in SUBSET Nat
    BY <1>2
  <2> QED BY <1>3, <2>1, LeastNumber
<1>5. Min(S) \in S
  BY <1>4 DEF Min
<1> QED BY <1>1, <1>2, <1>5

\* What a rebase leaves: a checkpoint, and the messages from first on.
Rebased(checkpoint, first) ==
  /\ first \in 2..(Len(messages) + 1)
  /\ Len(messages') = Len(messages) - first + 2
  /\ messages'[1] = checkpoint
  /\ \A i \in 2..Len(messages') :
       first + i - 2 \in first..Len(messages) /\ messages'[i] = messages[first + i - 2]
  /\ \A i \in first..Len(messages) :
       i - first + 2 \in 2..Len(messages') /\ messages'[i - first + 2] = messages[i]

LEMMA Committed ==
  ASSUME HistoryInv, NEW STATE checkpoint, checkpoint \in Messages,
         NEW STATE first, first \in 1..(Len(messages) + 1), Commit(checkpoint, first)
  PROVE  /\ messages' \in Seq(Messages) /\ Rebased(checkpoint, first)
         /\ ProtocolIsComplete(messages') /\ audit' = audit
         /\ starts' = Append(starts, Len(audit)) /\ generation' = generation + 1
         /\ torn' = FALSE /\ refused' = 0 /\ Tokens(messages') < Tokens(messages)
<1> DEFINE n == Len(messages)
           s == SubSeq(messages, first, n)
<1>1. /\ messages' = <<checkpoint>> \o s /\ MeaningfulRemoval(first)
      /\ Acceptable(messages') /\ audit' = audit
      /\ starts' = Append(starts, Len(audit)) /\ generation' = generation + 1
      /\ torn' = FALSE /\ refused' = 0
  BY DEF Commit, MarkContextChanged, NextWindowStarts
<1>2. n \in Nat /\ messages \in [1..n -> Messages]
  BY LenProperties DEF HistoryInv, Typed
<1>3. first \in 2..(n + 1)
  <2>1. first # 1
    BY <1>1 DEF MeaningfulRemoval
  <2> QED BY <1>2, <2>1
<1>4. /\ s \in Seq(Messages) /\ Len(s) = n - first + 1
      /\ \A i \in 1..(n - first + 1) : s[i] = messages[first + i - 1]
  <2>1. \A i \in first..n : messages[i] \in Messages
    BY <1>2, <1>3
  <2>2. first \in Int /\ n \in Int
    BY <1>2, <1>3
  <2> HIDE DEF n
  <2>3. /\ s \in Seq(Messages) /\ Len(s) = IF first <= n THEN n - first + 1 ELSE 0
        /\ \A i \in 1..(n - first + 1) : s[i] = messages[first + i - 1]
    BY <2>1, <2>2, SubSeqProperties
  <2> QED BY <1>2, <1>3, <2>3
<1> HIDE DEF s
<1> DEFINE c == <<checkpoint>>
<1>5. c \in Seq(Messages) /\ Len(c) = 1 /\ c[1] = checkpoint /\ messages' = c \o s
  BY <1>1
<1> HIDE DEF c
<1>6. /\ messages' \in Seq(Messages) /\ Len(messages') = 1 + Len(s)
      /\ \A i \in 1..(1 + Len(s)) :
           messages'[i] = IF i <= 1 THEN c[i] ELSE s[i - 1]
  <2>1. /\ c \o s \in Seq(Messages) /\ Len(c \o s) = Len(c) + Len(s)
        /\ \A i \in 1 .. Len(c) + Len(s) :
             (c \o s)[i] = IF i <= Len(c) THEN c[i] ELSE s[i - Len(c)]
    BY <1>4, <1>5, ConcatProperties
  <2> QED BY <1>5, <2>1
<1>7. Rebased(checkpoint, first)
  <2> HIDE DEF n
  <2>1. Len(messages') = n - first + 2 /\ messages'[1] = checkpoint
    BY <1>2, <1>3, <1>4, <1>5, <1>6
  <2>2. \A i \in 2..(n - first + 2) :
          first + i - 2 \in first..n /\ messages'[i] = messages[first + i - 2]
    <3> SUFFICES ASSUME NEW i \in 2..(n - first + 2)
                 PROVE  first + i - 2 \in first..n /\ messages'[i] = messages[first + i - 2]
      OBVIOUS
    <3>1. /\ i \in 1..(1 + Len(s)) /\ ~(i <= 1) /\ i - 1 \in 1..(n - first + 1)
          /\ first + (i - 1) - 1 = first + i - 2 /\ first + i - 2 \in first..n
      BY <1>2, <1>3, <1>4
    <3> QED BY <1>4, <1>6, <3>1
  <2>3. \A i \in first..n : i - first + 2 \in 2..(n - first + 2) /\ first + (i - first + 2) - 2 = i
    BY <1>2, <1>3
  <2> QED BY <1>2, <1>3, <2>1, <2>2, <2>3 DEF Rebased, n
<1> QED BY <1>1, <1>6, <1>7 DEF Acceptable

\* What a rebase accepts is paired.
LEMMA CompleteIsPaired ==
  ASSUME NEW ms, ProtocolIsComplete(ms), DOMAIN ms = 1..Len(ms)
  PROVE  Paired(ms)
<1> SUFFICES ASSUME NEW i \in 1..Len(ms)
             PROVE  /\ ms[i].kind = "use" =>
                         i < Len(ms) /\ ms[i + 1].kind = "results" /\ ms[i + 1].ids = ms[i].ids
                    /\ ms[i].kind = "results" => i > 1 /\ ms[i - 1].kind = "use"
  BY DEF Paired
<1>1. CASE i \in RoundStarts(ms)
  BY <1>1 DEF ProtocolIsComplete, Complete
<1>2. CASE i \notin RoundStarts(ms)
  BY <1>2 DEF RoundStarts
<1> QED BY <1>1, <1>2

\* A rebase keeps the history whole.
LEMMA RebasedInHistory ==
  ASSUME HistoryInv, NEW STATE checkpoint, checkpoint \in Messages,
         checkpoint.kind = "checkpoint", checkpoint.ord = None,
         NEW STATE first, first \in 1..(Len(messages) + 1), Commit(checkpoint, first)
  PROVE  /\ messages' \in Seq(Messages) /\ starts' \in Seq(Nat) /\ starts' # <<>>
         /\ generation' = Len(starts') - 1 /\ generation' = generation + 1
         /\ audit' = audit /\ InHistory' /\ WindowsFollow' /\ InWindow'
<1>1. /\ messages' \in Seq(Messages) /\ Rebased(checkpoint, first) /\ audit' = audit
      /\ starts' = Append(starts, Len(audit)) /\ generation' = generation + 1
  BY Committed
<1> DEFINE n == Len(messages)
           l == Len(starts)
           a == Len(audit)
<1>2. /\ n \in Nat /\ a \in Nat /\ l \in Nat \ {0} /\ generation = l - 1
      /\ DOMAIN messages = 1..n /\ DOMAIN messages' = 1..Len(messages')
      /\ starts \in Seq(Nat) /\ DOMAIN starts = 1..l
  BY <1>1, EmptySeq, LenProperties DEF HistoryInv, Typed
<1>3. /\ starts' \in Seq(Nat) /\ Len(starts') = l + 1 /\ starts'[l + 1] = a
      /\ \A g \in 1..l : starts'[g] = starts[g]
      /\ starts' # <<>> /\ DOMAIN starts' = 1..(l + 1)
  <2>1. a \in Nat
    BY <1>2
  <2> HIDE DEF a
  <2> QED BY <1>1, <1>2, <2>1 DEF a
<1> HIDE DEF n, l, a
<1>4. InHistory'
  <2> SUFFICES ASSUME NEW i \in 1..Len(messages')
               PROVE  LET m == messages'[i]
                      IN /\ m.kind = "checkpoint" => i = 1 /\ m.ord = None
                         /\ m.kind # "checkpoint" =>
                              /\ m.ord \in 0..(a - 1)
                              /\ audit[m.ord + 1].kind = m.kind
                              /\ audit[m.ord + 1].ids = m.ids
                              /\ \A j \in 1..(i - 1) :
                                   messages'[j].ord = None \/ messages'[j].ord < m.ord
    BY <1>1, <1>2 DEF InHistory, a
  <2>1. CASE i = 1
    BY <1>1, <2>1 DEF Rebased
  <2>2. CASE i \in 2..Len(messages')
    <3> DEFINE k == first + i - 2
    <3>1. k \in first..n /\ messages'[i] = messages[k] /\ first \in 2..(n + 1)
      BY <1>1, <2>2 DEF Rebased, n
    <3>2. k \in 1..n /\ k # 1
      BY <1>2, <3>1
    <3>3. /\ messages[k].kind # "checkpoint"
          /\ messages[k].ord \in 0..(a - 1)
          /\ audit[messages[k].ord + 1].kind = messages[k].kind
          /\ audit[messages[k].ord + 1].ids = messages[k].ids
          /\ \A j \in 1..(k - 1) : messages[j].ord = None \/ messages[j].ord < messages[k].ord
      <4> HIDE DEF k
      <4> QED BY <1>2, <3>2 DEF HistoryInv, InHistory, a
    <3>4. ASSUME NEW j \in 1..(i - 1)
          PROVE  messages'[j].ord = None \/ messages'[j].ord < messages[k].ord
      <4>1. CASE j = 1
        BY <1>1, <4>1 DEF Rebased
      <4>2. CASE j # 1
        <5>1. j \in 2..Len(messages') /\ first + j - 2 \in 1..(k - 1)
          <6>1. j \in Nat /\ j >= 2 /\ j < i /\ i \in Nat /\ i <= Len(messages')
            BY <2>2, <4>2
          <6>2. j \in 2..Len(messages')
            BY <1>1, <2>2, <6>1
          <6>3. first \in Int /\ first >= 2
            BY <1>2, <3>1
          <6>4. first + j - 2 \in 1..(first + i - 2 - 1)
            BY <6>1, <6>3
          <6> QED BY <6>2, <6>4
        <5>2. messages'[j] = messages[first + j - 2]
          BY <1>1, <5>1 DEF Rebased
        <5> HIDE DEF k
        <5> QED BY <3>3, <5>1, <5>2
      <4> QED BY <4>1, <4>2
    <3> HIDE DEF k
    <3> QED BY <3>1, <3>3, <3>4
  <2> QED BY <2>1, <2>2
<1>5. WindowsFollow'
  <2>1. /\ starts[1] = 0 /\ starts[l] <= a
        /\ \A g, h \in 1..l : g <= h => starts[g] <= starts[h]
    BY <1>2 DEF HistoryInv, WindowsFollow, l, a
  <2>2. \A g \in 1..l : starts[g] \in Nat /\ starts[g] <= a
    <3>1. \A g \in 1..l : starts[g] \in Nat /\ l \in 1..l /\ g <= l
      BY <1>2, ElementOfSeq DEF l
    <3> QED BY <1>2, <2>1, <3>1
  <2>3. ASSUME NEW g \in 1..(l + 1), NEW h \in 1..(l + 1), g <= h
        PROVE  starts'[g] <= starts'[h]
    <3>1. CASE h = l + 1
      <4>1. g \in 1..l \/ g = l + 1
        BY <1>2
      <4> QED BY <1>2, <1>3, <2>2, <3>1, <4>1
    <3>2. CASE h # l + 1
      <4>1. g \in 1..l /\ h \in 1..l
        BY <1>2, <2>3, <3>2
      <4> QED BY <1>3, <2>1, <2>3, <4>1
    <3> QED BY <3>1, <3>2
  <2>4. starts'[1] = 0 /\ starts'[l + 1] <= a
    BY <1>2, <1>3, <2>1
  <2> QED BY <1>1, <1>3, <2>3, <2>4 DEF WindowsFollow, a
<1>6. InWindow'
  <2> DEFINE End(g) == IF g + 1 < l + 1 THEN starts'[g + 2] ELSE a
  <2> SUFFICES ASSUME NEW o \in 0..(a - 1)
               PROVE  LET g == audit[o + 1].epoch
                      IN g \in 0..(generation + 1) /\ starts'[g + 1] <= o /\ o < End(g)
    BY <1>1, <1>3 DEF InWindow, WindowEnd, a
  <2> DEFINE g == audit[o + 1].epoch
  <2>1. g \in 0..(l - 1) /\ starts[g + 1] <= o /\ o < WindowEnd(g)
    BY <1>2 DEF HistoryInv, InWindow, a
  <2> HIDE DEF g
  <2>2. g \in 0..(generation + 1) /\ starts'[g + 1] = starts[g + 1]
    <3>1. g + 1 \in 1..l
      BY <1>2, <2>1
    <3> QED BY <1>2, <1>3, <2>1, <3>1
  <2>3. End(g) = WindowEnd(g)
    <3>1. CASE g + 1 < l
      <4>1. g + 2 \in 1..l /\ g + 1 < l + 1
        BY <1>2, <2>1, <3>1
      <4> QED BY <1>3, <3>1, <4>1 DEF WindowEnd, l
    <3>2. CASE ~(g + 1 < l)
      <4>1. g + 2 = l + 1 /\ g + 1 < l + 1
        BY <1>2, <2>1, <3>2
      <4> QED BY <1>3, <3>2, <4>1 DEF WindowEnd, l, a
    <3> QED BY <3>1, <3>2
  <2> HIDE DEF End
  <2> QED BY <2>1, <2>2, <2>3 DEF g
<1> QED BY <1>1, <1>2, <1>3, <1>4, <1>5, <1>6

\* And it covers what it removes, with the handoff or with the ranges.
Covered ==
  Ordinals(messages) \ Ordinals(messages') \subseteq messages'[1].handoff \cup messages'[1].ranges

LEMMA RemovedByRebase ==
  ASSUME HistoryInv, NEW STATE checkpoint, checkpoint \in Messages, checkpoint.kind = "checkpoint",
         NEW STATE first, first \in 1..(Len(messages) + 1), Commit(checkpoint, first),
         \/ RemovedOrdinals(first) \subseteq checkpoint.handoff
         \/ HistoryRanges(RemovedOrdinals(first)) \subseteq checkpoint.ranges
  PROVE  Covered
<1>1. Rebased(checkpoint, first) /\ messages' \in Seq(Messages)
  BY Committed
<1>2. /\ Len(messages) \in Nat /\ DOMAIN messages = 1..Len(messages)
      /\ DOMAIN messages' = 1..Len(messages')
  BY <1>1, LenProperties DEF HistoryInv, Typed
<1>3. messages'[1] = checkpoint
  BY <1>1 DEF Rebased
<1>4. Ordinals(messages) = {messages[i].ord : i \in 1..Len(messages)} \ {None}
  BY <1>2 DEF Ordinals
<1> SUFFICES ASSUME NEW i \in 1..Len(messages), messages[i].ord # None,
                    messages[i].ord \notin Ordinals(messages')
             PROVE  messages[i].ord \in checkpoint.handoff \cup checkpoint.ranges
  BY <1>3, <1>4 DEF Covered
<1>5. i \in 1..(first - 1)
  <2>1. i \notin first..Len(messages)
    <3> SUFFICES ASSUME i \in first..Len(messages) PROVE FALSE
      OBVIOUS
    <3>1. /\ i - first + 2 \in 2..Len(messages')
          /\ messages'[i - first + 2] = messages[i]
      BY <1>1 DEF Rebased
    <3>2. i - first + 2 \in 1..Len(messages')
      BY <3>1
    <3> QED BY <1>2, <3>1, <3>2 DEF Ordinals
  <2> QED BY <1>2, <2>1
<1>6. messages[i].ord \in RemovedOrdinals(first)
  BY <1>5 DEF RemovedOrdinals
<1>7. messages[i].ord \in HistoryRanges(RemovedOrdinals(first))
  <2> DEFINE o == messages[i].ord
  <2>1. o \in 0..(Len(audit) - 1)
    BY <1>2 DEF HistoryInv, InHistory
  <2>2. PICK g : g \in 0..generation /\ starts[g + 1] <= o /\ o < WindowEnd(g)
    <3> HIDE DEF o
    <3> QED BY <2>1 DEF HistoryInv, InWindow
  <2>3. g \in HistoryWindows(o)
    BY <2>2 DEF HistoryWindows, HistoryInv, Typed
  <2> QED BY <1>6, <2>3 DEF HistoryRanges
<1> QED BY <1>6, <1>7

-----------------------------------------------------------------------------
(* The steps.                                                              *)

\* What a rebase does, whichever it is.
LEMMA RebaseStep ==
  ASSUME HistoryInv, SemanticRebase \/ EmergencyRebase
  PROVE  /\ messages' \in Seq(Messages) /\ starts' \in Seq(Nat) /\ starts' # <<>>
         /\ generation' = Len(starts') - 1 /\ generation' = generation + 1
         /\ audit' = audit /\ InHistory' /\ WindowsFollow' /\ InWindow'
         /\ Paired(messages') /\ torn' = FALSE /\ refused' = 0
         /\ Tokens(messages') < Tokens(messages) /\ Covered
<1>1. Len(messages) \in Nat /\ DOMAIN messages = 1..Len(messages)
  BY DEF HistoryInv, Typed
<1>2. \A k \in 1..(Len(messages) + 1) :
        RemovedOrdinals(k) \subseteq Nat /\ PreviousHandoff(k) \subseteq Nat
  <2> SUFFICES ASSUME NEW k \in 1..(Len(messages) + 1), NEW i \in 1..(k - 1)
               PROVE  messages[i].ord \in Nat \cup {None} /\ messages[i].handoff \subseteq Nat
    BY DEF RemovedOrdinals, PreviousHandoff
  <2>1. i \in 1..Len(messages)
    BY <1>1
  <2>2. messages[i] \in Messages
    BY <2>1, ElementOfSeq DEF HistoryInv, Typed
  <2> QED BY <2>2 DEF Messages
<1>3. ASSUME NEW STATE checkpoint, checkpoint \in Messages,
             checkpoint.kind = "checkpoint", checkpoint.ord = None,
             NEW STATE first, first \in 1..(Len(messages) + 1), Commit(checkpoint, first),
             \/ RemovedOrdinals(first) \subseteq checkpoint.handoff
             \/ HistoryRanges(RemovedOrdinals(first)) \subseteq checkpoint.ranges
      PROVE  /\ messages' \in Seq(Messages) /\ starts' \in Seq(Nat) /\ starts' # <<>>
             /\ generation' = Len(starts') - 1 /\ generation' = generation + 1
             /\ audit' = audit /\ InHistory' /\ WindowsFollow' /\ InWindow'
             /\ Paired(messages') /\ torn' = FALSE /\ refused' = 0
             /\ Tokens(messages') < Tokens(messages) /\ Covered
  <2>1. /\ messages' \in Seq(Messages) /\ starts' \in Seq(Nat) /\ starts' # <<>>
        /\ generation' = Len(starts') - 1 /\ generation' = generation + 1
        /\ audit' = audit /\ InHistory' /\ WindowsFollow' /\ InWindow'
    BY <1>3, RebasedInHistory
  <2>2. /\ ProtocolIsComplete(messages') /\ torn' = FALSE /\ refused' = 0
        /\ Tokens(messages') < Tokens(messages)
    BY <1>3, Committed
  <2>3. Covered
    BY <1>3, RemovedByRebase
  <2>4. Paired(messages')
    BY <2>1, <2>2, CompleteIsPaired, LenProperties
  <2> QED BY <2>1, <2>2, <2>3, <2>4
<1>4. \A toks \in Sizes, handoff \in SUBSET Nat, ranges \in SUBSET Nat :
        LET checkpoint == Checkpoint(toks, handoff, ranges)
        IN /\ checkpoint \in Messages /\ checkpoint.kind = "checkpoint" /\ checkpoint.ord = None
           /\ checkpoint.handoff = handoff /\ checkpoint.ranges = ranges
  BY DEF Checkpoint, Messages, MessageKinds, MessageSizes, CallIds
<1>5. CASE SemanticRebase
  <2> DEFINE first == SelectFinalRaw(RawBudget(SemanticReserve))
             handoff == PreviousHandoff(first) \cup RemovedOrdinals(first)
  <2>1. first \in 1..(Len(messages) + 1)
    BY <1>1, FirstIsInRange
  <2>2. PICK toks \in Sizes : Commit(Checkpoint(toks, handoff, {}), first)
    BY <1>5 DEF SemanticRebase
  <2> HIDE DEF first
  <2>3. handoff \in SUBSET Nat /\ RemovedOrdinals(first) \subseteq handoff
    BY <1>2, <2>1
  <2> HIDE DEF handoff
  <2> DEFINE checkpoint == Checkpoint(toks, handoff, {})
  <2>4. /\ checkpoint \in Messages /\ checkpoint.kind = "checkpoint" /\ checkpoint.ord = None
        /\ checkpoint.handoff = handoff
    BY <1>4, <2>3
  <2>5. Commit(checkpoint, first) /\ RemovedOrdinals(first) \subseteq checkpoint.handoff
    BY <2>2, <2>3, <2>4
  <2> HIDE DEF checkpoint
  <2> QED BY <1>3, <2>1, <2>4, <2>5
<1>6. CASE EmergencyRebase
  <2> DEFINE first == SelectFinalRaw(RawBudget(EmergencyReserve))
             ranges == HistoryRanges(RemovedOrdinals(first))
  <2>1. first \in 1..(Len(messages) + 1)
    BY <1>1, FirstIsInRange
  <2>2. PICK toks \in Sizes : Commit(Checkpoint(toks, {}, ranges), first)
    BY <1>6 DEF EmergencyRebase
  <2> HIDE DEF first
  <2>3. ranges \in SUBSET Nat
    BY <1>2, <2>1 DEF HistoryRanges
  <2> DEFINE checkpoint == Checkpoint(toks, {}, ranges)
  <2>4. /\ checkpoint \in Messages /\ checkpoint.kind = "checkpoint" /\ checkpoint.ord = None
        /\ checkpoint.ranges = ranges
    <3> HIDE DEF ranges
    <3> QED BY <1>4, <2>3
  <2>5. Commit(checkpoint, first) /\ HistoryRanges(RemovedOrdinals(first)) \subseteq checkpoint.ranges
    <3> HIDE DEF checkpoint
    <3> QED BY <2>2, <2>4 DEF checkpoint
  <2> HIDE DEF checkpoint
  <2> QED BY <1>3, <2>1, <2>4, <2>5
<1> QED BY <1>5, <1>6

\* Init.
LEMMA InitInv == Init => HistoryInv /\ SentInv
<1> SUFFICES ASSUME Init PROVE HistoryInv /\ SentInv
  OBVIOUS
<1>1. Typed
  BY LimitsAssumption, NoneAssumption DEF Init, Typed
<1>2. InHistory /\ WindowsFollow /\ InWindow
  BY DEF Init, InHistory, WindowsFollow, InWindow
<1>3. SentInv
  BY DEF Init, SentInv, Paired
<1> QED BY <1>1, <1>2, <1>3 DEF HistoryInv

\* The conversation, its history and its windows after a step.
Whole ==
  /\ messages' \in Seq(Messages) /\ audit' \in Seq(AuditItems)
  /\ starts' \in Seq(Nat) /\ starts' # <<>> /\ generation' = Len(starts') - 1
  /\ generation' \in {generation, generation + 1}
  /\ InHistory' /\ WindowsFollow' /\ InWindow'

LEMMA AddedWhole ==
  ASSUME HistoryInv, NEW STATE items, items \in Seq(Items), AddMessages(items)
  PROVE  Whole /\ generation' = generation
BY AddedInHistory, AddedTyped DEF Whole, HistoryInv, Typed

LEMMA RebasedWhole ==
  ASSUME HistoryInv, SemanticRebase \/ EmergencyRebase
  PROVE  Whole
BY RebaseStep DEF Whole, HistoryInv, Typed

LEMMA UnchangedWhole ==
  ASSUME HistoryInv, UNCHANGED <<messages, audit, starts, generation>>
  PROVE  Whole
BY DEF Whole, HistoryInv, Typed, InHistory, WindowsFollow, InWindow, WindowEnd

\* What is left to see of Typed.
TypedRest ==
  /\ pc \in {"ended", "waiting", "prepare", "call", "tools"}
  /\ pc = "tools" <=> batch # None
  /\ pc = "tools" => /\ batch \in [ids : CallIds, left : CallIds, ends : BOOLEAN]
                     /\ batch.left \subseteq batch.ids
  /\ turn \in Nat /\ calls \in 0..MaxTurns /\ recoveries \in 0..MaxRecoveries
  /\ failedGeneration = None \/ failedGeneration \in 0..generation

LEMMA WholeAndRest ==
  ASSUME Whole, TypedRest'
  PROVE  HistoryInv'
BY DEF Whole, TypedRest, HistoryInv, Typed

\* The sizes of a round that is admitted are sizes of messages.
LEMMA ReturnedSizes ==
  ASSUME NEW shaped \in {AdmitToolResults(round) : round \in Returned}
  PROVE  Total(shaped.sizes) \in MessageSizes
BY DEF Returned, MessageSizes

LEMMA BatchIds ==
  ASSUME HistoryInv
  PROVE  Batch \subseteq CallIds
<1>1. turn \in Nat /\ BatchSizes \subseteq Nat
  BY LimitsAssumption DEF HistoryInv, Typed
<1> QED BY <1>1 DEF Batch, CallIds

\* What the steps append, and that a step which appends or rebases leaves the
\* history whole.
Appends ==
  \/ \E items \in Seq(Items) : Paired(items) /\ AddMessages(items)
  \/ \E ids \in CallIds : AddMessages(<<Use(ids)>>) /\ torn' = TRUE

Rebases == SemanticRebase \/ EmergencyRebase

Untouched == UNCHANGED <<messages, audit, starts, generation>>

LEMMA HistoryKept ==
  ASSUME HistoryInv, Appends \/ Rebases \/ Untouched
  PROVE  Whole
<1>1. ASSUME NEW items \in Seq(Items), AddMessages(items) PROVE Whole
  BY <1>1, AddedWhole
<1>2. ASSUME NEW ids \in CallIds PROVE <<Use(ids)>> \in Seq(Items)
  <2>1. Use(ids) \in Items
    BY DEF Use, Item, Items, MessageKinds, MessageSizes
  <2> QED BY <2>1
<1> QED BY <1>1, <1>2, RebasedWhole, UnchangedWhole DEF Appends, Rebases, Untouched

LEMMA AnswerAppends ==
  ASSUME HistoryInv, AnswerWithoutTools
  PROVE  Appends
<1>1. PICK response \in {<<Text>>} \cup {<<Use(ids), Results(ids, 1)>> : ids \in Batch},
           reminder \in {<<>>, <<Runtime>>} : AddMessages(response \o reminder)
  BY DEF AnswerWithoutTools
<1>2. reminder \in Reminders
  BY DEF Reminders
<1>3. 1 \in MessageSizes /\ {} \in CallIds
  BY DEF MessageSizes, CallIds
<1>4. PICK ids \in CallIds : response = <<Text>> \/ response = <<Use(ids), Results(ids, 1)>>
  BY <1>1, <1>3, BatchIds
<1>5. response \o reminder \in Seq(Items) /\ Paired(response \o reminder)
  BY <1>2, <1>3, <1>4, Responses
<1> QED BY <1>1, <1>5 DEF Appends

LEMMA AdmitAppends ==
  ASSUME HistoryInv, AdmitToolRound
  PROVE  /\ Appends
         /\ \E toks \in MessageSizes, reminders \in Reminders :
              AddMessages(<<Use(batch.ids), Results(batch.ids, toks)>> \o reminders)
<1>1. PICK shaped \in {AdmitToolResults(round) : round \in Returned}, reminders \in Reminders :
        AddMessages(<<Use(batch.ids), Results(batch.ids, Total(shaped.sizes))>> \o reminders)
  BY DEF AdmitToolRound
<1>2. batch.ids \in CallIds
  BY DEF AdmitToolRound, HistoryInv, Typed
<1>3. Total(shaped.sizes) \in MessageSizes
  BY ReturnedSizes
<1>4. PICK toks : toks = Total(shaped.sizes)
  OBVIOUS
<1>5. PICK ids : ids = batch.ids
  OBVIOUS
<1>6. <<Use(ids), Results(ids, toks)>> \o reminders \in Seq(Items)
      /\ Paired(<<Use(ids), Results(ids, toks)>> \o reminders)
  BY <1>2, <1>3, <1>4, <1>5, Responses
<1>7. AddMessages(<<Use(ids), Results(ids, toks)>> \o reminders)
  BY <1>1, <1>4, <1>5
<1> QED BY <1>3, <1>4, <1>5, <1>6, <1>7 DEF Appends

LEMMA PromptAppends ==
  ASSUME NEW item \in {User, Runtime}, AddMessages(<<item>>)
  PROVE  Appends
<1>1. 1 \in MessageSizes /\ {} \in CallIds /\ <<>> \in Reminders
  BY DEF MessageSizes, CallIds, Reminders
<1>2. <<item>> \in Seq(Items) /\ Paired(<<item>>)
  BY <1>1, Responses
<1> QED BY <1>2 DEF Appends

LEMMA AbortAppends ==
  ASSUME HistoryInv, AbortBetweenMessages
  PROVE  Appends
<1>1. PICK ids \in Batch : AddMessages(<<Use(IF batch = None THEN ids ELSE batch.ids)>>)
  BY DEF AbortBetweenMessages
<1>2. (IF batch = None THEN ids ELSE batch.ids) \in CallIds
  BY <1>1, BatchIds DEF HistoryInv, Typed
<1>3. torn' = TRUE
  BY DEF AbortBetweenMessages
<1> QED BY <1>1, <1>2, <1>3 DEF Appends

\* Every step appends, rebases or leaves the conversation alone.
LEMMA StepIsOneOf ==
  ASSUME HistoryInv, [Next]_vars
  PROVE  Appends \/ Rebases \/ Untouched
<1>1. CASE StartTask
  BY <1>1, PromptAppends DEF StartTask
<1>2. CASE ContinueTask
  BY <1>2, PromptAppends DEF ContinueTask
<1>3. CASE AnswerWithoutTools
  BY <1>3, AnswerAppends
<1>4. CASE AdmitToolRound
  BY <1>4, AdmitAppends
<1>5. CASE AbortBetweenMessages
  BY <1>5, AbortAppends
<1>6. CASE PrepareRebase
  BY <1>6 DEF PrepareRebase, Rebases
<1>7. CASE RecoverFromOverflow
  BY <1>7 DEF RecoverFromOverflow, Rebases
<1>8. CASE CancelTask \/ StopForModelCallLimit \/ PrepareNothing \/ RebaseFails
           \/ StopForContextPressure \/ StopForContextOverflow \/ StartToolBatch
           \/ ExecuteTool \/ RefuseToolRound \/ Abort
  BY <1>8 DEF CancelTask, StopForModelCallLimit, PrepareNothing, RebaseFails,
              StopForContextPressure, StopForContextOverflow, StartToolBatch, ExecuteTool,
              RefuseToolRound, Abort, window, Untouched
<1>9. CASE UNCHANGED vars
  BY <1>9 DEF vars, window, Untouched
<1> QED BY <1>1, <1>2, <1>3, <1>4, <1>5, <1>6, <1>7, <1>8, <1>9 DEF Next

LEMMA RestKept ==
  ASSUME HistoryInv, [Next]_vars, Whole
  PROVE  TypedRest'
<1> USE NoneAssumption, LimitsAssumption DEF TypedRest, Leave, task_state, window
<1>1. /\ generation \in Nat /\ generation' \in {generation, generation + 1}
      /\ turn \in Nat /\ calls \in 0..MaxTurns /\ recoveries \in 0..MaxRecoveries
      /\ failedGeneration = None \/ failedGeneration \in 0..generation
      /\ pc = "tools" <=> batch # None
      /\ pc = "tools" => /\ batch \in [ids : CallIds, left : CallIds, ends : BOOLEAN]
                         /\ batch.left \subseteq batch.ids
      /\ pc \in {"ended", "waiting", "prepare", "call", "tools"}
  BY EmptySeq DEF HistoryInv, Typed, Whole
<1>2. CASE StartTask
  BY <1>1, <1>2 DEF StartTask
<1>3. CASE ContinueTask
  BY <1>1, <1>3 DEF ContinueTask
<1>4. CASE AnswerWithoutTools
  BY <1>1, <1>4 DEF AnswerWithoutTools
<1>5. CASE AdmitToolRound
  BY <1>1, <1>5 DEF AdmitToolRound
<1>6. CASE AbortBetweenMessages
  BY <1>1, <1>6 DEF AbortBetweenMessages
<1>7. CASE PrepareRebase
  BY <1>1, <1>7 DEF PrepareRebase, BeginTurn
<1>8. CASE RecoverFromOverflow
  BY <1>1, <1>8 DEF RecoverFromOverflow
<1>9. CASE CancelTask \/ StopForModelCallLimit \/ RefuseToolRound \/ Abort
  BY <1>1, <1>9 DEF CancelTask, StopForModelCallLimit, RefuseToolRound, Abort
<1>10. CASE PrepareNothing \/ RebaseFails \/ StopForContextPressure
  BY <1>1, <1>10 DEF PrepareNothing, RebaseFails, StopForContextPressure, BeginTurn, ghosts
<1>11. CASE StopForContextOverflow
  BY <1>1, <1>11 DEF StopForContextOverflow, Smaller
<1>12. CASE StartToolBatch
  <2>1. PICK ids \in Batch : batch' = [ids |-> ids, left |-> ids, ends |-> FALSE]
    BY <1>12 DEF StartToolBatch
  <2>2. batch' \in [ids : CallIds, left : CallIds, ends : BOOLEAN]
    BY <2>1, BatchIds
  <2>3. batch' # None
    BY <2>2 DEF CallIds
  <2> QED BY <1>1, <1>12, <2>1, <2>2, <2>3 DEF StartToolBatch
<1>13. CASE ExecuteTool
  <2>1. batch' \in [ids : CallIds, left : CallIds, ends : BOOLEAN] /\ batch'.left \subseteq batch'.ids
    BY <1>1, <1>13 DEF ExecuteTool, CallIds
  <2>2. batch' # None
    BY <2>1 DEF CallIds
  <2> QED BY <1>1, <1>13, <2>1, <2>2 DEF ExecuteTool
<1>14. CASE UNCHANGED vars
  BY <1>1, <1>14 DEF vars
<1> QED BY <1>2, <1>3, <1>4, <1>5, <1>6, <1>7, <1>8, <1>9, <1>10, <1>11, <1>12, <1>13, <1>14 DEF Next

LEMMA HistoryStep == HistoryInv /\ [Next]_vars => HistoryInv'
BY StepIsOneOf, HistoryKept, RestKept, WholeAndRest

\* The results in the history stay there.
LEMMA ReportedGrows ==
  ASSUME HistoryInv, NEW b \in Seq(AuditItems), Behind(audit, b, audit'), audit' \in Seq(AuditItems)
  PROVE  /\ Reported \subseteq Reported'
         /\ \A i \in 1..Len(b) : b[i].kind = "results" => b[i].ids \subseteq Reported'
<1>1. DOMAIN audit = 1..Len(audit) /\ DOMAIN audit' = 1..Len(audit')
  BY LenProperties DEF HistoryInv, Typed
<1>2. \A i \in 1..Len(audit') : audit'[i].kind = "results" => audit'[i].ids \subseteq Reported'
  BY <1>1 DEF Reported
<1>3. ASSUME NEW x \in Reported PROVE x \in Reported'
  <2>1. PICK i \in 1..Len(audit) : audit[i].kind = "results" /\ x \in audit[i].ids
    BY <1>1 DEF Reported
  <2>2. i \in 1..Len(audit') /\ audit'[i] = audit[i]
    BY <2>1 DEF Behind
  <2> QED BY <1>2, <2>1, <2>2
<1>4. \A i \in 1..Len(b) : Len(audit) + i \in 1..Len(audit') /\ audit'[Len(audit) + i] = b[i]
  BY DEF Behind
<1> HIDE DEF Reported
<1>5. ASSUME NEW i \in 1..Len(b), b[i].kind = "results" PROVE b[i].ids \subseteq Reported'
  BY <1>2, <1>4, <1>5
<1> QED BY <1>3, <1>5

LEMMA AddedReported ==
  ASSUME HistoryInv, NEW STATE items, items \in Seq(Items), AddMessages(items)
  PROVE  /\ Reported \subseteq Reported'
         /\ \A i \in 1..Len(items) : items[i].kind = "results" => items[i].ids \subseteq Reported'
<1> DEFINE kept == Kept(items)
<1>1. /\ kept \in Seq(AuditItems) /\ audit' = audit \o kept /\ audit \in Seq(AuditItems)
      /\ Len(kept) = Len(items)
  BY AddedTyped DEF HistoryInv, Typed
<1>2. \A i \in 1..Len(items) : kept[i].kind = items[i].kind /\ kept[i].ids = items[i].ids
  BY DEF Kept
<1> HIDE DEF kept
<1>3. Behind(audit, kept, audit') /\ audit' \in Seq(AuditItems)
  BY <1>1, Appended
<1>4. /\ Reported \subseteq Reported'
      /\ \A i \in 1..Len(kept) : kept[i].kind = "results" => kept[i].ids \subseteq Reported'
  BY <1>1, <1>3, ReportedGrows
<1> QED BY <1>1, <1>2, <1>4

\* A batch is run in its order, one of its calls at a time.
LEMMA NextCall ==
  ASSUME HistoryInv, pc = "tools", batch.left # {}
  PROVE  (CHOOSE x \in batch.left : \A y \in batch.left : x[2] <= y[2]) \in batch.ids
<1>1. batch.left \in SUBSET (Nat \X Nat) /\ batch.left \subseteq batch.ids
  BY DEF HistoryInv, Typed, CallIds
<1> DEFINE S == {x[2] : x \in batch.left}
<1>2. PICK n \in S : \A m \in S : n <= m
  <2>1. S \in SUBSET Nat /\ S # {}
    BY <1>1
  <2> HIDE DEF S
  <2> QED BY <2>1, LeastNumber
<1>3. PICK x \in batch.left : \A y \in batch.left : x[2] <= y[2]
  BY <1>2
<1> QED BY <1>1, <1>3

\* Results of a batch that is kept report the batch.
LEMMA AdmittedReported ==
  ASSUME HistoryInv, AdmitToolRound
  PROVE  Reported \cup batch.ids \subseteq Reported'
<1>1. PICK toks \in MessageSizes, reminders \in Reminders :
        AddMessages(<<Use(batch.ids), Results(batch.ids, toks)>> \o reminders)
  BY AdmitAppends
<1>2. PICK ids \in CallIds : ids = batch.ids
  BY DEF AdmitToolRound, HistoryInv, Typed
<1> DEFINE round == <<Use(ids), Results(ids, toks)>>
           items == round \o reminders
<1>3. round \in Seq(Items) /\ items \in Seq(Items)
  BY Responses
<1>4. Len(round) = 2 /\ round[2].kind = "results" /\ round[2].ids = ids
  BY DEF Results, Item
<1>5. reminders \in Seq(Items)
  <2>1. Runtime \in Items
    BY DEF Runtime, Item, Items, MessageKinds, MessageSizes, CallIds
  <2> HIDE DEF Items
  <2>2. <<>> \in Seq(Items) /\ <<Runtime>> \in Seq(Items) /\ <<Runtime, Runtime>> \in Seq(Items)
    BY <2>1
  <2> QED BY <2>2 DEF Reminders
<1> HIDE DEF round
<1>6. Behind(round, reminders, items)
  BY <1>3, <1>5, Appended
<1>7. AddMessages(items)
  BY <1>1, <1>2 DEF round
<1> HIDE DEF items
<1>8. 2 \in 1..Len(items) /\ items[2] = round[2]
  BY <1>4, <1>6 DEF Behind
<1>9. /\ Reported \subseteq Reported'
      /\ \A i \in 1..Len(items) : items[i].kind = "results" => items[i].ids \subseteq Reported'
  BY <1>3, <1>7, AddedReported
<1> QED BY <1>2, <1>4, <1>8, <1>9

\* Only Ctrl+C between the response and its results tears a round.
LEMMA TornStep ==
  ASSUME HistoryInv, [Next]_vars
  PROVE  (torn => torn') \/ Rebases
BY DEF Next, StartTask, ContinueTask, CancelTask, StopForModelCallLimit, PrepareNothing,
       PrepareRebase, RebaseFails, StopForContextPressure, RecoverFromOverflow,
       StopForContextOverflow, AnswerWithoutTools, StartToolBatch, ExecuteTool, AdmitToolRound,
       RefuseToolRound, Abort, AbortBetweenMessages, vars, ghosts, Rebases

LEMMA PairedKept ==
  ASSUME HistoryInv, SentInv, [Next]_vars
  PROVE  (~torn => Paired(messages))'
<1> SUFFICES ASSUME ~torn' PROVE Paired(messages')
  OBVIOUS
<1>1. CASE Rebases
  BY <1>1, RebaseStep DEF Rebases
<1>2. CASE ~Rebases
  <2>1. ~torn /\ Paired(messages)
    BY <1>2, TornStep DEF SentInv
  <2>2. CASE Untouched
    BY <2>1, <2>2 DEF Untouched, Paired
  <2>3. CASE Appends
    <3>1. PICK items \in Seq(Items) : Paired(items) /\ AddMessages(items)
      BY <2>3 DEF Appends
    <3> QED BY <2>1, <3>1, AddedPaired
  <2> QED BY <1>2, <2>2, <2>3, StepIsOneOf
<1> QED BY <1>1, <1>2

\* The history of the results only grows.
LEMMA ReportedKept ==
  ASSUME HistoryInv, [Next]_vars
  PROVE  Reported \subseteq Reported'
<1>1. CASE Appends
  <2>1. \A ids \in CallIds : <<Use(ids)>> \in Seq(Items)
    <3>1. \A ids \in CallIds : Use(ids) \in Items
      BY DEF Use, Item, Items, MessageKinds, MessageSizes
    <3> QED BY <3>1
  <2>2. PICK items \in Seq(Items) : AddMessages(items)
    BY <1>1, <2>1 DEF Appends
  <2> QED BY <2>2, AddedReported
<1>2. CASE Rebases
  BY <1>2, RebaseStep DEF Rebases, Reported
<1>3. CASE Untouched
  BY <1>3 DEF Untouched, Reported
<1> QED BY <1>1, <1>2, <1>3, StepIsOneOf

LEMMA RanKept ==
  ASSUME HistoryInv, SentInv, [Next]_vars
  PROVE  /\ (pc \in {"waiting", "prepare", "call"} => executed \subseteq Reported)'
         /\ (pc = "tools" => executed \subseteq Reported \cup batch.ids)'
<1>1. /\ Reported \subseteq Reported'
      /\ pc \in {"waiting", "prepare", "call"} => executed \subseteq Reported
      /\ pc = "tools" => executed \subseteq Reported \cup batch.ids
  BY ReportedKept DEF SentInv
<1> HIDE DEF Reported
<1> USE DEF Leave, ghosts
<1>2. CASE StartTask
  BY <1>1, <1>2 DEF StartTask
<1>3. CASE ContinueTask
  BY <1>1, <1>3 DEF ContinueTask
<1>4. CASE AnswerWithoutTools
  BY <1>1, <1>4 DEF AnswerWithoutTools
<1>5. CASE AdmitToolRound
  BY <1>1, <1>5, AdmittedReported DEF AdmitToolRound
<1>6. CASE AbortBetweenMessages \/ CancelTask \/ StopForModelCallLimit \/ RefuseToolRound
           \/ Abort \/ StopForContextPressure \/ StopForContextOverflow
  BY <1>6 DEF AbortBetweenMessages, CancelTask, StopForModelCallLimit, RefuseToolRound, Abort,
              StopForContextPressure, StopForContextOverflow
<1>7. CASE PrepareRebase \/ PrepareNothing \/ RebaseFails
  BY <1>1, <1>7 DEF PrepareRebase, PrepareNothing, RebaseFails, BeginTurn
<1>8. CASE RecoverFromOverflow
  BY <1>1, <1>8 DEF RecoverFromOverflow
<1>9. CASE StartToolBatch
  BY <1>1, <1>9 DEF StartToolBatch
<1>10. CASE ExecuteTool
  <2> DEFINE id == CHOOSE x \in batch.left : \A y \in batch.left : x[2] <= y[2]
  <2>1. /\ pc = "tools" /\ pc' = pc /\ executed' = executed \cup {id} /\ id \in batch.ids
        /\ \/ batch' = [batch EXCEPT !.left = @ \ {id}]
           \/ \E ends \in BOOLEAN : batch' = [batch EXCEPT !.left = {}, !.ends = ends]
    BY <1>10, NextCall DEF ExecuteTool
  <2> HIDE DEF id
  <2>2. batch'.ids = batch.ids
    BY <2>1 DEF HistoryInv, Typed
  <2> QED BY <1>1, <2>1, <2>2
<1>11. CASE UNCHANGED vars
  BY <1>1, <1>11 DEF vars, Reported, window
<1> QED BY <1>2, <1>3, <1>4, <1>5, <1>6, <1>7, <1>8, <1>9, <1>10, <1>11 DEF Next

LEMMA Always == Spec => [](HistoryInv /\ SentInv)
<1>1. HistoryInv /\ SentInv /\ [Next]_vars => HistoryInv' /\ SentInv'
  BY HistoryStep, PairedKept, RanKept DEF SentInv
<1> QED BY <1>1, InitInv, PTL DEF Spec

-----------------------------------------------------------------------------
(* Folds over the numbers from 1 to n.                                     *)

\* Every set of numbers up to n has a greatest one, and Max chooses it.
LEMMA MaxOf ==
  ASSUME NEW n \in Nat, NEW t \in SUBSET (1..n), t # {}
  PROVE  Max(t) \in t /\ \A y \in t : y <= Max(t)
<1>1. \E m \in t : \A y \in t : y <= m
  <2> DEFINE D == {n - y : y \in t}
  <2>1. \A y \in t : y \in Nat /\ y <= n
    OBVIOUS
  <2>2. D \in SUBSET Nat
    BY <2>1
  <2>3. D # {}
    OBVIOUS
  <2>4. PICK d \in D : \A e \in D : d <= e
    <3> HIDE DEF D
    <3> QED BY <2>2, <2>3, LeastNumber
  <2>5. PICK m \in t : d = n - m
    OBVIOUS
  <2>6. ASSUME NEW y \in t
        PROVE  y <= m
    <3>1. d <= n - y
      BY <2>4
    <3> QED BY <2>1, <2>5, <3>1
  <2> QED BY <2>6
<1> QED BY <1>1 DEF Max

\* Where the bound is in the set, it is the greatest.
LEMMA MaxIsLast ==
  ASSUME NEW k \in Nat, NEW t \in SUBSET (1..k), k \in t
  PROVE  Max(t) = k
<1>1. t # {}
  OBVIOUS
<1>2. Max(t) \in t /\ k <= Max(t)
  BY <1>1, MaxOf
<1>3. Max(t) \in 1..k
  BY <1>2
<1> QED BY <1>2, <1>3

\* The first k numbers, without the last.
LEMMA Intervals ==
  ASSUME NEW n \in Nat, NEW k \in 1..n
  PROVE  /\ k \in Nat /\ k - 1 \in 0..n /\ k \in 0..n
         /\ 1..k \in SUBSET (1..n) /\ 1..k # {}
         /\ (1..k) \ {k} = 1..(k - 1) /\ Max(1..k) = k
<1>1. k \in Nat /\ 1..k \in SUBSET (1..k) /\ k \in 1..k
  OBVIOUS
<1>2. Max(1..k) = k
  BY <1>1, MaxIsLast
<1> QED BY <1>1, <1>2

\* The fold over every set of the numbers from 1 to n, of which F[k] takes in k.
FoldsOver(h, n, base, F) ==
  \A t \in SUBSET (1..n) : h[t] = IF t = {} THEN base ELSE F[Max(t)][h[t \ {Max(t)}]]

\* It has a value for each.
LEMMA Folding ==
  ASSUME NEW n \in Nat, NEW V, NEW base \in V, NEW F \in [1..n -> [V -> V]]
  PROVE  \E h \in [SUBSET (1..n) -> V] : FoldsOver(h, n, base, F)
<1> DEFINE Step(h, t) == IF t = {} THEN base ELSE F[Max(t)][h[t \ {Max(t)}]]
           Solves(h, k) == /\ h \in [SUBSET (1..k) -> V]
                           /\ \A t \in SUBSET (1..k) : h[t] = Step(h, t)
<1>1. \E h : Solves(h, 0)
  <2>1. \A t \in SUBSET (1..0) : t = {}
    OBVIOUS
  <2>2. Solves([t \in SUBSET (1..0) |-> base], 0)
    BY <2>1
  <2> QED BY <2>2
<1>2. ASSUME NEW k \in 1..n, NEW h, Solves(h, k - 1)
      PROVE  \E i : Solves(i, k)
  <2> DEFINE i == [t \in SUBSET (1..k) |-> IF k \in t THEN F[k][h[t \ {k}]] ELSE h[t]]
  <2>1. \A t \in SUBSET (1..k) : k \notin t => t \in SUBSET (1..(k - 1))
    OBVIOUS
  <2>2. i \in [SUBSET (1..k) -> V]
    <3> SUFFICES ASSUME NEW t \in SUBSET (1..k)
                 PROVE  (IF k \in t THEN F[k][h[t \ {k}]] ELSE h[t]) \in V
      OBVIOUS
    <3>1. CASE k \in t
      <4>1. t \ {k} \in SUBSET (1..(k - 1))
        BY <2>1
      <4>2. h[t \ {k}] \in V
        BY <1>2, <4>1
      <4> QED BY <3>1, <4>2
    <3>2. CASE k \notin t
      <4>1. h[t] \in V
        BY <1>2, <2>1, <3>2
      <4> QED BY <3>2, <4>1
    <3> QED BY <3>1, <3>2
  <2>3. ASSUME NEW t \in SUBSET (1..k)
        PROVE  i[t] = Step(i, t)
    <3>1. CASE k \in t
      <4>1. Max(t) = k
        <5>1. k \in Nat
          OBVIOUS
        <5> QED BY <3>1, <5>1, MaxIsLast
      <4>2. t \ {k} \in SUBSET (1..k) /\ k \notin t \ {k}
        OBVIOUS
      <4>3. i[t \ {k}] = h[t \ {k}]
        BY <4>2
      <4> QED BY <3>1, <4>1, <4>3
    <3>2. CASE k \notin t
      <4>1. t \in SUBSET (1..(k - 1))
        BY <2>1, <3>2
      <4>2. CASE t = {}
        BY <1>2, <3>2, <4>1, <4>2
      <4>3. CASE t # {}
        <5>1. Max(t) \in t /\ Max(t) # k
          <6>1. k \in Nat
            OBVIOUS
          <6> QED BY <3>2, <4>3, <6>1, MaxOf
        <5>2. t \ {Max(t)} \in SUBSET (1..k) /\ k \notin t \ {Max(t)}
          BY <3>2
        <5>3. i[t \ {Max(t)}] = h[t \ {Max(t)}] /\ i[t] = h[t]
          BY <3>2, <5>2
        <5>4. h[t] = Step(h, t)
          <6> HIDE DEF Step
          <6> QED BY <1>2, <4>1
        <5> QED BY <4>3, <5>3, <5>4
      <4> QED BY <4>2, <4>3
    <3> QED BY <3>1, <3>2
  <2>4. Solves(i, k)
    <3> HIDE DEF i, Step
    <3> QED BY <2>2, <2>3
  <2> HIDE DEF i, Solves
  <2> QED BY <2>4
<1>3. \A k \in 0..n : \E h : Solves(h, k)
  <2> DEFINE Bad == {k \in 0..n : ~\E h : Solves(h, k)}
  <2>1. SUFFICES ASSUME Bad # {} PROVE FALSE
    OBVIOUS
  <2>2. PICK k \in Bad : \A l \in Bad : k <= l
    <3>1. Bad \in SUBSET Nat
      OBVIOUS
    <3> QED BY <2>1, <3>1, LeastNumber
  <2> HIDE DEF Solves
  <2>3. k \in 1..n /\ k - 1 \in 0..n /\ k - 1 \notin Bad
    BY <1>1, <2>2
  <2>4. PICK h : Solves(h, k - 1)
    BY <2>3
  <2> QED BY <1>2, <2>2, <2>3, <2>4
<1>4. \E h : Solves(h, n)
  <2> HIDE DEF Solves
  <2> QED BY <1>3
<1> QED BY <1>4 DEF FoldsOver
StepsBy(g, n, base, F) == g[0] = base /\ \A k \in 1..n : g[k] = F[k][g[k - 1]]

\* What holds of 0, and of each number up to n after the one before it, holds of
\* all of them.  (The library's induction theorems take an operator, which the
\* provers cannot instantiate.)
LEMMA Upwards ==
  ASSUME NEW n \in Nat, NEW S, 0 \in S, \A k \in 1..n : k - 1 \in S => k \in S
  PROVE  0..n \subseteq S
<1> DEFINE Bad == (0..n) \ S
<1>1. SUFFICES ASSUME Bad # {} PROVE FALSE
  OBVIOUS
<1>2. PICK k \in Bad : \A l \in Bad : k <= l
  <2>1. Bad \in SUBSET Nat
    OBVIOUS
  <2> QED BY <1>1, <2>1, LeastNumber
<1>3. k \in 1..n /\ k - 1 \in 0..n /\ ~(k <= k - 1)
  <2>1. k \in 0..n /\ k # 0
    BY <1>2
  <2> QED BY <2>1
<1> QED BY <1>2, <1>3

\* The same of a function that is known to fold only where its values are in V.
FoldsWithin(f, n, V, base, F) ==
  /\ f[{}] = base
  /\ \A t \in SUBSET (1..n) :
       t # {} /\ f[t \ {Max(t)}] \in V => f[t] = F[Max(t)][f[t \ {Max(t)}]]

\* They all are, and the fold goes from one number to the next.
LEMMA FoldRuns ==
  ASSUME NEW n \in Nat, NEW V, NEW base \in V, NEW F \in [1..n -> [V -> V]],
         NEW f, FoldsWithin(f, n, V, base, F)
  PROVE  \E g \in [0..n -> V] : g[n] = f[1..n] /\ StepsBy(g, n, base, F)
<1> DEFINE S == {k \in 0..n : f[1..k] \in V}
           g == [k \in 0..n |-> f[1..k]]
<1>1. f[1..0] = base
  <2>1. 1..0 = {}
    OBVIOUS
  <2> QED BY <2>1 DEF FoldsWithin
<1>2. ASSUME NEW k \in 1..n, k - 1 \in S
      PROVE  f[1..k] = F[k][f[1..(k - 1)]] /\ f[1..(k - 1)] \in V /\ k \in S
  <2>1. f[1..(k - 1)] \in V
    BY <1>2
  <2>2. f[1..k] = F[k][f[1..(k - 1)]]
    BY <2>1, Intervals DEF FoldsWithin
  <2>3. F[k][f[1..(k - 1)]] \in V /\ k \in 0..n
    BY <2>1, Intervals
  <2> QED BY <2>1, <2>2, <2>3
<1>3. 0..n \subseteq S
  <2>1. 0 \in S
    BY <1>1
  <2>2. \A k \in 1..n : k - 1 \in S => k \in S
    BY <1>2
  <2> HIDE DEF S
  <2> QED BY <2>1, <2>2, Upwards
<1>4. g \in [0..n -> V]
  BY <1>3
<1>5. g[0] = base /\ g[n] = f[1..n]
  <2>1. 0 \in 0..n /\ n \in 0..n
    OBVIOUS
  <2> QED BY <1>1, <2>1
<1>6. \A k \in 1..n : g[k] = F[k][g[k - 1]]
  <2> SUFFICES ASSUME NEW k \in 1..n PROVE g[k] = F[k][g[k - 1]]
    OBVIOUS
  <2>1. k \in 0..n /\ k - 1 \in 0..n
    BY Intervals
  <2>2. g[k] = f[1..k] /\ g[k - 1] = f[1..(k - 1)]
    BY <2>1
  <2> HIDE DEF S, g
  <2> QED BY <1>2, <1>3, <2>1, <2>2
<1> HIDE DEF g
<1> QED BY <1>4, <1>5, <1>6 DEF StepsBy

-----------------------------------------------------------------------------
(* Putting a finite set in an order.                                       *)

\* R is a strict order of all of S.
Orders(R, S) ==
  /\ \A x \in S : <<x, x>> \notin R
  /\ \A x, y \in S : x # y => <<x, y>> \in R \/ <<y, x>> \in R
  /\ \A x, y, z \in S : <<x, y>> \in R /\ <<y, z>> \in R => <<x, z>> \in R

LEMMA FirstExists ==
  ASSUME NEW S, IsFiniteSet(S), NEW R, Orders(R, S), S # {}
  PROVE  \E m \in S : \A r \in S \ {m} : <<m, r>> \in R
<1> DEFINE First(T) == \E m \in T : \A r \in T \ {m} : <<m, r>> \in R
           Bad == {n \in Nat : \E T \in SUBSET S :
                     T # {} /\ IsFiniteSet(T) /\ Cardinality(T) = n /\ ~First(T)}
<1>1. SUFFICES ASSUME Bad # {} PROVE FALSE
  <2>1. Cardinality(S) \in Nat
    BY FS_CardinalityType
  <2>2. First(S)
    <3> HIDE DEF First
    <3> QED BY <2>1
  <2> QED BY <2>2
<1>2. PICK n \in Bad : \A m \in Bad : n <= m
  <2>1. Bad \in SUBSET Nat
    OBVIOUS
  <2> HIDE DEF Bad
  <2> QED BY <1>1, <2>1, LeastNumber
<1>3. PICK T \in SUBSET S : T # {} /\ IsFiniteSet(T) /\ Cardinality(T) = n /\ ~First(T)
  <2> HIDE DEF First
  <2> QED BY <1>2
<1>4. PICK x \in T : TRUE
  BY <1>3
<1> DEFINE U == T \ {x}
<1>5. IsFiniteSet(U) /\ Cardinality(U) = n - 1 /\ n - 1 \in Nat /\ U \in SUBSET S
  <2>1. IsFiniteSet(U) /\ Cardinality(U) = Cardinality(T) - 1
    BY <1>3, FS_RemoveElement
  <2>2. Cardinality(U) \in Nat
    BY <2>1, FS_CardinalityType
  <2> QED BY <1>3, <2>1, <2>2
<1>6. CASE U = {}
  BY <1>3, <1>6
<1>7. CASE U # {}
  <2>1. First(U)
    <3>1. ~(n <= n - 1)
      BY <1>2
    <3>2. n - 1 \notin Bad
      <4> HIDE DEF Bad
      <4> QED BY <1>2, <3>1
    <3> HIDE DEF First, U
    <3> QED BY <1>5, <1>7, <3>2
  <2>2. PICK m \in U : \A r \in U \ {m} : <<m, r>> \in R
    BY <2>1
  <2>3. m \in S /\ x \in S /\ m # x
    BY <1>5
  <2>4. CASE <<m, x>> \in R
    <3>1. \A r \in T \ {m} : <<m, r>> \in R
      BY <2>2, <2>4
    <3> QED BY <1>3, <3>1
  <2>5. CASE <<x, m>> \in R
    <3>1. ASSUME NEW r \in T \ {x} PROVE <<x, r>> \in R
      <4>1. r = m \/ (<<m, r>> \in R /\ r \in S)
        BY <2>2
      <4> QED BY <2>3, <2>5, <4>1 DEF Orders
    <3> QED BY <1>3, <3>1
  <2> QED BY <2>3, <2>4, <2>5 DEF Orders
<1> QED BY <1>6, <1>7

InOrderOf(s, R) == \A i, j \in DOMAIN s : i < j => <<s[i], s[j]>> \in R

LEMMA OrderExists ==
  ASSUME NEW S, IsFiniteSet(S), NEW R, Orders(R, S)
  PROVE  \E s \in [1..Cardinality(S) -> S] : InOrderOf(s, R)
<1> DEFINE Ordered(T) == \E s \in [1..Cardinality(T) -> T] : InOrderOf(s, R)
           Bad == {n \in Nat : \E T \in SUBSET S :
                     IsFiniteSet(T) /\ Cardinality(T) = n /\ ~Ordered(T)}
<1>1. SUFFICES ASSUME Bad # {} PROVE FALSE
  <2>1. Cardinality(S) \in Nat
    BY FS_CardinalityType
  <2>2. Ordered(S)
    <3> HIDE DEF Ordered
    <3> QED BY <2>1
  <2> QED BY <2>2
<1>2. PICK n \in Bad : \A m \in Bad : n <= m
  <2>1. Bad \in SUBSET Nat
    OBVIOUS
  <2> HIDE DEF Bad
  <2> QED BY <1>1, <2>1, LeastNumber
<1>3. PICK T \in SUBSET S : IsFiniteSet(T) /\ Cardinality(T) = n /\ ~Ordered(T)
  <2> HIDE DEF Ordered
  <2> QED BY <1>2
<1>4. T # {}
  <2>1. ASSUME T = {} PROVE FALSE
    <3>1. n = 0
      BY <1>3, <2>1, FS_EmptySet
    <3>2. [i \in 1..0 |-> 0] \in [1..Cardinality(T) -> T] /\ InOrderOf([i \in 1..0 |-> 0], R)
      BY <1>3, <3>1 DEF InOrderOf
    <3> QED BY <1>3, <3>2
  <2> QED BY <2>1
<1>5. PICK m \in T : \A r \in T \ {m} : <<m, r>> \in R
  <2>1. Orders(R, T)
    BY DEF Orders
  <2> QED BY <1>3, <1>4, <2>1, FirstExists
<1> DEFINE U == T \ {m}
<1>6. n \in Nat /\ n > 0 /\ IsFiniteSet(U) /\ Cardinality(U) = n - 1
  <2>1. n # 0
    BY <1>3, <1>4, FS_EmptySet
  <2>2. IsFiniteSet(U) /\ Cardinality(U) = n - 1
    BY <1>3, FS_RemoveElement
  <2> QED BY <1>2, <2>1, <2>2
<1>7. Ordered(U)
  <2>1. n - 1 \in Nat /\ ~(n <= n - 1)
    BY <1>6
  <2>2. n - 1 \notin Bad
    <3> HIDE DEF Bad
    <3> QED BY <1>2, <2>1
  <2>3. U \in SUBSET S
    OBVIOUS
  <2> HIDE DEF Ordered, U
  <2> QED BY <1>6, <2>1, <2>2, <2>3
<1>8. PICK u \in [1..(n - 1) -> U] : InOrderOf(u, R)
  BY <1>6, <1>7
<1> DEFINE s == [i \in 1..n |-> IF i = 1 THEN m ELSE u[i - 1]]
<1>9. \A i \in 1..n : i # 1 => i - 1 \in 1..(n - 1)
  BY <1>6
<1>10. s \in [1..Cardinality(T) -> T]
  BY <1>3, <1>8, <1>9
<1>11. InOrderOf(s, R)
  <2> SUFFICES ASSUME NEW i \in 1..n, NEW j \in 1..n, i < j PROVE <<s[i], s[j]>> \in R
    BY DEF InOrderOf
  <2>1. j # 1 /\ j - 1 \in 1..(n - 1) /\ s[j] = u[j - 1] /\ u[j - 1] \in U
    BY <1>6, <1>8, <1>9
  <2>2. CASE i = 1
    BY <1>5, <2>1, <2>2
  <2>3. CASE i # 1
    BY <1>6, <1>8, <1>9, <2>1, <2>3 DEF InOrderOf
  <2> QED BY <2>2, <2>3
<1> QED BY <1>3, <1>10, <1>11

\* A set in order is all of the set.
LEMMA OrderedIsAll ==
  ASSUME NEW S, IsFiniteSet(S), NEW R, Orders(R, S),
         NEW s \in [1..Cardinality(S) -> S], InOrderOf(s, R)
  PROVE  Cardinality(S) \in Nat /\ \A r \in S : \E i \in 1..Cardinality(S) : s[i] = r
<1> DEFINE n == Cardinality(S)
<1>1. n \in Nat
  BY FS_CardinalityType
<1>2. ASSUME NEW i \in 1..n, NEW j \in 1..n, s[i] = s[j]
      PROVE  i = j
  <2>1. s[i] \in S
    OBVIOUS
  <2>2. ~(i < j) /\ ~(j < i)
    BY <1>2, <2>1 DEF InOrderOf, Orders
  <2> QED BY <1>1, <2>2
<1>3. s \in Injection(1..n, S)
  BY <1>2 DEF Injection, IsInjective
<1>4. IsFiniteSet(1..n) /\ Cardinality(1..n) = n
  BY <1>1, FS_Interval
<1>5. s \in Surjection(1..n, S)
  BY <1>3, <1>4, FS_Injection
<1> QED BY <1>1, <1>5 DEF Surjection

-----------------------------------------------------------------------------
(* Sums.                                                                   *)

LEMMA TotalIsNumber ==
  ASSUME NEW n \in Nat, NEW w \in [1..n -> Nat]
  PROVE  Total(w) \in Nat
<1> DEFINE F == [k \in 1..n |-> [v \in Nat |-> v + w[k]]]
           Folds(h) == h = [t \in SUBSET (1..n) |->
                              IF t = {} THEN 0 ELSE h[t \ {Max(t)}] + w[Max(t)]]
           f == CHOOSE h : Folds(h)
<1>1. Total(w) = f[1..n]
  BY DEF Total, FoldLeft, MapThenFoldSet
<1>2. F \in [1..n -> [Nat -> Nat]] /\ \A k \in 1..n, v \in Nat : F[k][v] = v + w[k]
  OBVIOUS
<1> HIDE DEF F
<1>3. ASSUME NEW t \in SUBSET (1..n), t # {}
      PROVE  Max(t) \in 1..n /\ t \ {Max(t)} \in SUBSET (1..n)
  BY <1>3, MaxOf
<1>4. Folds(f)
  <2>1. PICK h \in [SUBSET (1..n) -> Nat] : FoldsOver(h, n, 0, F)
    BY <1>2, Folding
  <2>2. Folds(h)
    <3>1. ASSUME NEW t \in SUBSET (1..n)
          PROVE  h[t] = IF t = {} THEN 0 ELSE h[t \ {Max(t)}] + w[Max(t)]
      BY <1>2, <1>3, <2>1 DEF FoldsOver
    <3> QED BY <2>1, <3>1
  <2> HIDE DEF Folds
  <2> QED BY <2>2
<1> HIDE DEF f
<1>5. FoldsWithin(f, n, Nat, 0, F)
  <2>1. f[{}] = 0
    BY <1>4
  <2>2. ASSUME NEW t \in SUBSET (1..n), t # {}, f[t \ {Max(t)}] \in Nat
        PROVE  f[t] = F[Max(t)][f[t \ {Max(t)}]]
    <3>1. f[t] = f[t \ {Max(t)}] + w[Max(t)]
      BY <1>4, <2>2
    <3> QED BY <1>2, <1>3, <2>2, <3>1
  <2> HIDE DEF Folds
  <2> QED BY <2>1, <2>2 DEF FoldsWithin
<1> HIDE DEF Folds
<1>6. 0 \in Nat
  OBVIOUS
<1>7. PICK g \in [0..n -> Nat] : g[n] = f[1..n] /\ StepsBy(g, n, 0, F)
  BY <1>2, <1>5, <1>6, FoldRuns
<1>8. n \in 0..n
  OBVIOUS
<1> QED BY <1>1, <1>7, <1>8
-----------------------------------------------------------------------------
(* Cutting a round of results.                                             *)

\* The outputs of the other tools.
IsOutput(result) == result.kind \in {"output", "stored", "foreign"}

LEMMA LeastOf ==
  ASSUME NEW r \in ToolResults
  PROVE  /\ r.size \in Nat /\ Least(r) \in Nat /\ Least(r) <= r.size /\ r.kind \in Kinds
         /\ r.kind = "source" => Least(r) = IF SourceStub < r.size THEN SourceStub ELSE r.size
         /\ r.kind = "foreign" \/ (r.kind # "source" /\ ~r.kept) => Least(r) = r.size
         /\ r.kind \notin {"source", "foreign"} /\ r.kept =>
              Least(r) = IF Stub < r.size THEN Stub ELSE r.size
<1>1. r.size \in Nat /\ r.kind \in Kinds /\ r.kept \in BOOLEAN
  BY AdmissionAssumption DEF ToolResults
<1>2. Stub \in Nat /\ SourceStub \in Nat
  BY AdmissionAssumption
<1> DEFINE stub == CASE r.kind = "source" -> SourceStub
                     [] r.kind = "foreign" \/ (r.kind # "source" /\ ~r.kept) -> r.size
                     [] OTHER -> Stub
<1>3. /\ r.kind = "source" => stub = SourceStub
      /\ r.kind = "foreign" \/ (r.kind # "source" /\ ~r.kept) => stub = r.size
      /\ r.kind \notin {"source", "foreign"} /\ r.kept => stub = Stub
  OBVIOUS
<1>4. Least(r) = IF stub < r.size THEN stub ELSE r.size
  BY DEF Least
<1>5. r.kind = "source" \/ r.kind = "foreign" \/ (r.kind # "source" /\ ~r.kept)
      \/ (r.kind \notin {"source", "foreign"} /\ r.kept)
  BY <1>1
<1> HIDE DEF stub
<1> QED BY <1>1, <1>2, <1>3, <1>4, <1>5

\* Before as a relation of the places of a round.
BeforeIn(round, n) == {p \in (1..n) \X (1..n) : Before(round, p[1], p[2])}

LEMMA BeforeOrders ==
  ASSUME NEW n \in Nat, NEW round \in [1..n -> ToolResults]
  PROVE  /\ Orders(BeforeIn(round, n), 1..n)
         /\ \A i, j \in 1..n : <<i, j>> \in BeforeIn(round, n) <=> Before(round, i, j)
         /\ \A i, j \in 1..n : round[i].kind = "source" /\ IsOutput(round[j]) => ~Before(round, i, j)
<1>1. \A i \in 1..n : /\ i \in Nat /\ round[i].size \in Nat /\ Priority(round[i]) \in Nat
                      /\ IsOutput(round[i]) => Priority(round[i]) < 2
                      /\ round[i].kind = "source" => Priority(round[i]) = 2
  <2> SUFFICES ASSUME NEW i \in 1..n
               PROVE  /\ i \in Nat /\ round[i].size \in Nat /\ Priority(round[i]) \in Nat
                      /\ IsOutput(round[i]) => Priority(round[i]) < 2
                      /\ round[i].kind = "source" => Priority(round[i]) = 2
    OBVIOUS
  <2>1. round[i].size \in Nat /\ round[i].kind \in Kinds
    BY LeastOf
  <2> QED BY <2>1 DEF Priority, IsOutput, Kinds
<1> DEFINE b(i, j) == Before(round, i, j)
<1>2. /\ \A i \in 1..n : ~b(i, i)
      /\ \A i, j \in 1..n : i # j => b(i, j) \/ b(j, i)
      /\ \A i, j, k \in 1..n : b(i, j) /\ b(j, k) => b(i, k)
      /\ \A i, j \in 1..n : round[i].kind = "source" /\ IsOutput(round[j]) => ~b(i, j)
  BY <1>1 DEF Before
<1>3. \A i, j \in 1..n : <<i, j>> \in BeforeIn(round, n) <=> b(i, j)
  BY DEF BeforeIn
<1> HIDE DEF b
<1>4. Orders(BeforeIn(round, n), 1..n)
  BY <1>2, <1>3 DEF Orders
<1> QED BY <1>2, <1>3, <1>4 DEF b

\* The loop's state for n results.
States(n) == [sizes : [1..n -> Nat], previews : SUBSET (1..n), sources : BOOLEAN]

LEMMA FitsIsSizes ==
  ASSUME NEW s, NEW t, s.sizes = t.sizes
  PROVE  RoundFits(s) <=> RoundFits(t)
BY DEF RoundFits

\* One turn of the loop in MinimizePersistedPreviews.
Minimize(t, i) ==
  IF RoundFits(t) THEN t ELSE [t EXCEPT !.sizes[i] = Stub, !.previews = @ \ {i}]

LEMMA MinimizeTyped ==
  ASSUME NEW n \in Nat, NEW t \in States(n), NEW i \in 1..n
  PROVE  /\ Minimize(t, i) \in States(n) /\ Minimize(t, i).sources = t.sources
         /\ RoundFits(t) => Minimize(t, i) = t
         /\ ~RoundFits(t) => /\ Minimize(t, i).previews = t.previews \ {i}
                             /\ Minimize(t, i).sizes = [t.sizes EXCEPT ![i] = Stub]
<1>1. Stub \in Nat
  BY AdmissionAssumption
<1>2. CASE RoundFits(t)
  BY <1>2 DEF Minimize
<1>3. CASE ~RoundFits(t)
  <2> DEFINE u == [t EXCEPT !.sizes[i] = Stub, !.previews = @ \ {i}]
  <2>1. Minimize(t, i) = u
    BY <1>3 DEF Minimize
  <2>2. /\ u \in States(n) /\ u.sources = t.sources /\ u.previews = t.previews \ {i}
        /\ u.sizes = [t.sizes EXCEPT ![i] = Stub]
    BY <1>1 DEF States
  <2> HIDE DEF u
  <2> QED BY <1>3, <2>1, <2>2
<1> QED BY <1>2, <1>3

\* What the loop has done once the results in done have come up.
MinimizedOf(s, t, n, done) ==
  /\ t \in States(n) /\ t.sources = s.sources /\ t.previews \subseteq s.previews
  /\ \A i \in 1..n : t.sizes[i] = s.sizes[i] \/ (i \in s.previews /\ t.sizes[i] = Stub)
  /\ RoundFits(s) => t = s
  /\ RoundFits(t) \/ \A i \in done : t.sizes[i] = Stub

LEMMA MinimizeStep ==
  ASSUME NEW n \in Nat, NEW s \in States(n), NEW t, NEW done \in SUBSET (1..n),
         MinimizedOf(s, t, n, done), NEW i \in s.previews
  PROVE  MinimizedOf(s, Minimize(t, i), n, done \cup {i})
<1> DEFINE u == Minimize(t, i)
<1>1. i \in 1..n /\ t \in States(n)
  BY DEF States, MinimizedOf
<1>2. CASE RoundFits(t)
  BY <1>1, <1>2, MinimizeTyped DEF MinimizedOf
<1>3. CASE ~RoundFits(t)
  <2>1. /\ u \in States(n) /\ u.sources = t.sources /\ u.previews = t.previews \ {i}
        /\ u.sizes = [t.sizes EXCEPT ![i] = Stub] /\ t.sizes \in [1..n -> Nat]
    <3>1. t.sizes \in [1..n -> Nat]
      BY <1>1 DEF States
    <3> QED BY <1>1, <1>3, <3>1, MinimizeTyped
  <2> HIDE DEF u
  <2>2. u.sizes[i] = Stub /\ \A j \in 1..n : j # i => u.sizes[j] = t.sizes[j]
    BY <1>1, <2>1
  <2>3. ~RoundFits(s)
    BY <1>3 DEF MinimizedOf
  <2>4. \A j \in 1..n : u.sizes[j] = s.sizes[j] \/ (j \in s.previews /\ u.sizes[j] = Stub)
    BY <2>2 DEF MinimizedOf
  <2>5. \A j \in done \cup {i} : u.sizes[j] = Stub
    <3>1. ASSUME NEW j \in done, j # i PROVE u.sizes[j] = Stub
      <4>1. j \in 1..n /\ t.sizes[j] = Stub
        BY <1>3 DEF MinimizedOf
      <4> QED BY <2>2, <3>1, <4>1
    <3> QED BY <2>2, <3>1
  <2> QED BY <2>1, <2>3, <2>4, <2>5 DEF MinimizedOf, u
<1> QED BY <1>2, <1>3

\* Whatever the order in which the previews come up.
LEMMA MinimizeFold ==
  ASSUME NEW n \in Nat, NEW s \in States(n), NEW c \in Nat, NEW q \in [1..c -> s.previews]
  PROVE  LET op(t, i) == IF RoundFits(t) THEN t
                         ELSE [t EXCEPT !.sizes[i] = Stub, !.previews = @ \ {i}]
         IN MinimizedOf(s, FoldLeft(op, s, q), n, {q[j] : j \in 1..c})
<1> DEFINE V == States(n)
           op(t, i) == IF RoundFits(t) THEN t
                       ELSE [t EXCEPT !.sizes[i] = Stub, !.previews = @ \ {i}]
           F == [k \in 1..c |-> [v \in V |-> Minimize(v, q[k])]]
           Folds(h) == h = [t \in SUBSET (1..c) |->
                              IF t = {} THEN s ELSE Minimize(h[t \ {Max(t)}], q[Max(t)])]
           f == CHOOSE h : Folds(h)
<1>1. FoldLeft(op, s, q) = f[1..c]
  BY DEF FoldLeft, MapThenFoldSet, Minimize
<1>2. \A k \in 1..c : q[k] \in 1..n
  BY DEF States
<1>3. F \in [1..c -> [V -> V]] /\ \A k \in 1..c, v \in V : F[k][v] = Minimize(v, q[k])
  BY <1>2, MinimizeTyped
<1> HIDE DEF F, V
<1>4. ASSUME NEW t \in SUBSET (1..c), t # {}
      PROVE  Max(t) \in 1..c /\ t \ {Max(t)} \in SUBSET (1..c)
  BY <1>4, MaxOf
<1>5. Folds(f)
  <2>1. PICK h \in [SUBSET (1..c) -> V] : FoldsOver(h, c, s, F)
    <3>1. s \in V
      BY DEF V
    <3> QED BY <1>3, <3>1, Folding
  <2>2. Folds(h)
    <3>1. ASSUME NEW t \in SUBSET (1..c)
          PROVE  h[t] = IF t = {} THEN s ELSE Minimize(h[t \ {Max(t)}], q[Max(t)])
      BY <1>3, <1>4, <2>1 DEF FoldsOver
    <3> QED BY <2>1, <3>1
  <2> HIDE DEF Folds
  <2> QED BY <2>2
<1> HIDE DEF f
<1>6. FoldsWithin(f, c, V, s, F)
  <2>1. f[{}] = s
    BY <1>5
  <2>2. ASSUME NEW t \in SUBSET (1..c), t # {}, f[t \ {Max(t)}] \in V
        PROVE  f[t] = F[Max(t)][f[t \ {Max(t)}]]
    <3>1. f[t] = Minimize(f[t \ {Max(t)}], q[Max(t)])
      BY <1>5, <2>2
    <3> QED BY <1>3, <1>4, <2>2, <3>1
  <2> HIDE DEF Folds
  <2> QED BY <2>1, <2>2 DEF FoldsWithin
<1> HIDE DEF Folds
<1>7. PICK g \in [0..c -> V] : g[c] = f[1..c] /\ StepsBy(g, c, s, F)
  <2>1. s \in V
    BY DEF V
  <2> QED BY <1>3, <1>6, <2>1, FoldRuns
<1> DEFINE S == {k \in 0..c : MinimizedOf(s, g[k], n, {q[j] : j \in 1..k})}
<1>8. 0 \in S
  <2>1. g[0] = s /\ 1..0 = {} /\ 0 \in 0..c
    BY <1>7 DEF StepsBy
  <2>2. MinimizedOf(s, s, n, {})
    BY DEF MinimizedOf
  <2>3. {q[j] : j \in 1..0} = {}
    BY <2>1
  <2> QED BY <2>1, <2>2, <2>3
<1>9. ASSUME NEW k \in 1..c, k - 1 \in S PROVE k \in S
  <2>1. k - 1 \in 0..c /\ k \in 0..c /\ k \in Nat
    BY Intervals
  <2>2. g[k] = Minimize(g[k - 1], q[k])
    BY <1>3, <1>7, <2>1 DEF StepsBy
  <2> DEFINE done == {q[j] : j \in 1..(k - 1)}
  <2>3. MinimizedOf(s, g[k - 1], n, done)
    BY <1>9
  <2>4. done \in SUBSET (1..n) /\ q[k] \in s.previews
    <3>1. \A j \in 1..(k - 1) : j \in 1..c
      BY <2>1
    <3> QED BY <1>2, <3>1
  <2>5. {q[j] : j \in 1..k} = done \cup {q[k]}
    <3>1. 1..k = (1..(k - 1)) \cup {k}
      BY <2>1
    <3> QED BY <3>1
  <2> HIDE DEF done
  <2>6. MinimizedOf(s, g[k], n, done \cup {q[k]})
    BY <2>2, <2>3, <2>4, MinimizeStep
  <2> QED BY <2>1, <2>5, <2>6
<1>10. c \in S
  <2>1. c \in 0..c
    OBVIOUS
  <2> HIDE DEF S
  <2>2. \A k \in 1..c : k - 1 \in S => k \in S
    BY <1>9
  <2>3. 0..c \subseteq S
    BY <1>8, <2>2, Upwards
  <2> QED BY <2>1, <2>3
<1>11. MinimizedOf(s, g[c], n, {q[j] : j \in 1..c})
  BY <1>10
<1> HIDE DEF S, op
<1> QED BY <1>1, <1>7, <1>11 DEF op

MinimizedBy(s, m, n) ==
  /\ m \in States(n) /\ m.sources = s.sources /\ m.previews \subseteq s.previews
  /\ \A i \in 1..n : m.sizes[i] = s.sizes[i] \/ (i \in s.previews /\ m.sizes[i] = Stub)
  /\ RoundFits(s) => m = s
  /\ RoundFits(m) \/ \A i \in s.previews : m.sizes[i] = Stub

\* All previews become stubs, or the round fits before that.
LEMMA Minimized ==
  ASSUME NEW n \in Nat, NEW round \in [1..n -> ToolResults], NEW s \in States(n)
  PROVE  MinimizedBy(s, MinimizePersistedPreviews(round, s), n)
<1>0. /\ \A i \in 1..n : ~Before(round, i, i)
      /\ \A i, j \in 1..n : i # j => Before(round, i, j) \/ Before(round, j, i)
      /\ \A i, j, k \in 1..n : Before(round, i, j) /\ Before(round, j, k) => Before(round, i, k)
  BY BeforeOrders DEF Orders
<1> DEFINE S == s.previews
           larger(i, j) ==
             s.sizes[i] > s.sizes[j] \/ (s.sizes[i] = s.sizes[j] /\ Before(round, i, j))
           R == {p \in S \X S : larger(p[1], p[2])}
           q == InOrder(S, larger)
           c == Cardinality(S)
           op(t, i) == IF RoundFits(t) THEN t
                       ELSE [t EXCEPT !.sizes[i] = Stub, !.previews = @ \ {i}]
<1>1. S \in SUBSET (1..n) /\ s.sizes \in [1..n -> Nat]
  BY DEF States
<1>2. IsFiniteSet(S)
  <2>1. IsFiniteSet(1..n)
    BY FS_Interval
  <2> HIDE DEF S
  <2> QED BY <1>1, <2>1, FS_Subset
<1>3. \A i, j \in S : <<i, j>> \in R <=> larger(i, j)
  OBVIOUS
<1>4. Orders(R, S)
  <2>1. \A i \in S : i \in 1..n /\ s.sizes[i] \in Nat
    BY <1>1
  <2>2. /\ \A i \in S : ~larger(i, i)
        /\ \A i, j \in S : i # j => larger(i, j) \/ larger(j, i)
        /\ \A i, j, k \in S : larger(i, j) /\ larger(j, k) => larger(i, k)
    BY <1>0, <2>1
  <2> HIDE DEF R, larger
  <2> QED BY <1>3, <2>2 DEF Orders
<1>5. q \in [1..c -> S] /\ InOrderOf(q, R)
  <2>1. PICK v \in [1..c -> S] : InOrderOf(v, R)
    BY <1>2, <1>4, OrderExists
  <2>2. ASSUME NEW w \in [1..c -> S]
        PROVE  InOrderOf(w, R) <=> \A i, j \in DOMAIN w : i < j => larger(w[i], w[j])
    <3>1. \A i \in DOMAIN w : w[i] \in S
      OBVIOUS
    <3> HIDE DEF R, larger
    <3> QED BY <1>3, <3>1 DEF InOrderOf
  <2>3. q = CHOOSE w \in [1..c -> S] : \A i, j \in DOMAIN w : i < j => larger(w[i], w[j])
    BY DEF InOrder
  <2> HIDE DEF R, larger, q
  <2> QED BY <2>1, <2>2, <2>3
<1>6. c \in Nat /\ \A r \in S : \E j \in 1..c : q[j] = r
  <2> HIDE DEF R, q
  <2> QED BY <1>2, <1>4, <1>5, OrderedIsAll
<1>7. MinimizePersistedPreviews(round, s) = FoldLeft(op, s, q)
  BY DEF MinimizePersistedPreviews
<1> HIDE DEF q, c
<1>8. MinimizedOf(s, FoldLeft(op, s, q), n, {q[j] : j \in 1..c})
  BY <1>5, <1>6, MinimizeFold
<1>9. S \subseteq {q[j] : j \in 1..c}
  BY <1>6
<1> HIDE DEF op, S
<1> QED BY <1>7, <1>8, <1>9 DEF MinimizedOf, MinimizedBy, S

\* The slices that are cut, and the outputs that have nothing more to give.
SourceIsCut(round, s) == \E i \in DOMAIN round : round[i].kind = "source" /\ s.sizes[i] # round[i].size

OutputsAtLeast(round, s) == \A i \in DOMAIN round : IsOutput(round[i]) => s.sizes[i] = Least(round[i])

AtLeastOrPreview(round, s, i) == s.sizes[i] = Least(round[i]) \/ i \in s.previews

\* The round fits, or there is nothing more to cut in the results of done.
CutEnough(round, s, done) == RoundFits(s) \/ \A i \in done : s.sizes[i] = Least(round[i])

\* What holds of the loop's state at any time; done are the results that have
\* come up.
AdmitInv(round, s, n, done) ==
  /\ s \in States(n)
  /\ \A i \in 1..n : s.sizes[i] <= round[i].size
  /\ \A i \in s.previews : i \in done /\ round[i].kind # "source" /\ Least(round[i]) = Stub
  /\ \A i \in (1..n) \ done : s.sizes[i] = round[i].size
  /\ RoundFits(s) \/ \A i \in done : AtLeastOrPreview(round, s, i)
  /\ SourceIsCut(round, s) => OutputsAtLeast(round, s)
  /\ s.sources => RoundFits(s) \/ OutputsAtLeast(round, s)
  /\ RoundFits(Start(round)) => s = Start(round)

LEMMA StartInv ==
  ASSUME NEW n \in Nat, NEW round \in [1..n -> ToolResults]
  PROVE  AdmitInv(round, Start(round), n, {})
<1>1. \A i \in 1..n : round[i].size \in Nat
  BY LeastOf
<1>2. Start(round) = [sizes |-> [i \in 1..n |-> round[i].size], previews |-> {}, sources |-> FALSE]
  BY DEF Start, SizesOf
<1>3. Start(round) \in States(n)
  BY <1>1, <1>2 DEF States
<1>4. \A i \in 1..n : Start(round).sizes[i] = round[i].size
  BY <1>2
<1>5. ~SourceIsCut(round, Start(round))
  BY <1>4 DEF SourceIsCut
<1>6. Start(round).previews = {} /\ Start(round).sources = FALSE
  BY <1>2
<1> QED BY <1>1, <1>3, <1>4, <1>5, <1>6 DEF AdmitInv

\* Bringing previews down to stubs.
LEMMA MinimizeKeeps ==
  ASSUME NEW n \in Nat, NEW round \in [1..n -> ToolResults], NEW s, NEW done \in SUBSET (1..n),
         AdmitInv(round, s, n, done), NEW m, m = MinimizePersistedPreviews(round, s)
  PROVE  AdmitInv(round, m, n, done) /\ CutEnough(round, m, done)
<1>1. s \in States(n) /\ MinimizedBy(s, m, n)
  BY Minimized DEF AdmitInv
<1>2. \A i \in 1..n : m.sizes[i] = s.sizes[i] \/ (i \in s.previews /\ m.sizes[i] = Least(round[i]))
  BY <1>1 DEF MinimizedBy, AdmitInv
<1>3. /\ m \in States(n) /\ m.sources = s.sources /\ m.previews \subseteq s.previews
      /\ RoundFits(s) => m = s
  BY <1>1 DEF MinimizedBy
<1>4. \A i \in 1..n : Least(round[i]) <= round[i].size
  BY LeastOf
<1>5. \A i \in 1..n : m.sizes[i] <= round[i].size
  BY <1>2, <1>4 DEF AdmitInv
<1>6. \A i \in (1..n) \ done : m.sizes[i] = round[i].size
  BY <1>2 DEF AdmitInv
<1>7. RoundFits(m) \/ \A i \in done : m.sizes[i] = Least(round[i])
  <2> SUFFICES ASSUME ~RoundFits(m), NEW i \in done PROVE m.sizes[i] = Least(round[i])
    OBVIOUS
  <2>1. ~RoundFits(s)
    BY <1>3
  <2>2. AtLeastOrPreview(round, s, i)
    BY <2>1 DEF AdmitInv
  <2>3. i \in s.previews => m.sizes[i] = Stub /\ Least(round[i]) = Stub
    BY <1>1 DEF MinimizedBy, AdmitInv
  <2> QED BY <1>2, <2>2, <2>3 DEF AtLeastOrPreview
<1>8. OutputsAtLeast(round, s) => OutputsAtLeast(round, m)
  BY <1>2 DEF OutputsAtLeast
<1>9. SourceIsCut(round, m) => SourceIsCut(round, s)
  <2>1. \A i \in s.previews : round[i].kind # "source"
    BY DEF AdmitInv
  <2> QED BY <1>2, <2>1 DEF SourceIsCut
<1>10. RoundFits(s) => RoundFits(m)
  BY <1>3
<1>11. RoundFits(m) \/ \A i \in done : AtLeastOrPreview(round, m, i)
  BY <1>7 DEF AtLeastOrPreview
<1>12. RoundFits(Start(round)) => m = Start(round)
  BY <1>3 DEF AdmitInv
<1>13. \A i \in m.previews : i \in done /\ round[i].kind # "source" /\ Least(round[i]) = Stub
  BY <1>3 DEF AdmitInv
<1>14. /\ SourceIsCut(round, m) => OutputsAtLeast(round, m)
       /\ m.sources => RoundFits(m) \/ OutputsAtLeast(round, m)
  BY <1>3, <1>8, <1>9, <1>10 DEF AdmitInv
<1>15. AdmitInv(round, m, n, done)
  BY <1>3, <1>5, <1>6, <1>11, <1>12, <1>13, <1>14 DEF AdmitInv
<1> QED BY <1>7, <1>15 DEF CutEnough

\* A step for one more result, of which only its size and its preview change.
LEMMA ProjectKeeps ==
  ASSUME NEW n \in Nat, NEW round \in [1..n -> ToolResults], NEW s, NEW done \in SUBSET (1..n),
         NEW t, NEW i \in (1..n) \ done, AdmitInv(round, s, n, done), ~RoundFits(s),
         t \in States(n), t.sources = s.sources, t.previews \in {s.previews, s.previews \cup {i}},
         \A j \in 1..n : j # i => t.sizes[j] = s.sizes[j],
         t.sizes[i] <= round[i].size,
         t.sizes[i] = Least(round[i]) \/ i \in t.previews,
         i \in t.previews => round[i].kind # "source" /\ Least(round[i]) = Stub,
         round[i].kind = "source" => OutputsAtLeast(round, s),
         Least(round[i]) = round[i].size => t.sizes[i] = round[i].size
  PROVE  AdmitInv(round, t, n, done \cup {i})
<1>1. \A j \in 1..n : t.sizes[j] <= round[j].size
  BY DEF AdmitInv
<1>2. \A j \in t.previews : j \in done \cup {i} /\ round[j].kind # "source" /\ Least(round[j]) = Stub
  BY DEF AdmitInv
<1>3. \A j \in (1..n) \ (done \cup {i}) : t.sizes[j] = round[j].size
  BY DEF AdmitInv
<1>4. \A j \in done \cup {i} : AtLeastOrPreview(round, t, j)
  <2>1. \A j \in done : j \in 1..n /\ j # i /\ AtLeastOrPreview(round, s, j)
    BY DEF AdmitInv
  <2> QED BY <2>1 DEF AtLeastOrPreview
<1>5. s.sizes[i] = round[i].size
  BY DEF AdmitInv
<1>6. OutputsAtLeast(round, s) => OutputsAtLeast(round, t)
  BY <1>5 DEF OutputsAtLeast
<1>7. SourceIsCut(round, t) => round[i].kind = "source" \/ SourceIsCut(round, s)
  BY DEF SourceIsCut
<1>8. SourceIsCut(round, t) => OutputsAtLeast(round, t)
  BY <1>6, <1>7 DEF AdmitInv
<1>9. t.sources => OutputsAtLeast(round, t)
  BY <1>6 DEF AdmitInv
<1>10. ~RoundFits(Start(round))
  BY DEF AdmitInv
<1> QED BY <1>1, <1>2, <1>3, <1>4, <1>8, <1>9, <1>10 DEF AdmitInv

LEMMA ProjectSourceKeeps ==
  ASSUME NEW n \in Nat, NEW round \in [1..n -> ToolResults], NEW s, NEW done \in SUBSET (1..n),
         NEW i \in (1..n) \ done, AdmitInv(round, s, n, done), ~RoundFits(s),
         round[i].kind = "source", OutputsAtLeast(round, s)
  PROVE  AdmitInv(round, ProjectSource(s, i), n, done \cup {i})
<1> DEFINE t == ProjectSource(s, i)
<1>1. /\ s \in States(n) /\ s.sizes[i] = round[i].size /\ round[i].size \in Nat
      /\ i \notin s.previews /\ SourceStub \in Nat
      /\ Least(round[i]) = IF SourceStub < round[i].size THEN SourceStub ELSE round[i].size
  <2>1. /\ s \in States(n) /\ s.sizes[i] = round[i].size /\ i \notin s.previews
    BY DEF AdmitInv
  <2>2. round[i] \in ToolResults /\ SourceStub \in Nat
    BY AdmissionAssumption
  <2> QED BY <2>1, <2>2, LeastOf
<1>2. /\ t \in States(n) /\ t.sources = s.sources /\ t.previews = s.previews
      /\ \A j \in 1..n : j # i => t.sizes[j] = s.sizes[j]
      /\ t.sizes[i] = Least(round[i])
  <2>1. CASE SourceStub < s.sizes[i]
    BY <1>1, <2>1 DEF ProjectSource, States
  <2>2. CASE ~(SourceStub < s.sizes[i])
    BY <1>1, <2>2 DEF ProjectSource
  <2> QED BY <2>1, <2>2
<1>3. Least(round[i]) <= round[i].size
  BY <1>1
<1> HIDE DEF t
<1> QED BY <1>1, <1>2, <1>3, ProjectKeeps DEF t

LEMMA ProjectOutputKeeps ==
  ASSUME NEW n \in Nat, NEW round \in [1..n -> ToolResults], NEW s, NEW done \in SUBSET (1..n),
         NEW i \in (1..n) \ done, AdmitInv(round, s, n, done), ~RoundFits(s),
         round[i].kind # "source"
  PROVE  AdmitInv(round, ProjectOutput(round, s, i), n, done \cup {i})
<1> DEFINE t == ProjectOutput(round, s, i)
           shrunk == IF round[i].kind # "stored" /\ Preview < s.sizes[i] THEN Preview ELSE Stub
<1>1. /\ s \in States(n) /\ s.sizes[i] = round[i].size /\ i \notin s.previews
  BY DEF AdmitInv
<1>2. round[i] \in ToolResults /\ Stub \in Nat /\ Preview \in Nat
  BY AdmissionAssumption
<1>3. /\ round[i].size \in Nat /\ round[i].kept \in BOOLEAN
      /\ round[i].kind = "foreign" \/ ~round[i].kept => Least(round[i]) = round[i].size
      /\ round[i].kind # "foreign" /\ round[i].kept =>
           Least(round[i]) = IF Stub < round[i].size THEN Stub ELSE round[i].size
  <2>1. round[i].kept \in BOOLEAN
    BY <1>2 DEF ToolResults
  <2> QED BY <1>2, <2>1, LeastOf
<1>4. CASE round[i].kind = "foreign" \/ ~round[i].kept \/ Stub >= s.sizes[i]
  <2>1. t = s
    BY <1>4 DEF ProjectOutput
  <2>2. Least(round[i]) = round[i].size
    BY <1>1, <1>2, <1>3, <1>4
  <2>3. round[i].size <= round[i].size
    BY <1>3
  <2> HIDE DEF t
  <2> QED BY <1>1, <2>1, <2>2, <2>3, ProjectKeeps DEF t
<1>5. CASE ~(round[i].kind = "foreign" \/ ~round[i].kept \/ Stub >= s.sizes[i])
  <2>1. t = [s EXCEPT !.sizes[i] = shrunk, !.previews = @ \cup {i}]
    BY <1>5 DEF ProjectOutput
  <2>2. shrunk \in Nat /\ shrunk <= round[i].size
    BY <1>1, <1>2, <1>3, <1>5
  <2> HIDE DEF t, shrunk
  <2>3. /\ t \in States(n) /\ t.sources = s.sources /\ t.previews = s.previews \cup {i}
        /\ \A j \in 1..n : j # i => t.sizes[j] = s.sizes[j]
        /\ t.sizes[i] = shrunk
    BY <1>1, <2>1, <2>2 DEF States
  <2>4. Least(round[i]) = Stub /\ Stub # round[i].size
    BY <1>1, <1>2, <1>3, <1>5
  <2> QED BY <1>1, <2>2, <2>3, <2>4, ProjectKeeps DEF t
<1> QED BY <1>4, <1>5

\* The loop takes up one more result.
LEMMA ShapeStep ==
  ASSUME NEW n \in Nat, NEW round \in [1..n -> ToolResults], NEW s, NEW done \in SUBSET (1..n),
         NEW i \in (1..n) \ done, AdmitInv(round, s, n, done),
         round[i].kind = "source" => \A j \in 1..n : IsOutput(round[j]) => j \in done
  PROVE  AdmitInv(round, Shape(round, s, i), n, done \cup {i})
<1> DEFINE m == MinimizePersistedPreviews(round, s)
           first == round[i].kind = "source" /\ ~s.sources
           ready == IF first THEN [m EXCEPT !.sources = TRUE] ELSE s
           t == Shape(round, s, i)
<1>1. t = IF RoundFits(s) THEN s ELSE IF RoundFits(ready) THEN ready
          ELSE IF round[i].kind = "source" THEN ProjectSource(ready, i)
          ELSE ProjectOutput(round, ready, i)
  BY DEF Shape
<1>2. ASSUME NEW r, AdmitInv(round, r, n, done), RoundFits(r)
      PROVE  AdmitInv(round, r, n, done \cup {i})
  BY <1>2 DEF AdmitInv
<1>3. CASE RoundFits(s)
  <2> HIDE DEF t, ready
  <2> QED BY <1>1, <1>2, <1>3 DEF t
<1>4. CASE ~RoundFits(s)
  <2>1. /\ AdmitInv(round, ready, n, done)
        /\ round[i].kind = "source" => RoundFits(ready) \/ OutputsAtLeast(round, ready)
    <3>1. CASE first
      <4>1. AdmitInv(round, m, n, done) /\ CutEnough(round, m, done)
        BY MinimizeKeeps
      <4>2. RoundFits(m) \/ OutputsAtLeast(round, m)
        BY <3>1, <4>1 DEF OutputsAtLeast, CutEnough
      <4>3. /\ ready \in States(n) /\ ready.sizes = m.sizes /\ ready.previews = m.previews
            /\ ready.sources = TRUE
        <5>1. m \in States(n)
          BY <4>1 DEF AdmitInv
        <5> HIDE DEF m
        <5> QED BY <3>1, <5>1 DEF States
      <4>4. RoundFits(ready) <=> RoundFits(m)
        BY <4>3, FitsIsSizes
      <4>5. ~RoundFits(Start(round))
        BY <1>4 DEF AdmitInv
      <4> HIDE DEF ready, m
      <4>6. RoundFits(ready) \/ OutputsAtLeast(round, ready)
        BY <4>2, <4>3, <4>4 DEF OutputsAtLeast
      <4>7. SourceIsCut(round, ready) => OutputsAtLeast(round, ready)
        BY <4>1, <4>3 DEF AdmitInv, SourceIsCut, OutputsAtLeast
      <4>8. RoundFits(ready) \/ \A j \in done : AtLeastOrPreview(round, ready, j)
        BY <4>1, <4>3, <4>4 DEF AdmitInv, AtLeastOrPreview
      <4>9. /\ \A j \in 1..n : ready.sizes[j] <= round[j].size
            /\ \A j \in ready.previews :
                 j \in done /\ round[j].kind # "source" /\ Least(round[j]) = Stub
            /\ \A j \in (1..n) \ done : ready.sizes[j] = round[j].size
        BY <4>1, <4>3 DEF AdmitInv
      <4> QED BY <4>3, <4>5, <4>6, <4>7, <4>8, <4>9 DEF AdmitInv
    <3>2. CASE ~first
      <4>1. ready = s
        BY <3>2
      <4>2. round[i].kind = "source" => OutputsAtLeast(round, s)
        <5>1. round[i].kind = "source" => s.sources
          BY <3>2
        <5> QED BY <1>4, <5>1 DEF AdmitInv
      <4> HIDE DEF ready
      <4> QED BY <4>1, <4>2
    <3> HIDE DEF first
    <3> QED BY <3>1, <3>2
  <2> HIDE DEF ready, t
  <2>2. CASE RoundFits(ready)
    BY <1>1, <1>2, <1>4, <2>1, <2>2 DEF t
  <2>3. CASE ~RoundFits(ready) /\ round[i].kind = "source"
    <3>1. t = ProjectSource(ready, i)
      BY <1>1, <1>4, <2>3
    <3> QED BY <2>1, <2>3, <3>1, ProjectSourceKeeps DEF t
  <2>4. CASE ~RoundFits(ready) /\ round[i].kind # "source"
    <3>1. t = ProjectOutput(round, ready, i)
      BY <1>1, <1>4, <2>4
    <3> QED BY <2>1, <2>4, <3>1, ProjectOutputKeeps DEF t
  <2> QED BY <2>2, <2>3, <2>4
<1> QED BY <1>3, <1>4

LEMMA ShapeTyped ==
  ASSUME NEW n \in Nat, NEW round \in [1..n -> ToolResults], NEW s \in States(n), NEW i \in 1..n
  PROVE  Shape(round, s, i) \in States(n)
<1> DEFINE m == MinimizePersistedPreviews(round, s)
           ready == IF round[i].kind = "source" /\ ~s.sources
                    THEN [m EXCEPT !.sources = TRUE] ELSE s
<1>1. Stub \in Nat /\ SourceStub \in Nat /\ Preview \in Nat
  BY AdmissionAssumption
<1>2. m \in States(n)
  BY Minimized DEF MinimizedBy
<1>3. ready \in States(n)
  <2> HIDE DEF m
  <2> QED BY <1>2 DEF States
<1> HIDE DEF ready
<1>4. ProjectSource(ready, i) \in States(n)
  BY <1>1, <1>3 DEF ProjectSource, States
<1>5. ProjectOutput(round, ready, i) \in States(n)
  <2> DEFINE shrunk == IF round[i].kind # "stored" /\ Preview < ready.sizes[i] THEN Preview ELSE Stub
  <2>1. shrunk \in Nat
    BY <1>1
  <2> HIDE DEF shrunk
  <2>2. [ready EXCEPT !.sizes[i] = shrunk, !.previews = @ \cup {i}] \in States(n)
    BY <1>3, <2>1 DEF States
  <2> QED BY <1>3, <2>2 DEF ProjectOutput, shrunk
<1> HIDE DEF m
<1> QED BY <1>3, <1>4, <1>5 DEF Shape, ready, m

LEMMA ShapeFold ==
  ASSUME NEW n \in Nat, NEW round \in [1..n -> ToolResults], NEW o \in [1..n -> 1..n],
         InOrderOf(o, BeforeIn(round, n)), \A i \in 1..n : \E j \in 1..n : o[j] = i
  PROVE  LET shape(s, i) == Shape(round, s, i)
         IN AdmitInv(round, FoldLeft(shape, Start(round), o), n, 1..n)
<1>0. /\ Orders(BeforeIn(round, n), 1..n)
      /\ \A i, j \in 1..n :
           round[i].kind = "source" /\ IsOutput(round[j]) => <<i, j>> \notin BeforeIn(round, n)
  BY BeforeOrders
<1> DEFINE V == States(n)
           start == Start(round)
           shape(s, i) == Shape(round, s, i)
           F == [k \in 1..n |-> [v \in V |-> Shape(round, v, o[k])]]
           Folds(h) == h = [t \in SUBSET (1..n) |->
                              IF t = {} THEN start ELSE Shape(round, h[t \ {Max(t)}], o[Max(t)])]
           f == CHOOSE h : Folds(h)
<1>1. FoldLeft(shape, start, o) = f[1..n]
  BY DEF FoldLeft, MapThenFoldSet
<1>2. F \in [1..n -> [V -> V]] /\ \A k \in 1..n, v \in V : F[k][v] = Shape(round, v, o[k])
  BY ShapeTyped
<1>3. AdmitInv(round, start, n, {}) /\ start \in V
  BY StartInv DEF AdmitInv
<1> HIDE DEF F, V, start
<1>4. ASSUME NEW t \in SUBSET (1..n), t # {}
      PROVE  Max(t) \in 1..n /\ t \ {Max(t)} \in SUBSET (1..n)
  BY <1>4, MaxOf
<1>5. Folds(f)
  <2>1. PICK h \in [SUBSET (1..n) -> V] : FoldsOver(h, n, start, F)
    BY <1>2, <1>3, Folding
  <2>2. Folds(h)
    <3>1. ASSUME NEW t \in SUBSET (1..n)
          PROVE  h[t] = IF t = {} THEN start ELSE Shape(round, h[t \ {Max(t)}], o[Max(t)])
      BY <1>2, <1>4, <2>1 DEF FoldsOver
    <3> QED BY <2>1, <3>1
  <2> HIDE DEF Folds
  <2> QED BY <2>2
<1> HIDE DEF f
<1>6. FoldsWithin(f, n, V, start, F)
  <2>1. f[{}] = start
    BY <1>5
  <2>2. ASSUME NEW t \in SUBSET (1..n), t # {}, f[t \ {Max(t)}] \in V
        PROVE  f[t] = F[Max(t)][f[t \ {Max(t)}]]
    <3>1. f[t] = Shape(round, f[t \ {Max(t)}], o[Max(t)])
      BY <1>5, <2>2
    <3> QED BY <1>2, <1>4, <2>2, <3>1
  <2> HIDE DEF Folds
  <2> QED BY <2>1, <2>2 DEF FoldsWithin
<1> HIDE DEF Folds
<1>7. PICK g \in [0..n -> V] : g[n] = f[1..n] /\ StepsBy(g, n, start, F)
  BY <1>2, <1>3, <1>6, FoldRuns
<1> DEFINE S == {k \in 0..n : AdmitInv(round, g[k], n, {o[j] : j \in 1..k})}
<1>8. 0 \in S
  <2>1. g[0] = start /\ 1..0 = {} /\ 0 \in 0..n
    BY <1>7 DEF StepsBy
  <2>2. {o[j] : j \in 1..0} = {}
    BY <2>1
  <2> QED BY <1>3, <2>1, <2>2
<1>9. ASSUME NEW k \in 1..n, k - 1 \in S PROVE k \in S
  <2>1. k - 1 \in 0..n /\ k \in 0..n /\ k \in Nat
    BY Intervals
  <2>2. g[k] = Shape(round, g[k - 1], o[k])
    BY <1>2, <1>7, <2>1 DEF StepsBy
  <2> DEFINE done == {o[j] : j \in 1..(k - 1)}
  <2>3. AdmitInv(round, g[k - 1], n, done)
    BY <1>9
  <2>4. \A j \in 1..(k - 1) : j \in 1..n /\ j < k
    BY <2>1
  <2>5. done \in SUBSET (1..n)
    BY <2>4
  <2>6. o[k] \in (1..n) \ done
    <3>1. \A j \in 1..(k - 1) : o[j] # o[k]
      BY <1>0, <2>4 DEF InOrderOf, Orders
    <3> QED BY <3>1
  <2>7. round[o[k]].kind = "source" => \A i \in 1..n : IsOutput(round[i]) => i \in done
    <3> SUFFICES ASSUME round[o[k]].kind = "source", NEW i \in 1..n, IsOutput(round[i])
                 PROVE  i \in done
      OBVIOUS
    <3>1. PICK j \in 1..n : o[j] = i
      OBVIOUS
    <3>2. ~(k < j)
      <4>1. <<o[k], o[j]>> \notin BeforeIn(round, n)
        BY <1>0, <3>1
      <4> QED BY <4>1 DEF InOrderOf
    <3>3. j # k
      BY <3>1 DEF IsOutput
    <3>4. j \in 1..(k - 1)
      BY <2>1, <3>2, <3>3
    <3> QED BY <3>1, <3>4
  <2>8. {o[j] : j \in 1..k} = done \cup {o[k]}
    <3>1. 1..k = (1..(k - 1)) \cup {k}
      BY <2>1
    <3> QED BY <3>1
  <2> HIDE DEF done
  <2>9. AdmitInv(round, g[k], n, done \cup {o[k]})
    <3>1. ASSUME NEW s, s = g[k - 1]
          PROVE  AdmitInv(round, Shape(round, s, o[k]), n, done \cup {o[k]})
      <4>1. AdmitInv(round, s, n, done)
        BY <2>3, <3>1
      <4> QED BY <2>5, <2>6, <2>7, <4>1, ShapeStep
    <3> QED BY <2>2, <3>1
  <2> QED BY <2>1, <2>8, <2>9
<1>10. n \in S
  <2>1. n \in 0..n
    OBVIOUS
  <2> HIDE DEF S
  <2>2. \A k \in 1..n : k - 1 \in S => k \in S
    BY <1>9
  <2>3. 0..n \subseteq S
    BY <1>8, <2>2, Upwards
  <2> QED BY <2>1, <2>3
<1>11. {o[j] : j \in 1..n} = 1..n
  OBVIOUS
<1>12. AdmitInv(round, g[n], n, 1..n)
  BY <1>10, <1>11
<1> HIDE DEF S, shape
<1> QED BY <1>1, <1>7, <1>12 DEF shape, start

\* What becomes of a round.
LEMMA ShapedIs ==
  ASSUME NEW n \in Nat, NEW round \in [1..n -> ToolResults]
  PROVE  AdmitInv(round, Shaped(round), n, 1..n) /\ CutEnough(round, Shaped(round), 1..n)
<1> DEFINE before(i, j) == Before(round, i, j)
           shape(s, i) == Shape(round, s, i)
           R == BeforeIn(round, n)
           o == InOrder(1..n, before)
           s == FoldLeft(shape, Start(round), o)
<1>1. IsFiniteSet(1..n) /\ Cardinality(1..n) = n
  BY FS_Interval
<1>2. Orders(R, 1..n) /\ \A i, j \in 1..n : <<i, j>> \in R <=> before(i, j)
  BY BeforeOrders
<1> HIDE DEF R
<1>3. o \in [1..n -> 1..n] /\ InOrderOf(o, R)
  <2>1. PICK v \in [1..n -> 1..n] : InOrderOf(v, R)
    <3>1. \E w \in [1..Cardinality(1..n) -> 1..n] : InOrderOf(w, R)
      BY <1>1, <1>2, OrderExists
    <3> QED BY <1>1, <3>1
  <2>2. ASSUME NEW w \in [1..n -> 1..n]
        PROVE  InOrderOf(w, R) <=> \A i, j \in DOMAIN w : i < j => before(w[i], w[j])
    <3>1. \A i \in DOMAIN w : w[i] \in 1..n
      OBVIOUS
    <3> HIDE DEF before
    <3> QED BY <1>2, <3>1 DEF InOrderOf
  <2>3. o = CHOOSE w \in [1..n -> 1..n] : \A i, j \in DOMAIN w : i < j => before(w[i], w[j])
    BY <1>1 DEF InOrder
  <2> HIDE DEF before, o
  <2> QED BY <2>1, <2>2, <2>3
<1>4. \A i \in 1..n : \E j \in 1..n : o[j] = i
  <2> HIDE DEF o
  <2>1. o \in [1..Cardinality(1..n) -> 1..n]
    BY <1>1, <1>3
  <2>2. ASSUME NEW D, D = 1..n
        PROVE  \A i \in D : \E j \in 1..Cardinality(D) : o[j] = i
    <3>1. IsFiniteSet(D) /\ Orders(R, D) /\ o \in [1..Cardinality(D) -> D]
      BY <1>1, <1>2, <2>1, <2>2
    <3> QED BY <1>3, <3>1, OrderedIsAll
  <2> QED BY <1>1, <2>2
<1>5. Shaped(round) = IF RoundFits(s) THEN s ELSE MinimizePersistedPreviews(round, s)
  <2>1. DOMAIN round = 1..n
    OBVIOUS
  <2> QED BY <2>1 DEF Shaped
<1> HIDE DEF o
<1>6. AdmitInv(round, s, n, 1..n)
  BY <1>3, <1>4, ShapeFold DEF R
<1> HIDE DEF s
<1>7. CASE RoundFits(s)
  BY <1>5, <1>6, <1>7 DEF CutEnough
<1>8. CASE ~RoundFits(s)
  <2>1. Shaped(round) = MinimizePersistedPreviews(round, s)
    BY <1>5, <1>8
  <2>2. 1..n \in SUBSET (1..n)
    OBVIOUS
  <2> QED BY <1>6, <2>1, <2>2, MinimizeKeeps
<1> QED BY <1>7, <1>8

\* The sizes of an admitted round are numbers, as is their sum.
LEMMA AdmittedTotal ==
  ASSUME NEW round \in Rounds
  PROVE  Total(AdmitToolResults(round).sizes) \in Nat
<1>1. PICK n \in 1..MaxResults : round \in [1..n -> ToolResults]
  BY DEF Rounds
<1>2. n \in Nat
  BY AdmissionAssumption
<1>3. Shaped(round) \in States(n)
  BY <1>1, <1>2, ShapedIs DEF AdmitInv
<1>4. AdmitToolResults(round).sizes = Shaped(round).sizes
  BY DEF AdmitToolResults
<1>5. Shaped(round).sizes \in [1..n -> Nat]
  BY <1>3 DEF States
<1> QED BY <1>2, <1>4, <1>5, TotalIsNumber

LEMMA EveryRoundIsCutWell ==
  ASSUME NEW round \in Rounds
  PROVE  LET a == AdmitToolResults(round)
         IN /\ ~a.admitted => Total([i \in DOMAIN round |-> Least(round[i])]) > RoundLimit
            /\ (\E i \in DOMAIN round : round[i].kind = "source" /\ a.sizes[i] # round[i].size) =>
                  \A i \in DOMAIN round : IsOutput(round[i]) => a.sizes[i] = Least(round[i])
            /\ \A i \in DOMAIN round : a.sizes[i] <= round[i].size
            /\ Total(SizesOf(round)) <= RoundLimit => a.sizes = SizesOf(round)
<1> DEFINE a == AdmitToolResults(round)
           s == Shaped(round)
<1>1. PICK n \in 1..MaxResults : round \in [1..n -> ToolResults]
  BY DEF Rounds
<1>2. n \in Nat /\ DOMAIN round = 1..n /\ RoundLimit \in Nat
  BY <1>1, AdmissionAssumption
<1>3. AdmitInv(round, s, n, 1..n) /\ CutEnough(round, s, 1..n)
  BY <1>1, <1>2, ShapedIs
<1>4. a.sizes = s.sizes /\ a.admitted = RoundFits(s)
  BY DEF AdmitToolResults
<1> HIDE DEF a, s
<1>5. s.sizes \in [1..n -> Nat]
  BY <1>3 DEF AdmitInv, States
<1>6. ASSUME ~a.admitted
      PROVE  Total([i \in DOMAIN round |-> Least(round[i])]) > RoundLimit
  <2>1. s.sizes = [i \in DOMAIN round |-> Least(round[i])]
    BY <1>2, <1>3, <1>4, <1>5, <1>6 DEF CutEnough
  <2>2. Total(s.sizes) \in Nat
    BY <1>2, <1>5, TotalIsNumber
  <2>3. ~(Total(s.sizes) <= RoundLimit)
    BY <1>4, <1>6 DEF RoundFits
  <2> HIDE DEF AdmissionAssumption
  <2>4. Total(s.sizes) > RoundLimit
    BY <1>2, <2>2, <2>3
  <2> QED BY <2>1, <2>4
<1>7. SourceIsCut(round, s) => OutputsAtLeast(round, s)
  BY <1>3 DEF AdmitInv
<1>8. \A i \in DOMAIN round : a.sizes[i] <= round[i].size
  BY <1>2, <1>3, <1>4 DEF AdmitInv
<1>9. ASSUME Total(SizesOf(round)) <= RoundLimit
      PROVE  a.sizes = SizesOf(round)
  <2>1. Start(round).sizes = SizesOf(round)
    BY DEF Start
  <2>2. s = Start(round)
    BY <1>3, <1>9, <2>1 DEF AdmitInv, RoundFits
  <2> QED BY <1>4, <2>1, <2>2
<1> QED BY <1>4, <1>6, <1>7, <1>8, <1>9 DEF SourceIsCut, OutputsAtLeast, a

\* For every round there can be: it is refused only if the results at their
\* least are too large, sources give way last, and nothing is cut needlessly.
LEMMA RoundsAreRight == RefusesOnlyIfItMust /\ CutsSourcesLast /\ CutsNothingNeedlessly
<1>1. RefusesOnlyIfItMust
  BY EveryRoundIsCutWell DEF RefusesOnlyIfItMust
<1>2. CutsSourcesLast
  BY EveryRoundIsCutWell DEF CutsSourcesLast, IsOutput
<1>3. CutsNothingNeedlessly
  BY EveryRoundIsCutWell DEF CutsNothingNeedlessly
<1> QED BY <1>1, <1>2, <1>3

-----------------------------------------------------------------------------
(* The size of a request.                                                  *)

\* All that is measured is a number.
UsageTyped ==
  usage = None \/ usage \in [input : Nat, index : Nat, generation : Nat, local : Nat]

\* Not in SentIsSmallEnough: that a request may only get smaller until it is
\* sent again, and that the failure of an automatic rebase is remembered.
SizeInv ==
  /\ UsageTyped
  /\ pc = "call" => Pressure < HardLimit
  /\ pc \in {"prepare", "call"} /\ overflowed # None =>
       overflowed \in Nat /\ Tokens(messages) < overflowed
  /\ refused \in 0..1 /\ (failedGeneration # generation => refused = 0)

LEMMA SizesAreNumbers == MessageSizes \subseteq Nat
<1> SUFFICES ASSUME NEW size \in MessageSizes PROVE size \in Nat
  OBVIOUS
<1>1. ASSUME NEW round \in ToolRounds PROVE Total(AdmitToolResults(round).sizes) \in Nat
  BY LimitsAssumption, AdmittedTotal
<1>2. Sizes \subseteq Nat
  BY LimitsAssumption
<1> QED BY <1>1, <1>2 DEF MessageSizes

LEMMA TokensAreNumber ==
  ASSUME NEW ms \in Seq(Messages)
  PROVE  Tokens(ms) \in Nat
<1> DEFINE n == Len(ms)
           F == [k \in 1..n |-> [v \in Nat |-> v + ms[k].toks]]
           Folds(h) == h = [t \in SUBSET (1..n) |->
                              IF t = {} THEN 0 ELSE h[t \ {Max(t)}] + ms[Max(t)].toks]
           f == CHOOSE h : Folds(h)
<1>0. n \in Nat /\ DOMAIN ms = 1..n
  OBVIOUS
<1>1. Tokens(ms) = f[1..n]
  BY <1>0 DEF Tokens, FoldLeft, MapThenFoldSet
<1>2. F \in [1..n -> [Nat -> Nat]] /\ \A k \in 1..n, v \in Nat : F[k][v] = v + ms[k].toks
  <2>1. ASSUME NEW k \in 1..n PROVE ms[k].toks \in Nat
    <3>1. ms[k] \in Messages
      BY ElementOfSeq
    <3> QED BY <3>1, SizesAreNumbers DEF Messages
  <2> QED BY <2>1
<1> HIDE DEF F, n
<1>3. ASSUME NEW t \in SUBSET (1..n), t # {}
      PROVE  Max(t) \in 1..n /\ t \ {Max(t)} \in SUBSET (1..n)
  BY <1>0, <1>3, MaxOf
<1>4. 0 \in Nat
  OBVIOUS
<1>5. Folds(f)
  <2>1. PICK h \in [SUBSET (1..n) -> Nat] : FoldsOver(h, n, 0, F)
    BY <1>0, <1>2, <1>4, Folding
  <2>2. Folds(h)
    <3>1. ASSUME NEW t \in SUBSET (1..n)
          PROVE  h[t] = IF t = {} THEN 0 ELSE h[t \ {Max(t)}] + ms[Max(t)].toks
      BY <1>2, <1>3, <2>1 DEF FoldsOver
    <3> QED BY <2>1, <3>1
  <2> HIDE DEF Folds
  <2> QED BY <2>2
<1> HIDE DEF f
<1>6. FoldsWithin(f, n, Nat, 0, F)
  <2>1. f[{}] = 0
    BY <1>5
  <2>2. ASSUME NEW t \in SUBSET (1..n), t # {}, f[t \ {Max(t)}] \in Nat
        PROVE  f[t] = F[Max(t)][f[t \ {Max(t)}]]
    <3>1. f[t] = f[t \ {Max(t)}] + ms[Max(t)].toks
      BY <1>5, <2>2
    <3> QED BY <1>2, <1>3, <2>2, <3>1
  <2> HIDE DEF Folds
  <2> QED BY <2>1, <2>2 DEF FoldsWithin
<1> HIDE DEF Folds
<1>7. PICK g \in [0..n -> Nat] : g[n] = f[1..n] /\ StepsBy(g, n, 0, F)
  BY <1>0, <1>2, <1>4, <1>6, FoldRuns
<1>8. n \in 0..n
  BY <1>0
<1> QED BY <1>1, <1>7, <1>8

LEMMA PressureIsNumber ==
  ASSUME HistoryInv, UsageTyped
  PROVE  Tokens(messages) \in Nat /\ Pressure \in Nat
<1>1. messages \in Seq(Messages) /\ Len(messages) \in Nat
  BY DEF HistoryInv, Typed
<1>2. Tokens(messages) \in Nat
  BY <1>1, TokensAreNumber
<1>3. ASSUME NEW i \in Nat, i <= Len(messages)
      PROVE  Tokens(SubSeq(messages, i + 1, Len(messages))) \in Nat
  <2>1. \A j \in (i + 1)..Len(messages) : messages[j] \in Messages
    <3>1. \A j \in (i + 1)..Len(messages) : j \in 1..Len(messages)
      BY <1>1
    <3> QED BY <1>1, <3>1, ElementOfSeq
  <2>2. SubSeq(messages, i + 1, Len(messages)) \in Seq(Messages)
    <3>1. i + 1 \in Int /\ Len(messages) \in Int
      BY <1>1
    <3> QED BY <2>1, <3>1, SubSeqProperties
  <2> QED BY <2>2, TokensAreNumber
<1>4. Anchor \in Nat
  <2>1. CASE usage = None \/ usage.generation # generation \/ usage.index > Len(messages)
    BY <2>1 DEF Anchor
  <2>2. CASE ~(usage = None \/ usage.generation # generation \/ usage.index > Len(messages))
    <3>1. usage.input \in Nat /\ usage.index \in Nat /\ usage.local \in Nat
      BY <2>2 DEF UsageTyped
    <3>2. Tokens(SubSeq(messages, usage.index + 1, Len(messages))) \in Nat
      BY <1>1, <1>3, <2>2, <3>1
    <3> QED BY <1>2, <2>2, <3>1, <3>2 DEF Anchor, Larger, Smaller
  <2> QED BY <2>1, <2>2
<1> QED BY <1>2, <1>4 DEF Pressure, Larger

\* After a rebase nothing is known of the request but its estimate, and that is
\* below the limit.
LEMMA RebaseFits ==
  ASSUME HistoryInv, Rebases
  PROVE  /\ usage' = None /\ refused' = 0 /\ (Pressure < HardLimit)'
         /\ Tokens(messages)' \in Nat /\ Tokens(messages)' < Tokens(messages)
<1>1. usage' = None /\ Tokens(messages)' < HardLimit
  BY DEF Rebases, SemanticRebase, EmergencyRebase, Commit, Acceptable, MarkContextChanged
<1>2. messages' \in Seq(Messages) /\ refused' = 0 /\ Tokens(messages)' < Tokens(messages)
  BY RebaseStep DEF Rebases
<1>3. Tokens(messages)' \in Nat
  BY <1>2, TokensAreNumber
<1>4. Pressure' = Larger(Tokens(messages)', 0)
  BY <1>1 DEF Pressure, Anchor
<1> QED BY <1>1, <1>2, <1>3, <1>4 DEF Larger

LEMMA UsageKept == HistoryInv /\ UsageTyped /\ [Next]_vars => UsageTyped'
<1> SUFFICES ASSUME HistoryInv, UsageTyped, [Next]_vars PROVE UsageTyped'
  OBVIOUS
<1>1. /\ Len(messages) \in Nat /\ generation \in Nat /\ Tokens(messages) \in Nat
      /\ Inputs \subseteq Nat
  <2>1. Len(messages) \in Nat /\ generation \in Nat
    BY EmptySeq DEF HistoryInv, Typed
  <2> QED BY <2>1, PressureIsNumber, LimitsAssumption
<1>2. \A input \in Inputs :
        [input |-> input, index |-> Len(messages) + 1, generation |-> generation,
         local |-> Tokens(messages)] \in [input : Nat, index : Nat, generation : Nat, local : Nat]
  BY <1>1
<1>3. ASSUME RecordModelUsage PROVE UsageTyped'
  BY <1>2, <1>3 DEF RecordModelUsage, UsageTyped
<1>4. CASE AnswerWithoutTools \/ AdmitToolRound
  BY <1>3, <1>4 DEF AnswerWithoutTools, AdmitToolRound
<1>5. CASE AbortBetweenMessages
  BY <1>2, <1>5 DEF AbortBetweenMessages, UsageTyped
<1>6. CASE PrepareRebase \/ RecoverFromOverflow
  BY <1>6, RebaseFits DEF PrepareRebase, RecoverFromOverflow, Rebases, UsageTyped
<1>7. CASE StartTask \/ ContinueTask
  BY <1>7 DEF StartTask, ContinueTask, UsageTyped
<1>8. CASE CancelTask \/ StopForModelCallLimit \/ PrepareNothing \/ RebaseFails
           \/ StopForContextPressure \/ StopForContextOverflow \/ StartToolBatch
           \/ ExecuteTool \/ RefuseToolRound \/ Abort
  BY <1>8 DEF CancelTask, StopForModelCallLimit, PrepareNothing, RebaseFails,
              StopForContextPressure, StopForContextOverflow, StartToolBatch, ExecuteTool,
              RefuseToolRound, Abort, window, UsageTyped
<1>9. CASE UNCHANGED vars
  BY <1>9 DEF vars, window, UsageTyped
<1> QED BY <1>4, <1>5, <1>6, <1>7, <1>8, <1>9 DEF Next

\* A request goes out only where the pressure has been measured, or after a
\* rebase.
LEMMA SentFitsKept ==
  ASSUME HistoryInv, SizeInv, [Next]_vars
  PROVE  (pc = "call" => Pressure < HardLimit)'
<1>1. Pressure \in Nat /\ HardLimit \in Nat /\ AutoTrigger \in Nat /\ AutoTrigger <= HardLimit
  BY PressureIsNumber, LimitsAssumption DEF SizeInv
<1>2. ASSUME UNCHANGED window PROVE Pressure' = Pressure
  BY <1>2 DEF window, Pressure, Anchor
<1>3. CASE PrepareNothing \/ RebaseFails
  <2>1. Pressure < AutoTrigger \/ AutoPressure
    BY <1>3 DEF PrepareNothing, RebaseFails
  <2>2. Pressure < HardLimit
    BY <1>1, <2>1 DEF AutoPressure, HardPressure
  <2>3. UNCHANGED window
    BY <1>3 DEF PrepareNothing, RebaseFails
  <2> QED BY <1>2, <2>2, <2>3
<1>4. CASE PrepareRebase
  BY <1>4, RebaseFits DEF PrepareRebase, Rebases
<1>5. CASE UNCHANGED vars
  BY <1>2, <1>5 DEF vars, SizeInv
<1>6. CASE ExecuteTool
  BY <1>6 DEF ExecuteTool
<1>7. CASE \/ StartTask \/ ContinueTask \/ CancelTask \/ StopForModelCallLimit
           \/ StopForContextPressure \/ RecoverFromOverflow \/ StopForContextOverflow
           \/ AnswerWithoutTools \/ StartToolBatch \/ AdmitToolRound \/ RefuseToolRound
           \/ Abort \/ AbortBetweenMessages
  BY <1>7 DEF StartTask, ContinueTask, CancelTask, StopForModelCallLimit,
              StopForContextPressure, RecoverFromOverflow, StopForContextOverflow,
              AnswerWithoutTools, StartToolBatch, AdmitToolRound, RefuseToolRound,
              Abort, AbortBetweenMessages, Leave
<1> QED BY <1>3, <1>4, <1>5, <1>6, <1>7 DEF Next

\* A request that was too large is smaller before it is prepared again, and no
\* larger when it is sent.
LEMMA RetryKept ==
  ASSUME HistoryInv, SizeInv, [Next]_vars
  PROVE  (pc \in {"prepare", "call"} /\ overflowed # None =>
            overflowed \in Nat /\ Tokens(messages) < overflowed)'
<1>1. Tokens(messages) \in Nat
  BY PressureIsNumber DEF SizeInv
<1>2. CASE RecoverFromOverflow
  BY <1>1, <1>2, RebaseFits DEF RecoverFromOverflow, Rebases
<1>3. CASE PrepareRebase
  <2>1. pc = "prepare" /\ overflowed' = overflowed
    BY <1>3 DEF PrepareRebase
  <2>2. Tokens(messages)' \in Nat /\ Tokens(messages)' < Tokens(messages)
    BY <1>3, RebaseFits DEF PrepareRebase, Rebases
  <2> QED BY <1>1, <2>1, <2>2 DEF SizeInv
<1>4. CASE PrepareNothing \/ RebaseFails
  BY <1>4 DEF PrepareNothing, RebaseFails, ghosts, window, SizeInv
<1>5. CASE UNCHANGED vars
  BY <1>5 DEF vars, ghosts, window, SizeInv
<1>6. CASE ExecuteTool \/ StartToolBatch
  BY <1>6 DEF ExecuteTool, StartToolBatch
<1>7. CASE \/ StartTask \/ ContinueTask \/ CancelTask \/ StopForModelCallLimit
           \/ StopForContextPressure \/ StopForContextOverflow
           \/ AnswerWithoutTools \/ AdmitToolRound \/ RefuseToolRound
           \/ Abort \/ AbortBetweenMessages
  BY <1>7 DEF StartTask, ContinueTask, CancelTask, StopForModelCallLimit,
              StopForContextPressure, StopForContextOverflow, AnswerWithoutTools,
              AdmitToolRound, RefuseToolRound, Abort, AbortBetweenMessages, Leave
<1> QED BY <1>2, <1>3, <1>4, <1>5, <1>6, <1>7 DEF Next

\* The generation in which an automatic rebase failed is kept until another
\* begins.
LEMMA RefusedKept ==
  ASSUME HistoryInv, SizeInv, [Next]_vars
  PROVE  (refused \in 0..1 /\ (failedGeneration # generation => refused = 0))'
<1>1. refused \in 0..1 /\ (failedGeneration # generation => refused = 0)
  BY DEF SizeInv
<1>2. CASE RebaseFails
  BY <1>1, <1>2 DEF RebaseFails, window
<1>3. CASE PrepareRebase \/ RecoverFromOverflow
  BY <1>3, RebaseFits DEF PrepareRebase, RecoverFromOverflow, Rebases
<1>4. CASE StartTask \/ ContinueTask \/ AnswerWithoutTools \/ AdmitToolRound \/ AbortBetweenMessages
  BY <1>1, <1>4 DEF StartTask, ContinueTask, AnswerWithoutTools, AdmitToolRound,
                    AbortBetweenMessages, AddMessages
<1>5. CASE CancelTask \/ StopForModelCallLimit \/ PrepareNothing \/ StopForContextPressure
           \/ StopForContextOverflow \/ StartToolBatch \/ ExecuteTool \/ RefuseToolRound \/ Abort
  BY <1>1, <1>5 DEF CancelTask, StopForModelCallLimit, PrepareNothing, StopForContextPressure,
                    StopForContextOverflow, StartToolBatch, ExecuteTool, RefuseToolRound, Abort,
                    window, ghosts
<1>6. CASE UNCHANGED vars
  BY <1>1, <1>6 DEF vars, window, ghosts
<1> QED BY <1>2, <1>3, <1>4, <1>5, <1>6 DEF Next

LEMMA AlwaysSized == Spec => []SizeInv
<1>1. Init => SizeInv
  BY DEF Init, SizeInv, UsageTyped
<1>2. HistoryInv /\ SizeInv /\ [Next]_vars => SizeInv'
  BY UsageKept, SentFitsKept, RetryKept, RefusedKept DEF SizeInv
<1> QED BY <1>1, <1>2, Always, PTL DEF Spec

-----------------------------------------------------------------------------
(* What the runs check.                                                    *)

\* The windows that the history tools list are the ones the items are in: no
\* other window has an ordinal of theirs.
LEMMA WindowsOfItems ==
  ASSUME HistoryInv
  PROVE  ItemsAreInTheirWindow
<1> SUFFICES ASSUME NEW o \in 0..(Len(audit) - 1)
             PROVE  HistoryWindows(o) = {audit[o + 1].epoch}
  BY DEF ItemsAreInTheirWindow
<1> DEFINE e == audit[o + 1].epoch
           l == Len(starts)
<1>1. /\ l \in Nat \ {0} /\ generation = l - 1 /\ DOMAIN starts = 1..l
      /\ Len(audit) \in Nat
      /\ \A g \in 1..l : starts[g] \in Nat
  BY EmptySeq, ElementOfSeq, LenProperties DEF HistoryInv, Typed
<1>2. e \in 0..(l - 1) /\ starts[e + 1] <= o /\ o < WindowEnd(e)
  BY <1>1 DEF HistoryInv, InWindow
<1>3. \A g, h \in 1..l : g <= h => starts[g] <= starts[h]
  BY <1>1 DEF HistoryInv, WindowsFollow
<1> HIDE DEF e
<1>4. ASSUME NEW g \in 0..(l - 1), NEW h \in 0..(l - 1), g < h, o < WindowEnd(g)
      PROVE  ~(starts[h + 1] <= o)
  <2>1. g + 1 < l /\ g + 2 \in 1..l /\ h + 1 \in 1..l /\ g + 2 <= h + 1
    BY <1>1, <1>4
  <2>2. o < starts[g + 2]
    BY <1>4, <2>1 DEF WindowEnd
  <2>3. starts[g + 2] <= starts[h + 1]
    BY <1>3, <2>1
  <2>4. starts[g + 2] \in Nat /\ starts[h + 1] \in Nat
    BY <1>1, <2>1
  <2> QED BY <2>2, <2>3, <2>4
<1>5. ASSUME NEW g \in 0..(l - 1), starts[g + 1] <= o, o < WindowEnd(g)
      PROVE  g = e
  <2>1. g < e \/ g = e \/ e < g
    BY <1>1, <1>2
  <2> QED BY <1>2, <1>4, <1>5, <2>1
<1> QED BY <1>2, <1>5 DEF HistoryWindows, e

\* Whatever was ever appended is found again, for all limits, sizes and
\* numbers of rebases: HistoryIsWhole.
THEOREM HistoryStaysWhole == Spec => []HistoryIsWhole
<1>1. HistoryInv => TypeOK
  BY DEF HistoryInv, Typed, InHistory, TypeOK
<1>2. HistoryInv => HistoryIsWhole
  BY <1>1, WindowsOfItems DEF HistoryIsWhole
<1> QED BY <1>2, Always, PTL

\* A request has the result of each call it contains, unless Ctrl+C has torn a
\* round, and of each tool that ran in the task: SentIsWhole.
THEOREM RequestsAreWhole == Spec => []SentIsWhole
<1>1. SentInv => SentIsWhole
  BY DEF SentInv, SentIsWhole, PairedUnlessTorn, RanIsReported, Reported
<1> QED BY <1>1, Always, PTL

\* The history only grows, and the conversation grows too or begins a
\* generation that is smaller: EpochIsAppendOnly.
THEOREM OnlyAppended == Spec => EpochIsAppendOnly
<1> DEFINE A == /\ IsPrefix(audit, audit')
                /\ \/ generation' = generation /\ IsPrefix(messages, messages')
                   \/ generation' = generation + 1 /\ Tokens(messages') < Tokens(messages)
<1>1. HistoryInv /\ [Next]_vars => A
  <2> SUFFICES ASSUME HistoryInv, [Next]_vars PROVE A
    OBVIOUS
  <2>1. messages \in Seq(Messages) /\ audit \in Seq(AuditItems)
    BY DEF HistoryInv, Typed
  <2>2. \A S : \A s \in Seq(S) : IsPrefix(s, s)
    BY DEF IsPrefix
  <2>3. CASE Untouched
    BY <2>1, <2>2, <2>3 DEF Untouched
  <2>4. CASE Rebases
    BY <2>1, <2>2, <2>4, RebaseStep DEF Rebases
  <2>5. CASE Appends
    <3>1. \A ids \in CallIds : <<Use(ids)>> \in Seq(Items)
      <4>1. \A ids \in CallIds : Use(ids) \in Items
        BY DEF Use, Item, Items, MessageKinds, MessageSizes
      <4> QED BY <4>1
    <3>2. PICK items \in Seq(Items) : AddMessages(items)
      BY <2>5, <3>1 DEF Appends
    <3>3. /\ messages' = messages \o Sent(items) /\ audit' = audit \o Kept(items)
          /\ Sent(items) \in Seq(Messages) /\ Kept(items) \in Seq(AuditItems)
          /\ generation' = generation
      BY <3>2, AddedTyped
    <3> QED BY <2>1, <3>3, Appended
  <2> QED BY <2>3, <2>4, <2>5, StepIsOneOf
<1>2. A => [A]_vars
  OBVIOUS
<1> HIDE DEF A
<1> QED BY <1>1, Always, PTL DEF EpochIsAppendOnly, A, Spec

\* What a rebase takes out of the conversation is in the handoff or in the
\* ranges of its checkpoint: RemovedIsCovered.
THEOREM RebaseCovers == Spec => RemovedIsCovered
<1>1. HistoryInv /\ [Next]_vars => (generation' # generation => Covered)
  <2> SUFFICES ASSUME HistoryInv, [Next]_vars, generation' # generation PROVE Covered
    OBVIOUS
  <2>1. CASE Untouched
    BY <2>1 DEF Untouched
  <2>2. CASE Rebases
    BY <2>2, RebaseStep DEF Rebases
  <2>3. CASE Appends
    BY <2>3 DEF Appends, AddMessages
  <2> QED BY <2>1, <2>2, <2>3, StepIsOneOf
<1> QED BY <1>1, Always, PTL DEF RemovedIsCovered, Covered, Spec

\* No request is known to be too large, one that was is smaller when it is sent
\* again, and a failed automatic rebase is not repeated in its generation:
\* SentIsSmallEnough.
THEOREM RequestsFit == Spec => []SentIsSmallEnough
<1>1. SizeInv => SentIsSmallEnough
  BY DEF SizeInv, SentIsSmallEnough, SentFits, RetryIsSmaller, OneAutomaticFailure
<1> QED BY <1>1, AlwaysSized, PTL

\* Whatever a batch returns is refused, cut or left alone as it should, for all
\* limits, sizes and numbers of results: RoundsAreCutWell.
THEOREM RoundsStayRight == Spec => []RoundsAreCutWell
<1>1. HistoryInv => RoundsAreCutWell
  BY RoundsAreRight DEF RoundsAreCutWell, RefusedOnlyIfItMust, SourcesGiveWayLast,
                        NothingIsCutNeedlessly
<1> QED BY <1>1, Always, PTL

=============================================================================
