-------------------------- MODULE PlaygroundProofs ---------------------------
(***************************************************************************)
(* What TLAPS proves about the playground, for every number of moves and   *)
(* pending updates and for all answers of the model: the types, that an    *)
(* answer has pieces of its own request only, that what is on the screen   *)
(* gets saved, that an idle page shows nothing pending, and that a         *)
(* finished answer has every piece that arrived.                           *)
(***************************************************************************)
EXTENDS Playground, Induction, SequenceTheorems

-----------------------------------------------------------------------------
(* The inductive invariant.                                                *)

Own(m) == m.text \in Seq(From(m.req))

\* The messages a page may hold after g requests and k moves.
Sane(g, k) ==
    {m \in Message : /\ Own(m)
                     /\ m.key \in 1 .. 2 * k + 2 /\ m.req <= g
                     /\ m.role = "user" => m.status = "none"}

\* The last message is the answer of request g and the only one of it, and its
\* editor, of the message with key k, is not open.
Answering(ms, g, k) ==
    /\ g # 0 /\ ms # <<>>
    /\ ms[Len(ms)].role = "assistant" /\ ms[Len(ms)].req = g /\ ms[Len(ms)].key # k
    /\ \A i \in DOMAIN ms : i # Len(ms) => ms[i].req < g

\* The lists of a page, which is busy or not, while message ed is edited.
Lists(g, k, b, ed) == {ms \in Seq(Sane(g, k)) : b => Answering(ms, g, ed)}

\* An update that a callback of request g left pending.
InFlight(u, g) ==
    /\ u.op \in {"append", "finish", "fail", "answer"}
    /\ u.gen = g
    /\ u.chunks \in Seq(From(g))
    /\ u.list = <<>>

\* What ran before its render is the first update, and its result is the
\* latest; the others belong to the current request.
QueueInv(v, g) ==
    /\ \A i \in DOMAIN v.queue :
         \/ v.queue[i].op = "evaluated" /\ i = 1 /\ v.queue[i].list = v.latest
         \/ InFlight(v.queue[i], g)
    /\ v.queue = <<>> \/ v.queue[1].op # "evaluated" => v.latest = v.shown

Ops == {"replace", "evaluated", "remove", "keyless", "append", "finish", "fail", "answer", "stop"}
Updates == [op : Ops, gen : Gens, list : Seq(Message), chunks : Seq(Signs), key : Nat]
Views == [shown : Seq(Message), queue : Seq(Updates), latest : Seq(Message), saving : BOOLEAN]

Open == gen # 0 /\ (source = gen \/ fetching = gen)

Flags ==
    /\ loaded \in BOOLEAN /\ timer \in BOOLEAN /\ streaming \in BOOLEAN
    /\ requesting \in BOOLEAN /\ busy \in BOOLEAN /\ hasKey \in BOOLEAN

Numbers ==
    /\ moves \in 0 .. MaxMoves /\ gen \in 0 .. moves
    /\ source \in 0 .. gen /\ fetching \in 0 .. gen
    /\ sent \in Sent

\* The buffer has pieces of one request, at most the current one.
BufferOK(b, g) ==
    /\ b \in [gen : Gens, chunks : Seq(Signs)]
    /\ b.gen \in 0 .. g /\ b.chunks \in Seq(From(b.gen))

Histories ==
    /\ ended \subseteq (Gens \X Sent)
    /\ mishaps \subseteq {"cut", "keyless", "clobbered"}

\* The request, its buffer and its flags belong together.
Links ==
    /\ source # 0 => streaming /\ requesting
    /\ fetching # 0 => requesting
    /\ source = 0 \/ fetching = 0
    /\ streaming => busy
    /\ requesting => busy
    /\ buffer.gen = gen /\ buffer.chunks # <<>> => source = gen /\ gen # 0

RequestInv == Flags /\ Numbers /\ BufferOK(buffer, gen) /\ Histories /\ Links

\* Pending updates and lists belong together.  When the page is not busy, the
\* only pending update is that of the load, before anything was shown.
PageInv(v, g, k, b, ed) ==
    /\ v \in Views
    /\ v.shown \in Lists(g, k, b, ed) /\ v.latest \in Lists(g, k, b, ed)
    /\ QueueInv(v, g)
    /\ \/ b \/ v.queue = <<>>
       \/ v.shown = <<>> /\ Len(v.queue) = 1 /\ v.queue[1].op = "evaluated"

ViewInv ==
    /\ PageInv(view, gen, moves, busy, editing)
    /\ stored \in Seq(Sane(gen, moves))
    /\ editing \in 0 .. 2 * moves + 2
    /\ ~loaded => view = Blank /\ ~busy

SavedInv == loaded /\ ~view.saving => stored = view.latest

BaseInv == RequestInv /\ ViewInv /\ SavedInv

\* f has the lists that the pending updates lead through while the request is g.
Trace(f, v, g) ==
    f[0] = v.shown /\ \A i \in 1 .. Len(v.queue) : f[i] = Run(v.queue[i], f[i - 1], g)

\* What is shown when the pending updates have run.
Outcome(v, g) == CHOOSE ms : \E f : Trace(f, v, g) /\ ms = f[Len(v.queue)]

\* No message, or no message but the last one, is pending.
Settled(ms) == \A i \in DOMAIN ms : ~Pending(ms[i])
FrontSettled(ms) == \A i \in DOMAIN ms : i < Len(ms) => ~Pending(ms[i])

\* The last message is pending exactly as long as its request is open.
Tidy(ms, open) ==
    /\ FrontSettled(ms)
    /\ open => ms # <<>> /\ Pending(ms[Len(ms)])
    /\ ~open => Settled(ms)

Tidied ==
    /\ FrontSettled(view.shown) /\ FrontSettled(view.latest) /\ FrontSettled(stored)
    /\ Tidy(Outcome(view, gen), Open)

\* An edit saved from an old render writes old states back.
Unclobbered == "clobbered" \notin mishaps

SettledInv == Unclobbered => Tidied

\* What arrived for request g is in the text or in the buffer, which are no
\* longer than that.
Full(text, g, chunks, s) ==
    /\ Len(text) + Len(chunks) <= s.signs
    /\ \A j \in DOMAIN s.words : \/ Piece(g, s.words[j]) \in SubSeqs(text)
                                 \/ Piece(g, s.words[j]) \in SubSeqs(chunks)

\* The answers of the requests in es are complete and have all their pieces.
Whole(ms, es) ==
    \A i \in DOMAIN ms, e \in es :
        ms[i].role = "assistant" /\ ms[i].req = e[1]
            => ms[i].status = "complete" /\ Full(ms[i].text, ms[i].req, <<>>, e[2])

Before(g) == {e \in ended : e[1] < g}

Counted(ms, chunks, s) == Full(ms[Len(ms)].text, ms[Len(ms)].req, chunks, s)

EndedInv == \A e \in ended : e[1] \in 1 .. gen /\ (Open => e[1] # gen)

AllWhole ==
    /\ Whole(Outcome(view, gen), ended)
    /\ Whole(view.shown, Before(gen)) /\ Whole(view.latest, Before(gen))
    /\ ~loaded => Whole(stored, ended)
    /\ source = gen /\ gen # 0 =>
         buffer.gen = gen /\ Counted(Outcome(view, gen), buffer.chunks, sent)

WholeInv == Unclobbered => AllWhole

-----------------------------------------------------------------------------
(* Texts.                                                                  *)

\* The texts of one request are texts, and so is one that comes as a whole.
LEMMA OwnTexts ==
    ASSUME NEW g \in Gens
    PROVE  /\ Seq(From(g)) \subseteq Seq(Signs) /\ <<>> \in Seq(From(g))
           /\ SomeText(g) \in Seq(From(g)) /\ SomeText(g) \in Seq(Signs)
  <1>1. \A s \in From(g) : s \in Signs
    BY DEF From, Signs
  <1>2. Seq(From(g)) \subseteq Seq(Signs)
    <2> SUFFICES ASSUME NEW t \in Seq(From(g)) PROVE t \in Seq(Signs)
      OBVIOUS
    <2>1. \A i \in 1 .. Len(t) : t[i] \in Signs
      BY <1>1
    <2> HIDE DEF From, Signs
    <2> QED BY <2>1
  <1>3. SomeText(g) \in Seq(From(g))
    <2>1. PICK c \in Letters : c = CHOOSE d \in Letters : TRUE
      BY AnswersAssumption
    <2>2. <<g, c>> \in From(g)
      BY DEF From
    <2> QED BY <2>1, <2>2 DEF SomeText
  <1> QED BY <1>2, <1>3

\* A word as request g sends it.
LEMMA PieceText ==
    ASSUME NEW g \in Gens, NEW w \in Seq(Letters)
    PROVE  /\ Piece(g, w) \in Seq(From(g)) /\ Piece(g, w) \in Seq(Signs)
           /\ Len(Piece(g, w)) = Len(w)
  <1>1. \A c \in Letters : <<g, c>> \in From(g)
    BY DEF From
  <1>2. Piece(g, w) = [i \in 1 .. Len(w) |-> <<g, w[i]>>] /\ Len(w) \in Nat
    BY DEF Piece
  <1>3. \A i \in 1 .. Len(w) : <<g, w[i]>> \in From(g)
    BY <1>1
  <1>4. Piece(g, w) \in Seq(From(g)) /\ Len(Piece(g, w)) = Len(w)
    BY <1>2, <1>3, IsASeq
  <1> QED BY <1>4, OwnTexts

\* p is in t when it is found from some place of t on.
LEMMA FoundIn ==
    ASSUME NEW S, NEW t \in Seq(S), NEW p \in Seq(S)
    PROVE  p \in SubSeqs(t) <=>
             \E k \in 0 .. Len(t) : /\ k + Len(p) <= Len(t)
                                    /\ \A i \in 1 .. Len(p) : p[i] = t[k + i]
  <1>1. ASSUME p \in SubSeqs(t)
        PROVE  \E k \in 0 .. Len(t) : /\ k + Len(p) <= Len(t)
                                      /\ \A i \in 1 .. Len(p) : p[i] = t[k + i]
    <2>1. PICK i \in 0 .. Len(t), j \in 0 .. Len(t) : p = SubSeq(t, i + 1, j)
      BY <1>1 DEF SubSeqs
    <2>2. \A l \in i + 1 .. j : t[l] \in S
      OBVIOUS
    <2>3. /\ Len(p) = IF i + 1 <= j THEN j - i ELSE 0
          /\ \A l \in 1 .. j - i : p[l] = t[i + l]
      <3>1. /\ Len(p) = IF i + 1 <= j THEN j - (i + 1) + 1 ELSE 0
            /\ \A l \in 1 .. j - (i + 1) + 1 : p[l] = t[i + 1 + l - 1]
        BY <2>1, <2>2, SubSeqProperties
      <3> QED BY <3>1
    <2>4. CASE i + 1 <= j
      BY <2>3, <2>4
    <2>5. CASE ~(i + 1 <= j)
      BY <2>3, <2>5
    <2> QED BY <2>4, <2>5
  <1>2. ASSUME NEW k \in 0 .. Len(t), k + Len(p) <= Len(t), \A i \in 1 .. Len(p) : p[i] = t[k + i]
        PROVE  p \in SubSeqs(t)
    <2> DEFINE q == SubSeq(t, k + 1, k + Len(p))
    <2>1. Len(p) \in Nat /\ k + Len(p) \in 0 .. Len(t)
      BY <1>2
    <2>2. q \in SubSeqs(t)
      BY <2>1 DEF SubSeqs
    <2>3. \A l \in k + 1 .. k + Len(p) : t[l] \in S
      BY <1>2
    <2>4. /\ q \in Seq(S) /\ Len(q) = Len(p)
          /\ \A i \in 1 .. Len(p) : q[i] = t[k + i]
      <3>1. /\ q \in Seq(S)
            /\ Len(q) = IF k + 1 <= k + Len(p) THEN k + Len(p) - (k + 1) + 1 ELSE 0
            /\ \A i \in 1 .. k + Len(p) - (k + 1) + 1 : q[i] = t[k + 1 + i - 1]
        BY <2>1, <2>3, SubSeqProperties
      <3> HIDE DEF q
      <3> QED BY <2>1, <3>1
    <2> HIDE DEF q
    <2>5. p = q
      <3>1. \A i \in 1 .. Len(p) : p[i] = q[i]
        BY <1>2, <2>4
      <3> QED BY <2>4, <3>1, SeqEqual
    <2> QED BY <2>2, <2>5
  <1> QED BY <1>1, <1>2

\* Joined texts have what each of them has, and nothing else.
LEMMA JoinedText ==
    ASSUME NEW S, NEW t \in Seq(S), NEW c \in Seq(S)
    PROVE  /\ Joined(t, c) \in Seq(S) /\ Len(Joined(t, c)) <= Len(t) + Len(c)
           /\ c # <<>> => Joined(t, c) # <<>>
           /\ \A p \in Seq(S) :
                p \in SubSeqs(t) \/ p \in SubSeqs(c) => p \in SubSeqs(Joined(t, c))
  <1>1. CASE IsPrefix(t, c)
    <2>1. Len(t) <= Len(c) /\ \A i \in 1 .. Len(t) : t[i] = c[i]
      <3>1. Len(t) <= Len(c) /\ SubSeq(t, 1, Len(t)) = SubSeq(c, 1, Len(t))
        BY <1>1 DEF IsPrefix
      <3>2. SubSeq(t, 1, Len(t)) = t
        BY SubSeqFull
      <3>3. \A i \in 1 .. Len(t) - 1 + 1 : SubSeq(c, 1, Len(t))[i] = c[1 + i - 1]
        <4>1. \A i \in 1 .. Len(t) : c[i] \in S
          BY <3>1
        <4> QED BY <4>1, SubSeqProperties
      <3> QED BY <3>1, <3>2, <3>3
    <2>2. Joined(t, c) = c
      BY <1>1 DEF Joined
    <2>3. ASSUME NEW p \in Seq(S), p \in SubSeqs(t) PROVE p \in SubSeqs(c)
      <3>1. PICK k \in 0 .. Len(t) : k + Len(p) <= Len(t) /\ \A i \in 1 .. Len(p) : p[i] = t[k + i]
        BY <2>3, FoundIn
      <3>2. k \in 0 .. Len(c) /\ k + Len(p) <= Len(c) /\ \A i \in 1 .. Len(p) : p[i] = c[k + i]
        BY <2>1, <3>1
      <3> QED BY <3>2, FoundIn
    <2> QED BY <2>2, <2>3
  <1>2. CASE ~IsPrefix(t, c)
    <2> DEFINE j == t \o c
    <2>1. /\ j \in Seq(S) /\ Len(j) = Len(t) + Len(c)
          /\ \A i \in 1 .. Len(t) + Len(c) : j[i] = IF i <= Len(t) THEN t[i] ELSE c[i - Len(t)]
      BY ConcatProperties
    <2>2. Joined(t, c) = j
      BY <1>2 DEF Joined
    <2> HIDE DEF j
    <2>3. ASSUME NEW p \in Seq(S), p \in SubSeqs(t) PROVE p \in SubSeqs(j)
      <3>1. PICK k \in 0 .. Len(t) : k + Len(p) <= Len(t) /\ \A i \in 1 .. Len(p) : p[i] = t[k + i]
        BY <2>3, FoundIn
      <3>2. k \in 0 .. Len(j) /\ k + Len(p) <= Len(j)
        BY <2>1, <3>1
      <3>3. ASSUME NEW i \in 1 .. Len(p) PROVE p[i] = j[k + i]
        <4>1. k + i \in 1 .. Len(t) + Len(c) /\ k + i <= Len(t)
          BY <3>1
        <4> QED BY <2>1, <3>1, <4>1
      <3> QED BY <2>1, <3>2, <3>3, FoundIn
    <2>4. ASSUME NEW p \in Seq(S), p \in SubSeqs(c) PROVE p \in SubSeqs(j)
      <3>1. PICK k \in 0 .. Len(c) : k + Len(p) <= Len(c) /\ \A i \in 1 .. Len(p) : p[i] = c[k + i]
        BY <2>4, FoundIn
      <3>2. PICK l \in 0 .. Len(j) : l = Len(t) + k
        BY <2>1
      <3>3. l + Len(p) <= Len(j)
        BY <2>1, <3>1, <3>2
      <3>4. ASSUME NEW i \in 1 .. Len(p) PROVE p[i] = j[l + i]
        <4>1. l + i \in 1 .. Len(t) + Len(c) /\ ~(l + i <= Len(t)) /\ l + i - Len(t) = k + i
          BY <2>1, <3>1, <3>2
        <4>2. j[l + i] = c[l + i - Len(t)]
          <5>1. PICK x \in 1 .. Len(t) + Len(c) : x = l + i
            BY <4>1
          <5>2. j[x] = IF x <= Len(t) THEN t[x] ELSE c[x - Len(t)]
            BY <2>1
          <5> QED BY <4>1, <5>1, <5>2
        <4> QED BY <3>1, <4>1, <4>2
      <3> QED BY <2>1, <3>3, <3>4, FoundIn
    <2>5. c # <<>> => j # <<>>
      BY <2>1
    <2> QED BY <2>1, <2>2, <2>3, <2>4, <2>5
  <1> QED BY <1>1, <1>2

\* Flushing the buffer loses nothing of what arrived.
LEMMA FullFlushed ==
    ASSUME NEW g \in Gens, NEW t \in Seq(Signs), NEW c \in Seq(Signs), NEW s \in Sent,
           Full(t, g, c, s)
    PROVE  Full(Joined(t, c), g, <<>>, s)
  <1>1. s.words \in Seq(Seq(Letters)) /\ s.signs \in Nat
    BY DEF Sent
  <1>2. \A j \in DOMAIN s.words : Piece(g, s.words[j]) \in Seq(Signs)
    BY <1>1, PieceText
  <1>3. /\ Joined(t, c) \in Seq(Signs) /\ Len(Joined(t, c)) <= Len(t) + Len(c)
        /\ \A p \in Seq(Signs) : p \in SubSeqs(t) \/ p \in SubSeqs(c) => p \in SubSeqs(Joined(t, c))
    BY JoinedText
  <1>4. PICK r \in Seq(Signs) : r = Joined(t, c)
    BY <1>3
  <1>5. Len(t) + Len(c) <= s.signs
    BY DEF Full
  <1>6. Len(r) + Len(<<>>) <= s.signs
    <2>1. Len(r) \in Nat /\ Len(t) \in Nat /\ Len(c) \in Nat /\ Len(r) <= Len(t) + Len(c)
      BY <1>3, <1>4
    <2> QED BY <1>1, <1>5, <2>1
  <1>7. \A j \in DOMAIN s.words : Piece(g, s.words[j]) \in SubSeqs(r)
    BY <1>2, <1>3, <1>4 DEF Full
  <1> QED BY <1>4, <1>6, <1>7 DEF Full

\* Another word arrives.
LEMMA FullGrows ==
    ASSUME NEW g \in Gens, NEW t \in Seq(Signs), NEW c \in Seq(Signs), NEW s \in Sent,
           NEW w \in Seq(Letters), Full(t, g, c, s),
           NEW next, next = [words |-> Append(s.words, w), signs |-> s.signs + Len(w)]
    PROVE  Full(t, g, Joined(c, Piece(g, w)), next)
  <1>1. s.words \in Seq(Seq(Letters)) /\ s.signs \in Nat
    BY DEF Sent
  <1>2. Piece(g, w) \in Seq(Signs) /\ Len(Piece(g, w)) = Len(w)
    BY PieceText
  <1>3. PICK p \in Seq(Signs) : p = Piece(g, w) /\ Len(p) = Len(w)
    BY <1>2
  <1>4. /\ Joined(c, p) \in Seq(Signs) /\ Len(Joined(c, p)) <= Len(c) + Len(p)
        /\ \A q \in Seq(Signs) : q \in SubSeqs(c) \/ q \in SubSeqs(p) => q \in SubSeqs(Joined(c, p))
    BY JoinedText
  <1>5. PICK r \in Seq(Signs) : r = Joined(c, p)
    BY <1>4
  <1>6. Len(t) + Len(r) <= next.signs
    <2>1. /\ Len(r) \in Nat /\ Len(t) \in Nat /\ Len(c) \in Nat /\ Len(w) \in Nat
          /\ Len(r) <= Len(c) + Len(w)
      BY <1>3, <1>4, <1>5
    <2>2. Len(t) + Len(c) <= s.signs
      BY DEF Full
    <2> QED BY <1>1, <2>1, <2>2
  <1>7. ASSUME NEW j \in DOMAIN next.words
        PROVE  Piece(g, next.words[j]) \in SubSeqs(t) \/ Piece(g, next.words[j]) \in SubSeqs(r)
    <2>1. next.words = Append(s.words, w)
      OBVIOUS
    <2>2. \/ j \in DOMAIN s.words /\ next.words[j] = s.words[j]
          \/ next.words[j] = w
      BY <1>1, <2>1, AppendProperties
    <2>3. CASE j \in DOMAIN s.words /\ next.words[j] = s.words[j]
      <3>1. Piece(g, s.words[j]) \in Seq(Signs)
        BY <1>1, <2>3, PieceText
      <3>2. Piece(g, s.words[j]) \in SubSeqs(t) \/ Piece(g, s.words[j]) \in SubSeqs(c)
        BY <2>3 DEF Full
      <3> QED BY <1>4, <1>5, <2>3, <3>1, <3>2
    <2>4. CASE next.words[j] = w
      <3>1. p \in SubSeqs(p)
        <4>1. 0 \in 0 .. Len(p) /\ 0 + Len(p) <= Len(p) /\ \A i \in 1 .. Len(p) : p[i] = p[0 + i]
          OBVIOUS
        <4> QED BY <4>1, FoundIn
      <3> QED BY <1>3, <1>4, <1>5, <2>4, <3>1
    <2> QED BY <2>2, <2>3, <2>4
  <1> QED BY <1>3, <1>5, <1>6, <1>7 DEF Full

\* With an empty buffer, all is in the text.
LEMMA FullText ==
    ASSUME NEW g \in Gens, NEW t \in Seq(Signs), NEW s \in Sent, Full(t, g, <<>>, s)
    PROVE  /\ Len(t) <= s.signs
           /\ \A j \in DOMAIN s.words : Piece(g, s.words[j]) \in SubSeqs(t)
  <1>1. s.words \in Seq(Seq(Letters)) /\ s.signs \in Nat
    BY DEF Sent
  <1>2. Len(t) <= s.signs
    <2>1. Len(t) \in Nat /\ Len(<<>>) = 0 /\ Len(t) + Len(<<>>) <= s.signs
      BY DEF Full
    <2> QED BY <2>1
  <1>3. ASSUME NEW p \in Seq(Signs), p \in SubSeqs(<<>>) PROVE p \in SubSeqs(t)
    <2>1. PICK z \in Seq(Signs) : z = <<>> /\ Len(z) = 0
      BY EmptySeq
    <2>2. \E k \in 0 .. Len(z) : k + Len(p) <= Len(z)
      BY <1>3, <2>1, FoundIn
    <2>3. Len(p) = 0
      BY <2>1, <2>2
    <2>4. 0 \in 0 .. Len(t) /\ 0 + Len(p) <= Len(t) /\ \A i \in 1 .. Len(p) : p[i] = t[0 + i]
      BY <2>3
    <2> QED BY <2>4, FoundIn
  <1>4. ASSUME NEW j \in DOMAIN s.words PROVE Piece(g, s.words[j]) \in SubSeqs(t)
    <2>1. Piece(g, s.words[j]) \in Seq(Signs)
      BY <1>1, PieceText
    <2> QED BY <1>3, <2>1 DEF Full
  <1> QED BY <1>2, <1>4

-----------------------------------------------------------------------------
(* Recursion: the renders and the removal of a message.                    *)

\* d[i] is the view after the first i of the n pending updates ran.
Done(d, v, n, g) ==
    /\ d[0] = [v EXCEPT !.queue = <<>>]
    /\ \A i \in 1 .. n : d[i] = Ran(d[i - 1], v.queue[i], g)

\* A render runs the pending updates one after the other.
LEMMA RenderedDone ==
    ASSUME NEW v, NEW g, NEW n \in Nat, n = Len(v.queue)
    PROVE  \E d : Done(d, v, n, g) /\ Rendered(v, g) = d[n]
  <1> DEFINE base == [v EXCEPT !.queue = <<>>]
             Rec(d, k) == [i \in 0 .. k |-> IF i = 0 THEN base ELSE Ran(d[i - 1], v.queue[i], g)]
             S == {k \in Nat : \E d : d = Rec(d, k)}
  <1>1. 0 \in S
    <2> DEFINE d == [i \in 0 .. 0 |-> base]
    <2>1. \A i \in 0 .. 0 : i = 0
      OBVIOUS
    <2>2. d = Rec(d, 0)
      <3> HIDE DEF base
      <3> QED BY <2>1
    <2> QED BY <2>2
  <1>2. ASSUME NEW k \in Nat, k \in S PROVE k + 1 \in S
    <2>1. PICK d : d = Rec(d, k)
      BY <1>2
    <2> DEFINE last == Ran(d[k], v.queue[k + 1], g)
               e == [i \in 0 .. k + 1 |-> IF i = k + 1 THEN last ELSE d[i]]
    <2> HIDE DEF base
    <2>2. \A i \in 0 .. k : d[i] = IF i = 0 THEN base ELSE Ran(d[i - 1], v.queue[i], g)
      BY <2>1
    <2>3. ASSUME NEW i \in 0 .. k + 1
          PROVE  e[i] = IF i = 0 THEN base ELSE Ran(e[i - 1], v.queue[i], g)
      <3>1. CASE i = 0
        BY <2>2, <3>1
      <3>2. CASE i # 0
        <4>1. i - 1 \in 0 .. k /\ i - 1 \in 0 .. k + 1 /\ i - 1 # k + 1
          BY <3>2
        <4>2. e[i - 1] = d[i - 1]
          BY <4>1
        <4>3. CASE i = k + 1
          BY <4>1, <4>2, <4>3
        <4>4. CASE i # k + 1
          <5>1. i \in 0 .. k
            BY <4>4
          <5> QED BY <2>2, <3>2, <4>2, <4>4, <5>1
        <4> QED BY <4>3, <4>4
      <3> QED BY <3>1, <3>2
    <2>4. e = Rec(e, k + 1)
      <3> HIDE DEF last
      <3> QED BY <2>3
    <2>5. \E h : h = Rec(h, k + 1)
      <3> HIDE DEF e, Rec
      <3> QED BY <2>4
    <2> QED BY <2>5
  <1>3. n \in S
    <2> HIDE DEF S
    <2> QED BY <1>1, <1>2, SetInduction
  <1>4. PICK d : d = (CHOOSE f : f = Rec(f, n)) /\ d = Rec(d, n)
    <2>1. \E d : d = Rec(d, n)
      BY <1>3
    <2> HIDE DEF Rec
    <2> QED BY <2>1, Zenon
  <1>5. Rendered(v, g) = d[n]
    BY <1>4 DEF Rendered
  <1> HIDE DEF base
  <1>6. \A i \in 0 .. n : d[i] = IF i = 0 THEN base ELSE Ran(d[i - 1], v.queue[i], g)
    BY <1>4
  <1>7. Done(d, v, n, g)
    <2>1. d[0] = base
      BY <1>6
    <2>2. \A i \in 1 .. n : d[i] = Ran(d[i - 1], v.queue[i], g)
      BY <1>6
    <2> QED BY <2>1, <2>2 DEF Done, base
  <1> QED BY <1>5, <1>7

\* What holds of the view without its updates, and is kept by each of them,
\* holds of the rendered view.
LEMMA RenderedIn ==
    ASSUME NEW v, NEW g, NEW P, Len(v.queue) \in Nat,
           [v EXCEPT !.queue = <<>>] \in P,
           \A w \in P : \A i \in 1 .. Len(v.queue) : Ran(w, v.queue[i], g) \in P
    PROVE  Rendered(v, g) \in P
  <1>1. PICK n \in Nat : n = Len(v.queue)
    OBVIOUS
  <1>2. PICK d : Done(d, v, n, g) /\ Rendered(v, g) = d[n]
    BY <1>1, RenderedDone
  <1> DEFINE S == {i \in Nat : i <= n => d[i] \in P}
  <1>3. 0 \in S
    BY <1>2 DEF Done
  <1>4. ASSUME NEW i \in Nat, i \in S PROVE i + 1 \in S
    <2> SUFFICES ASSUME i + 1 <= n PROVE d[i + 1] \in P
      OBVIOUS
    <2>1. i + 1 \in 1 .. n /\ (i + 1) - 1 = i /\ d[i] \in P
      BY <1>4
    <2>2. d[i + 1] = Ran(d[i], v.queue[i + 1], g)
      BY <1>2, <2>1 DEF Done
    <2> QED BY <1>1, <2>1, <2>2
  <1> HIDE DEF S
  <1>5. n \in S
    BY <1>3, <1>4, SetInduction
  <1> QED BY <1>2, <1>5 DEF S

\* A message that is left after a removal was there before it.
LEMMA RemovedIn ==
    ASSUME NEW M, NEW ms \in Seq(M), NEW key
    PROVE  RemoveMessageByKey(ms, key) \in Seq(M)
  <1>0. PICK n \in Nat : n = Len(ms)
    OBVIOUS
  <1> DEFINE Step(l, i) == IF ms[i].key = key THEN l ELSE Append(l, ms[i])
             Rec(d, k) == [i \in 0 .. k |-> IF i = 0 THEN <<>> ELSE Step(d[i - 1], i)]
             S == {k \in Nat : \E d : d = Rec(d, k)}
  <1>1. 0 \in S
    <2> DEFINE d == [i \in 0 .. 0 |-> <<>>]
    <2>1. \A i \in 0 .. 0 : i = 0
      OBVIOUS
    <2>2. d = Rec(d, 0)
      <3> HIDE DEF Step
      <3> QED BY <2>1
    <2> QED BY <2>2
  <1>2. ASSUME NEW k \in Nat, k \in S PROVE k + 1 \in S
    <2>1. PICK d : d = Rec(d, k)
      BY <1>2
    <2> DEFINE last == Step(d[k], k + 1)
               e == [i \in 0 .. k + 1 |-> IF i = k + 1 THEN last ELSE d[i]]
    <2> HIDE DEF Step
    <2>2. \A i \in 0 .. k : d[i] = IF i = 0 THEN <<>> ELSE Step(d[i - 1], i)
      BY <2>1
    <2>3. ASSUME NEW i \in 0 .. k + 1
          PROVE  e[i] = IF i = 0 THEN <<>> ELSE Step(e[i - 1], i)
      <3>1. CASE i = 0
        BY <2>2, <3>1
      <3>2. CASE i # 0
        <4>1. i - 1 \in 0 .. k /\ i - 1 \in 0 .. k + 1 /\ i - 1 # k + 1
          BY <3>2
        <4>2. e[i - 1] = d[i - 1]
          BY <4>1
        <4>3. CASE i = k + 1
          BY <4>1, <4>2, <4>3
        <4>4. CASE i # k + 1
          <5>1. i \in 0 .. k
            BY <4>4
          <5> QED BY <2>2, <3>2, <4>2, <4>4, <5>1
        <4> QED BY <4>3, <4>4
      <3> QED BY <3>1, <3>2
    <2>4. e = Rec(e, k + 1)
      <3> HIDE DEF last
      <3> QED BY <2>3
    <2>5. \E h : h = Rec(h, k + 1)
      <3> HIDE DEF e, Rec
      <3> QED BY <2>4
    <2> QED BY <2>5
  <1>3. n \in S
    <2> HIDE DEF S
    <2> QED BY <1>1, <1>2, SetInduction
  <1>4. PICK d : d = (CHOOSE f : f = Rec(f, n)) /\ d = Rec(d, n)
    <2>1. \E d : d = Rec(d, n)
      BY <1>3
    <2> HIDE DEF Rec
    <2> QED BY <2>1, Zenon
  <1>5. RemoveMessageByKey(ms, key) = d[n]
    BY <1>0, <1>4 DEF RemoveMessageByKey
  <1>6. \A i \in 0 .. n : d[i] = IF i = 0 THEN <<>> ELSE Step(d[i - 1], i)
    <2> HIDE DEF Step
    <2> QED BY <1>4
  <1> DEFINE T == {i \in Nat : i <= n => d[i] \in Seq(M)}
  <1>7. 0 \in T
    <2>1. d[0] = <<>>
      <3> HIDE DEF Step
      <3> QED BY <1>6
    <2>2. d[0] \in Seq(M)
      <3> HIDE DEF Rec
      <3> QED BY <2>1
    <2> HIDE DEF Rec
    <2> QED BY <2>2
  <1>8. ASSUME NEW i \in Nat, i \in T PROVE i + 1 \in T
    <2> SUFFICES ASSUME i + 1 <= n PROVE d[i + 1] \in Seq(M)
      OBVIOUS
    <2>1. i + 1 \in 0 .. n /\ i + 1 # 0 /\ (i + 1) - 1 = i /\ d[i] \in Seq(M)
      BY <1>8
    <2>2. d[i + 1] = Step(d[i], i + 1)
      BY <1>6, <2>1
    <2>3. ms[i + 1] \in M
      BY <1>0, <2>1
    <2> QED BY <2>1, <2>2, <2>3
  <1> HIDE DEF T
  <1>9. n \in T
    BY <1>7, <1>8, SetInduction
  <1> QED BY <1>5, <1>9 DEF T

-----------------------------------------------------------------------------
(* Views: what the updates of React do to the fields of a view.            *)

View(s, q, l, b) == [shown |-> s, queue |-> q, latest |-> l, saving |-> b]

LEMMA ViewFields ==
    ASSUME NEW v \in Views
    PROVE  /\ v.shown \in Seq(Message) /\ v.latest \in Seq(Message) /\ v.queue \in Seq(Updates)
           /\ v.saving \in BOOLEAN /\ Len(v.queue) \in Nat
           /\ v = View(v.shown, v.queue, v.latest, v.saving)
           /\ [v EXCEPT !.queue = <<>>] = View(v.shown, <<>>, v.latest, v.saving)
  <1>1. /\ v.shown \in Seq(Message) /\ v.latest \in Seq(Message) /\ v.queue \in Seq(Updates)
        /\ v.saving \in BOOLEAN
    BY DEF Views
  <1>2. v = View(v.shown, v.queue, v.latest, v.saving)
    BY Zenon DEF Views, View
  <1>3. [v EXCEPT !.queue = <<>>] = View(v.shown, <<>>, v.latest, v.saving)
    BY DEF Views, View
  <1> QED BY <1>1, <1>2, <1>3

LEMMA PersistedView ==
    ASSUME NEW w \in Views, NEW ms \in Seq(Message)
    PROVE  PersistMessages(w, ms) = View(w.shown, w.queue, ms, loaded)
  <1>1. PICK x : x = [w EXCEPT !.latest = ms]
    OBVIOUS
  <1>2. x \in Views /\ x = View(w.shown, w.queue, ms, w.saving)
    BY <1>1 DEF Views, View
  <1>3. x.shown = w.shown /\ x.queue = w.queue /\ x.latest = ms
    BY <1>2 DEF View
  <1>4. [x EXCEPT !.saving = loaded] = View(x.shown, x.queue, x.latest, loaded)
    BY <1>2 DEF Views, View
  <1> QED BY <1>1, <1>3, <1>4 DEF PersistMessages

\* A pending update runs: an evaluated one only moves to the screen.
LEMMA RanFields ==
    ASSUME NEW v \in Views, NEW u, NEW g, NEW ms \in Seq(Message), ms = Run(u, v.shown, g)
    PROVE  Ran(v, u, g) = IF u.op = "evaluated" THEN View(ms, v.queue, v.latest, v.saving)
                          ELSE View(ms, v.queue, ms, loaded)
  <1>1. CASE u.op = "evaluated"
    <2>1. Ran(v, u, g) = [v EXCEPT !.shown = ms]
      BY <1>1, SMTT(20) DEF Ran
    <2>2. [v EXCEPT !.shown = ms] = View(ms, v.queue, v.latest, v.saving)
      BY SMTT(20) DEF Views, View
    <2> QED BY <1>1, <2>1, <2>2
  <1>2. CASE u.op # "evaluated"
    <2>1. PICK w : w = [v EXCEPT !.shown = ms]
      OBVIOUS
    <2>2. /\ w \in Views
          /\ w.shown = ms /\ w.queue = v.queue
      BY <2>1 DEF Views
    <2>3. Ran(v, u, g) = PersistMessages(w, ms)
      BY <1>2, <2>1 DEF Ran
    <2> QED BY <1>2, <2>2, <2>3, PersistedView
  <1> QED BY <1>1, <1>2

\* setMessages: the update waits, or ran without effect, or ran.
LEMMA PushFields ==
    ASSUME NEW v \in Views, NEW u, NEW g, NEW e, NEW ms, ms = Run(u, v.shown, g)
    PROVE  \/ Push(v, u, g, e) = View(v.shown, Append(v.queue, u), v.latest, v.saving)
           \/ /\ e /\ v.queue = <<>> /\ ms = v.shown
              /\ Push(v, u, g, e) = View(v.shown, <<>>, ms, loaded)
           \/ /\ e /\ v.queue = <<>> /\ ms # v.shown
              /\ Push(v, u, g, e) = View(v.shown, <<Evaluated(ms)>>, ms, loaded)
  <1>1. CASE ~e \/ v.queue # <<>>
    BY <1>1 DEF Push, Views, View
  <1>2. CASE ~(~e \/ v.queue # <<>>) /\ ms = v.shown
    BY <1>2 DEF Push, PersistMessages, Views, View
  <1>3. CASE ~(~e \/ v.queue # <<>>) /\ ms # v.shown
    BY <1>3 DEF Push, PersistMessages, Views, View
  <1> QED BY <1>1, <1>2, <1>3

\* A list that runs into evaluated is replaced by its result.
LEMMA RunEvaluated ==
    ASSUME NEW l, NEW ms, NEW g
    PROVE  /\ Run(Evaluated(l), ms, g) = l /\ Evaluated(l).op = "evaluated" /\ Evaluated(l).list = l
           /\ Run(Replace(l), ms, g) = l /\ Replace(l).op = "replace"
  BY DEF Run, Evaluated, Replace, Update

-----------------------------------------------------------------------------
(* Message lists: what an updater makes of the last answer.                *)

\* The list with another last message.
WithLast(ms, m) == [ms EXCEPT ![Len(ms)] = m]

\* What an update for the last answer makes of it while the request is u.gen.
Answered(u, m) ==
    CASE u.op = "append" -> ApplyStreamingChunk(m, u.chunks)
      [] u.op = "finish" -> (IF Final(m) THEN m ELSE CompleteAssistantMessage(m))
      [] u.op = "answer" -> [m EXCEPT !.status = "complete", !.text = SomeText(u.gen)]
      [] u.op = "stop" -> (IF Pending(m) THEN CompleteAssistantMessage(m) ELSE m)
      [] OTHER -> FailedMessage(m)

LastOps == {"append", "finish", "fail", "answer", "stop"}

LEMMA WithLastIs ==
    ASSUME NEW M, NEW ms \in Seq(M), ms # <<>>, NEW m \in M
    PROVE  /\ WithLast(ms, m) \in Seq(M) /\ WithLast(ms, m) # <<>>
           /\ Len(WithLast(ms, m)) = Len(ms) /\ DOMAIN WithLast(ms, m) = DOMAIN ms
           /\ Len(ms) \in DOMAIN ms /\ WithLast(ms, m)[Len(ms)] = m
           /\ \A i \in DOMAIN ms : i # Len(ms) => WithLast(ms, m)[i] = ms[i]
  <1>1. Len(ms) \in 1 .. Len(ms) /\ DOMAIN ms = 1 .. Len(ms)
    OBVIOUS
  <1>2. /\ WithLast(ms, m) \in Seq(M) /\ Len(WithLast(ms, m)) = Len(ms)
        /\ \A j \in 1 .. Len(ms) : WithLast(ms, m)[j] = IF j = Len(ms) THEN m ELSE ms[j]
    BY <1>1, ExceptSeq DEF WithLast
  <1>3. WithLast(ms, m) # <<>> /\ DOMAIN WithLast(ms, m) = 1 .. Len(ms)
    <2>1. PICK r \in Seq(M) : r = WithLast(ms, m)
      BY <1>2
    <2>2. Len(r) = Len(ms)
      BY <1>2, <2>1
    <2> QED BY <1>1, <2>1, <2>2
  <1> QED BY <1>1, <1>2, <1>3

\* The updaters of the callbacks and of stop act on the last answer, or not at
\* all when the generation has changed.
LEMMA RunLast ==
    ASSUME NEW u \in Updates, NEW ms \in Seq(Message), NEW g, u.op \in LastOps
    PROVE  /\ u.gen # g => Run(u, ms, g) = ms
           /\ u.gen = g /\ (ms = <<>> \/ ms[Len(ms)].role # "assistant") => Run(u, ms, g) = ms
           /\ u.gen = g /\ ms # <<>> /\ ms[Len(ms)].role = "assistant" =>
                Run(u, ms, g) = WithLast(ms, Answered(u, ms[Len(ms)]))
  <1>1. CASE u.gen # g
    BY <1>1 DEF Run, LastOps
  <1>2. CASE u.gen = g /\ u.op = "append"
    BY <1>2 DEF Run, Answered, WithLast, UpdateLastAssistantMessage, Last
  <1>3. CASE u.gen = g /\ u.op = "finish"
    BY <1>3 DEF Run, Answered, WithLast, UpdateLastAssistantMessage, Last
  <1>4. CASE u.gen = g /\ u.op = "fail"
    BY <1>4 DEF Run, Answered, WithLast, UpdateLastAssistantMessage, Last
  <1>5. CASE u.gen = g /\ u.op = "answer"
    BY <1>5 DEF Run, Answered, WithLast, UpdateLastAssistantMessage, Last
  <1>6. CASE u.gen = g /\ u.op = "stop"
    BY <1>6 DEF Run, Answered, WithLast, UpdateLastAssistantMessage, Last
  <1> QED BY <1>1, <1>2, <1>3, <1>4, <1>5, <1>6 DEF LastOps

LEMMA RunKeyless ==
    ASSUME NEW u, NEW ms \in Seq(Message), NEW g, u.op = "keyless"
    PROVE  /\ ms = <<>> \/ ms[Len(ms)].role # "assistant" => Run(u, ms, g) = ms
           /\ ms # <<>> /\ ms[Len(ms)].role = "assistant" =>
                Run(u, ms, g) = WithLast(ms, FailedMessage(ms[Len(ms)]))
  BY DEF Run, WithLast, UpdateLastAssistantMessage, Last

LEMMA MessageFields ==
    ASSUME NEW m \in Message
    PROVE  /\ m.role \in {"user", "assistant"} /\ m.key \in Nat /\ m.status \in Statuses
           /\ m.req \in Gens /\ m.text \in Seq(Signs)
  BY DEF Message

\* a is m but for its status s and its text t.
Becomes(a, m, s, t) ==
    /\ a \in Message /\ a.role = m.role /\ a.key = m.key /\ a.req = m.req
    /\ a.status = s /\ a.text = t

\* A message with another status and another text.
LEMMA RewrittenFields ==
    ASSUME NEW m \in Message, NEW s \in Statuses, NEW t \in Seq(Signs)
    PROVE  Becomes([m EXCEPT !.status = s, !.text = t], m, s, t)
  <1>1. PICK x : x = [m EXCEPT !.status = s]
    OBVIOUS
  <1>2. /\ x \in Message /\ x.role = m.role /\ x.key = m.key /\ x.req = m.req
        /\ x.status = s
    BY <1>1 DEF Message
  <1>3. PICK a : a = [x EXCEPT !.text = t]
    OBVIOUS
  <1>4. /\ a \in Message /\ a.role = x.role /\ a.key = x.key /\ a.req = x.req
        /\ a.status = x.status /\ a.text = t
    BY <1>2, <1>3 DEF Message
  <1>5. a = [m EXCEPT !.status = s, !.text = t]
    BY <1>1, <1>3
  <1> QED BY <1>2, <1>4, <1>5 DEF Becomes

\* A message with another status only.
LEMMA RestatedFields ==
    ASSUME NEW m \in Message, NEW s \in Statuses
    PROVE  Becomes([m EXCEPT !.status = s], m, s, m.text)
  BY DEF Message, Becomes

AnsweredStatus(u, m) ==
    CASE u.op = "append" -> (IF m.status = "error" THEN "error" ELSE "streaming")
      [] u.op = "finish" -> (IF Final(m) THEN m.status ELSE "complete")
      [] u.op = "answer" -> "complete"
      [] u.op = "stop" -> (IF Pending(m) THEN "complete" ELSE m.status)
      [] OTHER -> "error"

AnsweredText(u, m) ==
    CASE u.op = "append" -> (IF m.status = "error" THEN m.text ELSE Joined(m.text, u.chunks))
      [] u.op = "answer" -> SomeText(u.gen)
      [] u.op \in {"finish", "stop"} -> m.text
      [] OTHER -> SomeText(m.req)

\* The updates of an answer keep its kind, its key and its request.
LEMMA AnsweredFields ==
    ASSUME NEW m \in Message, NEW u \in Updates
    PROVE  Becomes(Answered(u, m), m, AnsweredStatus(u, m), AnsweredText(u, m))
  <1>0. /\ m.req \in Gens /\ m.text \in Seq(Signs) /\ m.status \in Statuses
        /\ u.gen \in Gens /\ u.chunks \in Seq(Signs)
    BY DEF Message, Updates
  <1>1. CASE u.op = "append" /\ m.status = "error"
    BY <1>0, <1>1 DEF Answered, AnsweredStatus, AnsweredText, ApplyStreamingChunk, Becomes
  <1>2. CASE u.op = "append" /\ m.status # "error"
    <2>0. PICK t \in Seq(Signs) : t = Joined(m.text, u.chunks)
      BY <1>0, JoinedText
    <2>1. "streaming" \in Statuses
      BY DEF Statuses
    <2>2. Answered(u, m) = [m EXCEPT !.status = "streaming", !.text = t]
      BY <1>2, <2>0 DEF Answered, ApplyStreamingChunk
    <2>3. AnsweredStatus(u, m) = "streaming" /\ AnsweredText(u, m) = t
      BY <1>2, <2>0 DEF AnsweredStatus, AnsweredText
    <2> QED BY <2>1, <2>2, <2>3, RewrittenFields
  <1>3. CASE u.op = "answer"
    <2>1. "complete" \in Statuses /\ SomeText(u.gen) \in Seq(Signs)
      BY <1>0, OwnTexts DEF Statuses
    <2>2. Answered(u, m) = [m EXCEPT !.status = "complete", !.text = SomeText(u.gen)]
      BY <1>3 DEF Answered
    <2>3. AnsweredStatus(u, m) = "complete" /\ AnsweredText(u, m) = SomeText(u.gen)
      BY <1>3 DEF AnsweredStatus, AnsweredText
    <2> QED BY <2>1, <2>2, <2>3, RewrittenFields
  <1>4. CASE u.op = "finish" \/ u.op = "stop"
    <2>1. "complete" \in Statuses
      BY DEF Statuses
    <2>2. AnsweredText(u, m) = m.text
      BY <1>4 DEF AnsweredText
    <2>3. \/ Answered(u, m) = m /\ AnsweredStatus(u, m) = m.status
          \/ /\ Answered(u, m) = [m EXCEPT !.status = "complete"]
             /\ AnsweredStatus(u, m) = "complete"
      BY <1>4 DEF Answered, AnsweredStatus, CompleteAssistantMessage
    <2>4. Becomes(m, m, m.status, m.text)
      BY DEF Becomes
    <2> QED BY <2>1, <2>2, <2>3, <2>4, RestatedFields
  <1>5. CASE u.op \notin {"append", "answer", "finish", "stop"}
    <2>1. "error" \in Statuses /\ SomeText(m.req) \in Seq(Signs)
      BY <1>0, OwnTexts DEF Statuses
    <2>2. Answered(u, m) = [m EXCEPT !.status = "error", !.text = SomeText(m.req)]
      BY <1>5 DEF Answered, FailedMessage
    <2>3. AnsweredStatus(u, m) = "error" /\ AnsweredText(u, m) = SomeText(m.req)
      BY <1>5 DEF AnsweredStatus, AnsweredText
    <2> QED BY <2>1, <2>2, <2>3, RewrittenFields
  <1> QED BY <1>1, <1>2, <1>3, <1>4, <1>5

LEMMA FailedFields ==
    ASSUME NEW m \in Message
    PROVE  Becomes(FailedMessage(m), m, "error", SomeText(m.req))
  <1>1. "error" \in Statuses /\ SomeText(m.req) \in Seq(Signs)
    BY OwnTexts DEF Statuses, Message
  <1> QED BY <1>1, RewrittenFields DEF FailedMessage

\* Every updater returns messages.
LEMMA RunTyped ==
    ASSUME NEW u \in Updates, NEW ms \in Seq(Message), NEW g
    PROVE  Run(u, ms, g) \in Seq(Message)
  <1>0. u.op \in Ops /\ u.list \in Seq(Message)
    BY DEF Updates
  <1>1. CASE u.op \in {"replace", "evaluated"}
    BY <1>0, <1>1 DEF Run
  <1>2. CASE u.op = "remove"
    BY <1>2, RemovedIn DEF Run
  <1>3. CASE u.op = "keyless"
    <2>1. CASE ms = <<>> \/ ms[Len(ms)].role # "assistant"
      BY <1>3, <2>1, RunKeyless
    <2>2. CASE ms # <<>> /\ ms[Len(ms)].role = "assistant"
      <3>1. ms[Len(ms)] \in Message
        BY <2>2
      <3>2. PICK m \in Message : m = FailedMessage(ms[Len(ms)])
        BY <3>1, FailedFields DEF Becomes
      <3>3. Run(u, ms, g) = WithLast(ms, m)
        BY <1>3, <2>2, <3>2, RunKeyless
      <3> QED BY <2>2, <3>3, WithLastIs
    <2> QED BY <2>1, <2>2
  <1>4. CASE u.op \in LastOps
    <2>1. CASE u.gen # g \/ ms = <<>> \/ ms[Len(ms)].role # "assistant"
      BY <1>4, <2>1, RunLast
    <2>2. CASE u.gen = g /\ ms # <<>> /\ ms[Len(ms)].role = "assistant"
      <3>1. ms[Len(ms)] \in Message
        BY <2>2
      <3>2. PICK m \in Message : m = Answered(u, ms[Len(ms)])
        BY <3>1, AnsweredFields DEF Becomes
      <3>3. Run(u, ms, g) = WithLast(ms, m)
        BY <1>4, <2>2, <3>2, RunLast
      <3> QED BY <2>2, <3>3, WithLastIs
    <2> QED BY <2>1, <2>2
  <1> QED BY <1>0, <1>1, <1>2, <1>3, <1>4 DEF Ops, LastOps

-----------------------------------------------------------------------------
(* Renders and updates of the page's state.                                *)

\* What every updater keeps is true of the rendered messages.
LEMMA RenderedClosed ==
    ASSUME NEW v \in Views, NEW g, loaded \in BOOLEAN, NEW G, G \subseteq Seq(Message),
           v.shown \in G, v.latest \in G,
           \A i \in DOMAIN v.queue : \A ms \in G : Run(v.queue[i], ms, g) \in G
    PROVE  /\ Rendered(v, g) \in Views
           /\ Rendered(v, g).queue = <<>>
           /\ Rendered(v, g).shown \in G /\ Rendered(v, g).latest \in G
  <1> DEFINE P == {w \in Views : w.queue = <<>> /\ w.shown \in G /\ w.latest \in G}
  <1>1. [v EXCEPT !.queue = <<>>] \in P
    <2>1. [v EXCEPT !.queue = <<>>] = View(v.shown, <<>>, v.latest, v.saving)
      BY ViewFields
    <2>2. PICK q \in Seq(Updates) : q = <<>>
      <3>1. <<>> \in Seq(Updates)
        BY EmptySeq
      <3> QED BY <3>1, Zenon
    <2>3. View(v.shown, q, v.latest, v.saving) \in P
      BY <2>2 DEF View, Views
    <2> QED BY <2>1, <2>2, <2>3
  <1>2. ASSUME NEW w \in P, NEW i \in 1 .. Len(v.queue) PROVE Ran(w, v.queue[i], g) \in P
    <2>1. PICK ms \in G : ms = Run(v.queue[i], w.shown, g)
      BY DEF Views
    <2>2. ms \in Seq(Message)
      OBVIOUS
    <2>3. \/ Ran(w, v.queue[i], g) = View(ms, w.queue, w.latest, w.saving)
          \/ Ran(w, v.queue[i], g) = View(ms, w.queue, ms, loaded)
      BY <2>1, <2>2, RanFields
    <2>4. View(ms, w.queue, w.latest, w.saving) \in P
      BY <2>2 DEF View, Views
    <2>5. View(ms, w.queue, ms, loaded) \in P
      BY <2>2 DEF View, Views
    <2> QED BY <2>3, <2>4, <2>5
  <1>3. Len(v.queue) \in Nat
    BY DEF Views
  <1> HIDE DEF P
  <1>4. Rendered(v, g) \in P
    BY <1>1, <1>2, <1>3, RenderedIn
  <1> QED BY <1>4 DEF P

\* A rendered view is a view without pending updates.
LEMMA RenderedTyped ==
    ASSUME NEW v \in Views, NEW g, loaded \in BOOLEAN
    PROVE  /\ Rendered(v, g) \in Views /\ Rendered(v, g).queue = <<>>
           /\ Rendered(v, g).shown \in Seq(Message)
  <1>1. \A i \in DOMAIN v.queue : \A ms \in Seq(Message) : Run(v.queue[i], ms, g) \in Seq(Message)
    BY RunTyped DEF Views
  <1>2. v.shown \in Seq(Message) /\ v.latest \in Seq(Message)
    BY DEF Views
  <1> QED BY <1>1, <1>2, RenderedClosed

\* A view without pending updates is rendered as it is.
LEMMA RenderedIdle ==
    ASSUME NEW v \in Views, NEW g, v.queue = <<>>
    PROVE  Rendered(v, g) = v
  <1>1. PICK d : Done(d, v, 0, g) /\ Rendered(v, g) = d[0]
    BY RenderedDone
  <1> QED BY <1>1, ViewFields DEF Done

\* An update that waits runs after those before it.
LEMMA RenderedAppend ==
    ASSUME NEW v \in Views, NEW g, NEW u \in Updates
    PROVE  Rendered(View(v.shown, Append(v.queue, u), v.latest, v.saving), g)
             = Ran(Rendered(v, g), u, g)
  <1>1. PICK n \in Nat : n = Len(v.queue)
    BY ViewFields
  <1>2. PICK x : x = View(v.shown, Append(v.queue, u), v.latest, v.saving)
    OBVIOUS
  <1>3. /\ x \in Views /\ x.queue = Append(v.queue, u) /\ Len(x.queue) = n + 1
        /\ x.shown = v.shown /\ x.latest = v.latest /\ x.saving = v.saving
    BY <1>1, <1>2 DEF View, Views
  <1>4. (\A i \in 1 .. n : x.queue[i] = v.queue[i]) /\ x.queue[n + 1] = u
    BY <1>1, <1>3, AppendProperties DEF Views
  <1>5. PICK d : Done(d, v, n, g) /\ Rendered(v, g) = d[n]
    BY <1>1, RenderedDone
  <1>6. PICK e : Done(e, x, n + 1, g) /\ Rendered(x, g) = e[n + 1]
    BY <1>3, RenderedDone
  <1> DEFINE S == {i \in Nat : i <= n => e[i] = d[i]}
  <1>7. 0 \in S
    BY <1>3, <1>5, <1>6, ViewFields DEF Done
  <1>8. ASSUME NEW i \in Nat, i \in S PROVE i + 1 \in S
    <2> SUFFICES ASSUME i + 1 <= n PROVE e[i + 1] = d[i + 1]
      OBVIOUS
    <2>1. i + 1 \in 1 .. n /\ i + 1 \in 1 .. n + 1 /\ (i + 1) - 1 = i /\ e[i] = d[i]
      BY <1>8
    <2>2. d[i + 1] = Ran(d[i], v.queue[i + 1], g) /\ e[i + 1] = Ran(e[i], x.queue[i + 1], g)
      BY <1>5, <1>6, <2>1 DEF Done
    <2> QED BY <1>4, <2>1, <2>2
  <1> HIDE DEF S
  <1>9. n \in S
    BY <1>7, <1>8, SetInduction
  <1>10. e[n] = d[n]
    BY <1>9 DEF S
  <1>11. e[n + 1] = Ran(e[n], x.queue[n + 1], g)
    <2>1. n + 1 \in 1 .. n + 1 /\ (n + 1) - 1 = n
      OBVIOUS
    <2> QED BY <1>6, <2>1 DEF Done
  <1> QED BY <1>2, <1>4, <1>5, <1>6, <1>10, <1>11

\* An updater that runs in a render decides what is shown and what is latest.
LEMMA RanView ==
    ASSUME NEW v \in Views, NEW u \in Updates, NEW g, NEW ms, ms = Run(u, v.shown, g),
           loaded \in BOOLEAN
    PROVE  /\ ms \in Seq(Message) /\ Ran(v, u, g) \in Views
           /\ Ran(v, u, g).shown = ms /\ Ran(v, u, g).queue = v.queue
           /\ u.op = "evaluated" => /\ Ran(v, u, g).latest = v.latest
                                    /\ Ran(v, u, g).saving = v.saving
           /\ u.op # "evaluated" => Ran(v, u, g) = View(ms, v.queue, ms, loaded)
           /\ u.op # "evaluated" => Ran(v, u, g).latest = ms
           /\ u.op # "evaluated" => Ran(v, u, g).saving = loaded
  <1>1. ms \in Seq(Message)
    BY RunTyped DEF Views
  <1>2. CASE u.op = "evaluated"
    <2>1. Ran(v, u, g) = View(ms, v.queue, v.latest, v.saving)
      BY <1>1, <1>2, RanFields
    <2> QED BY <1>1, <1>2, <2>1 DEF View, Views
  <1>3. CASE u.op # "evaluated"
    <2>1. Ran(v, u, g) = View(ms, v.queue, ms, loaded)
      BY <1>1, <1>3, RanFields
    <2>2. /\ View(ms, v.queue, ms, loaded) \in Views
          /\ View(ms, v.queue, ms, loaded).shown = ms
          /\ View(ms, v.queue, ms, loaded).queue = v.queue
          /\ View(ms, v.queue, ms, loaded).latest = ms
          /\ View(ms, v.queue, ms, loaded).saving = loaded
      BY <1>1 DEF View, Views
    <2> QED BY <1>1, <1>3, <2>1, <2>2
  <1> QED BY <1>2, <1>3

LEMMA ViewIs ==
    ASSUME NEW s, NEW q, NEW l, NEW b
    PROVE  /\ View(s, q, l, b).shown = s /\ View(s, q, l, b).queue = q
           /\ View(s, q, l, b).latest = l /\ View(s, q, l, b).saving = b
  BY DEF View

LEMMA ViewTyped ==
    ASSUME NEW s \in Seq(Message), NEW q \in Seq(Updates), NEW l \in Seq(Message),
           NEW b \in BOOLEAN
    PROVE  View(s, q, l, b) \in Views
  BY DEF View, Views

LEMMA UpdateTyped ==
    ASSUME NEW op \in Ops, NEW g \in Gens, NEW l \in Seq(Message), NEW c \in Seq(Signs),
           NEW k \in Nat
    PROVE  /\ Update(op, g, l, c, k) \in Updates
           /\ Update(op, g, l, c, k).op = op /\ Update(op, g, l, c, k).gen = g
           /\ Update(op, g, l, c, k).list = l /\ Update(op, g, l, c, k).chunks = c
           /\ Update(op, g, l, c, k).key = k
  BY DEF Update, Updates

LEMMA ListUpdates ==
    ASSUME NEW l \in Seq(Message)
    PROVE  Evaluated(l) \in Updates /\ Replace(l) \in Updates
  <1>1. /\ "evaluated" \in Ops /\ "replace" \in Ops /\ 0 \in Gens /\ <<>> \in Seq(Signs)
        /\ 0 \in Nat
    BY PlaygroundBounds DEF Ops, Gens
  <1> QED BY <1>1, UpdateTyped DEF Evaluated, Replace

\* A result that was computed at once is what the next render shows.
LEMMA RenderedEvaluated ==
    ASSUME NEW s \in Seq(Message), NEW ms \in Seq(Message), NEW g, loaded \in BOOLEAN
    PROVE  Rendered(View(s, <<Evaluated(ms)>>, ms, loaded), g) = View(ms, <<>>, ms, loaded)
  <1>1. PICK q \in Seq(Updates) : q = <<>>
    <2>1. <<>> \in Seq(Updates)
      BY EmptySeq
    <2> QED BY <2>1, Zenon
  <1>2. PICK y \in Views : y = View(s, q, ms, loaded)
    BY ViewTyped
  <1>3. y.shown = s /\ y.queue = q /\ y.latest = ms /\ y.saving = loaded
    BY <1>2, ViewIs
  <1>4. PICK u \in Updates : u = Evaluated(ms)
    BY ListUpdates
  <1>5. Append(q, u) = <<Evaluated(ms)>>
    BY <1>1, <1>4
  <1>6. Rendered(View(s, <<Evaluated(ms)>>, ms, loaded), g) = Ran(Rendered(y, g), u, g)
    BY <1>3, <1>5, RenderedAppend
  <1>7. Rendered(y, g) = y
    BY <1>1, <1>3, RenderedIdle
  <1>8. Run(u, y.shown, g) = ms /\ u.op = "evaluated"
    BY <1>4, RunEvaluated
  <1>9. Ran(y, u, g) = View(ms, y.queue, y.latest, y.saving)
    BY <1>8, RanFields
  <1> QED BY <1>1, <1>3, <1>6, <1>7, <1>9

\* setMessages never changes what is on the screen.
LEMMA PushTyped ==
    ASSUME NEW v \in Views, NEW u \in Updates, NEW g, NEW e, loaded \in BOOLEAN
    PROVE  /\ Push(v, u, g, e) \in Views
           /\ Push(v, u, g, e).shown = v.shown
           /\ Push(v, u, g, e).latest \in {v.latest, Run(u, v.shown, g)}
           /\ loaded /\ ~Push(v, u, g, e).saving =>
                ~v.saving /\ Push(v, u, g, e).latest = v.latest
  <1>0. /\ v.shown \in Seq(Message) /\ v.latest \in Seq(Message) /\ v.queue \in Seq(Updates)
        /\ v.saving \in BOOLEAN
    BY ViewFields
  <1>1. PICK ms \in Seq(Message) : ms = Run(u, v.shown, g)
    BY <1>0, RunTyped
  <1>2. CASE Push(v, u, g, e) = View(v.shown, Append(v.queue, u), v.latest, v.saving)
    <2>1. Append(v.queue, u) \in Seq(Updates)
      BY <1>0, AppendProperties
    <2>2. Push(v, u, g, e) \in Views
      BY <1>0, <1>2, <2>1, ViewTyped
    <2>3. /\ Push(v, u, g, e).shown = v.shown /\ Push(v, u, g, e).latest = v.latest
          /\ Push(v, u, g, e).saving = v.saving
      BY <1>2, ViewIs
    <2> QED BY <1>1, <2>2, <2>3, Zenon
  <1>3. CASE Push(v, u, g, e) = View(v.shown, <<>>, ms, loaded)
    <2>1. <<>> \in Seq(Updates)
      BY EmptySeq
    <2>2. Push(v, u, g, e) \in Views
      BY <1>0, <1>3, <2>1, ViewTyped
    <2>3. /\ Push(v, u, g, e).shown = v.shown /\ Push(v, u, g, e).latest = ms
          /\ Push(v, u, g, e).saving = loaded
      BY <1>3, ViewIs
    <2> QED BY <1>1, <2>2, <2>3, Zenon
  <1>4. CASE Push(v, u, g, e) = View(v.shown, <<Evaluated(ms)>>, ms, loaded)
    <2>1. <<Evaluated(ms)>> \in Seq(Updates)
      BY ListUpdates
    <2>2. Push(v, u, g, e) \in Views
      BY <1>0, <1>4, <2>1, ViewTyped
    <2>3. /\ Push(v, u, g, e).shown = v.shown /\ Push(v, u, g, e).latest = ms
          /\ Push(v, u, g, e).saving = loaded
      BY <1>4, ViewIs
    <2> QED BY <1>1, <2>2, <2>3, Zenon
  <1> QED BY <1>1, <1>2, <1>3, <1>4, PushFields

\* Whether React runs an updater at once or later makes no difference to what
\* is shown in the end, as long as the request is the same.
LEMMA PushOutcome ==
    ASSUME NEW v \in Views, NEW u \in Updates, NEW g, NEW e, loaded \in BOOLEAN,
           u.op # "evaluated"
    PROVE  Rendered(Push(v, u, g, e), g).shown = Run(u, Rendered(v, g).shown, g)
  <1>0. /\ v.shown \in Seq(Message) /\ v.latest \in Seq(Message) /\ v.queue \in Seq(Updates)
        /\ v.saving \in BOOLEAN
    BY ViewFields
  <1>1. PICK ms \in Seq(Message) : ms = Run(u, v.shown, g)
    BY <1>0, RunTyped
  <1>2. CASE Push(v, u, g, e) = View(v.shown, Append(v.queue, u), v.latest, v.saving)
    <2>1. PICK w \in Views : w = Rendered(v, g)
      BY RenderedTyped
    <2>2. Ran(w, u, g).shown = Run(u, w.shown, g)
      BY RanView
    <2> QED BY <1>2, <2>1, <2>2, RenderedAppend
  <1>3. CASE /\ v.queue = <<>> /\ ms = v.shown
             /\ Push(v, u, g, e) = View(v.shown, <<>>, ms, loaded)
    <2>1. PICK w \in Views : w = Push(v, u, g, e)
      BY PushTyped
    <2>2. w.queue = <<>> /\ w.shown = v.shown
      BY <1>3, <2>1, ViewIs
    <2>3. Rendered(w, g) = w /\ Rendered(v, g) = v
      BY <1>3, <2>2, RenderedIdle
    <2> QED BY <1>1, <1>3, <2>1, <2>2, <2>3
  <1>4. CASE /\ v.queue = <<>>
             /\ Push(v, u, g, e) = View(v.shown, <<Evaluated(ms)>>, ms, loaded)
    <2>1. Rendered(Push(v, u, g, e), g).shown = ms
      BY <1>0, <1>4, RenderedEvaluated, ViewIs
    <2>2. Rendered(v, g) = v
      BY <1>4, RenderedIdle
    <2> QED BY <1>1, <2>1, <2>2
  <1> QED BY <1>1, <1>2, <1>3, <1>4, PushFields

\* d are the views while the n pending updates of v run one after the other.
Steps(d, v, n, g) ==
    /\ \A i \in 0 .. n : d[i] \in Views
    /\ d[0] = View(v.shown, <<>>, v.latest, v.saving)
    /\ \A i \in Nat : i + 1 <= n =>
         /\ v.queue[i + 1] \in Updates /\ i + 1 \in DOMAIN v.queue
         /\ d[i + 1] = Ran(d[i], v.queue[i + 1], g)

\* The first n pending updates ran: every step is a view.
LEMMA DoneTyped ==
    ASSUME NEW v \in Views, NEW g, NEW n \in Nat, n = Len(v.queue), loaded \in BOOLEAN,
           NEW d, Done(d, v, n, g)
    PROVE  Steps(d, v, n, g)
  <1>1. d[0] = View(v.shown, <<>>, v.latest, v.saving)
    BY ViewFields DEF Done
  <1>2. ASSUME NEW i \in Nat, i + 1 <= n
        PROVE  /\ v.queue[i + 1] \in Updates /\ i + 1 \in DOMAIN v.queue
               /\ d[i + 1] = Ran(d[i], v.queue[i + 1], g)
    <2>1. i + 1 \in 1 .. n /\ (i + 1) - 1 = i
      BY <1>2
    <2>2. v.queue[i + 1] \in Updates /\ i + 1 \in DOMAIN v.queue
      <3>1. v.queue \in Seq(Updates) /\ i + 1 \in 1 .. Len(v.queue)
        BY <2>1, ViewFields
      <3> QED BY <3>1
    <2> QED BY <2>1, <2>2 DEF Done
  <1> DEFINE S == {i \in Nat : i <= n => d[i] \in Views}
  <1>3. 0 \in S
    <2>1. v.shown \in Seq(Message) /\ v.latest \in Seq(Message) /\ v.saving \in BOOLEAN
      BY ViewFields
    <2>2. <<>> \in Seq(Updates)
      BY EmptySeq
    <2>3. d[0] \in Views
      BY <1>1, <2>1, <2>2, ViewTyped
    <2> QED BY <2>3
  <1>4. ASSUME NEW i \in Nat, i \in S PROVE i + 1 \in S
    <2> SUFFICES ASSUME i + 1 <= n PROVE d[i + 1] \in Views
      OBVIOUS
    <2>1. d[i] \in Views
      BY <1>4
    <2> QED BY <1>2, <2>1, RanView
  <1> HIDE DEF S
  <1>5. Nat \subseteq S
    BY <1>3, <1>4, SetInduction
  <1>6. \A i \in 0 .. n : d[i] \in Views
    BY <1>5 DEF S
  <1> QED BY <1>1, <1>2, <1>6 DEF Steps

\* After a render the latest messages are those on the screen.
LEMMA RenderedSynced ==
    ASSUME NEW v \in Views, NEW g, NEW h, QueueInv(v, h), loaded \in BOOLEAN
    PROVE  Rendered(v, g).latest = Rendered(v, g).shown
  <1>1. PICK n \in Nat : n = Len(v.queue)
    BY ViewFields
  <1>2. PICK d : Done(d, v, n, g) /\ Rendered(v, g) = d[n]
    BY <1>1, RenderedDone
  <1>3. /\ \A i \in 0 .. n : d[i] \in Views
        /\ d[0] = View(v.shown, <<>>, v.latest, v.saving)
        /\ \A i \in Nat : i + 1 <= n =>
             /\ v.queue[i + 1] \in Updates /\ i + 1 \in DOMAIN v.queue
             /\ d[i + 1] = Ran(d[i], v.queue[i + 1], g)
    <2>1. Steps(d, v, n, g)
      BY <1>1, <1>2, DoneTyped
    <2> QED BY <2>1 DEF Steps
  <1>4. CASE n = 0
    <2>1. v.queue = <<>>
      BY <1>1, <1>4, ViewFields, EmptySeq
    <2>2. v.latest = v.shown
      BY <2>1 DEF QueueInv
    <2> QED BY <1>2, <1>3, <1>4, <2>2, ViewIs
  <1>5. CASE n # 0
    <2>1. PICK i \in Nat : n = i + 1
      <3>1. n - 1 \in Nat /\ n = (n - 1) + 1
        BY <1>5
      <3> QED BY <3>1
    <2>2. PICK u \in Updates : u = v.queue[i + 1]
      BY <1>3, <2>1
    <2>3. PICK w \in Views : w = d[i]
      BY <1>3, <2>1
    <2>4. d[n] = Ran(w, u, g)
      BY <1>3, <2>1, <2>2, <2>3
    <2>5. CASE u.op = "evaluated"
      <3>1. i = 0 /\ u.list = v.latest
        <4>1. i + 1 \in DOMAIN v.queue
          <5>1. i + 1 <= n
            BY <2>1
          <5> QED BY <1>3, <5>1
        <4>2. ~InFlight(v.queue[i + 1], h)
          BY <2>2, <2>5 DEF InFlight
        <4>3. i + 1 = 1 /\ u.list = v.latest
          BY <2>2, <4>1, <4>2 DEF QueueInv
        <4> QED BY <4>3
      <3>2. w.latest = v.latest
        BY <1>3, <2>3, <3>1, ViewIs
      <3>3. Run(u, w.shown, g) = u.list
        BY <2>5 DEF Run
      <3> QED BY <1>2, <2>4, <2>5, <3>1, <3>2, <3>3, RanView
    <2>6. CASE u.op # "evaluated"
      BY <1>2, <2>4, <2>6, RanView
    <2> QED BY <2>5, <2>6
  <1> QED BY <1>4, <1>5

\* When the request has changed, its pending updates change nothing: the
\* latest messages are shown.
LEMMA RenderedStale ==
    ASSUME NEW v \in Views, NEW g, NEW h, QueueInv(v, h), g # h, loaded \in BOOLEAN
    PROVE  Rendered(v, g).shown = v.latest
  <1>1. PICK n \in Nat : n = Len(v.queue)
    BY ViewFields
  <1>2. PICK d : Done(d, v, n, g) /\ Rendered(v, g) = d[n]
    BY <1>1, RenderedDone
  <1>3. /\ \A i \in 0 .. n : d[i] \in Views
        /\ d[0] = View(v.shown, <<>>, v.latest, v.saving)
        /\ \A i \in Nat : i + 1 <= n =>
             /\ v.queue[i + 1] \in Updates /\ i + 1 \in DOMAIN v.queue
             /\ d[i + 1] = Ran(d[i], v.queue[i + 1], g)
    <2>1. Steps(d, v, n, g)
      BY <1>1, <1>2, DoneTyped
    <2> QED BY <2>1 DEF Steps
  <1>4. d[0].shown = v.shown /\ d[0].latest = v.latest
    BY <1>3, ViewIs
  <1> DEFINE S == {i \in Nat : i <= n => /\ d[i].latest = v.latest
                                         /\ i # 0 => d[i].shown = v.latest}
  <1>5. 0 \in S
    BY <1>4
  <1>6. ASSUME NEW i \in Nat, i \in S PROVE i + 1 \in S
    <2> SUFFICES ASSUME i + 1 <= n
                 PROVE  d[i + 1].latest = v.latest /\ d[i + 1].shown = v.latest
      OBVIOUS
    <2>1. d[i].latest = v.latest /\ (i # 0 => d[i].shown = v.latest)
      BY <1>6
    <2>2. PICK u \in Updates : u = v.queue[i + 1]
      BY <1>3
    <2>3. PICK w \in Views : w = d[i]
      BY <1>3
    <2>4. d[i + 1] = Ran(w, u, g) /\ i + 1 \in DOMAIN v.queue
      BY <1>3, <2>2, <2>3
    <2>5. CASE u.op = "evaluated"
      <3>1. u.list = v.latest
        <4>1. ~InFlight(v.queue[i + 1], h)
          BY <2>2, <2>5 DEF InFlight
        <4> QED BY <2>2, <2>4, <4>1 DEF QueueInv
      <3>2. Run(u, w.shown, g) = u.list
        BY <2>5 DEF Run
      <3> QED BY <2>1, <2>3, <2>4, <2>5, <3>1, <3>2, RanView
    <2>6. CASE u.op # "evaluated"
      <3>1. InFlight(u, h)
        BY <2>2, <2>4, <2>6 DEF QueueInv
      <3>2. Run(u, w.shown, g) = w.shown
        <4>1. u.op \in LastOps /\ u.gen # g
          BY <3>1 DEF InFlight, LastOps
        <4>2. w.shown \in Seq(Message)
          BY ViewFields
        <4> QED BY <4>1, <4>2, RunLast
      <3>3. w.shown = v.latest
        <4>1. CASE i = 0
          <5>1. v.queue[1] = u
            BY <2>2, <4>1
          <5>2. v.latest = v.shown
            BY <2>6, <5>1 DEF QueueInv
          <5> QED BY <1>4, <2>3, <4>1, <5>2
        <4>2. CASE i # 0
          BY <2>1, <2>3, <4>2
        <4> QED BY <4>1, <4>2
      <3> QED BY <2>4, <2>6, <3>2, <3>3, RanView
    <2> QED BY <2>5, <2>6
  <1> HIDE DEF S
  <1>7. n \in S
    BY <1>5, <1>6, SetInduction
  <1>8. CASE n = 0
    <2>1. v.queue = <<>>
      BY <1>1, <1>8, ViewFields, EmptySeq
    <2>2. v.latest = v.shown
      BY <2>1 DEF QueueInv
    <2> QED BY <1>2, <1>4, <1>8, <2>2
  <1>9. CASE n # 0
    BY <1>2, <1>7, <1>9 DEF S
  <1> QED BY <1>8, <1>9

\* A render that leaves nothing to save changed nothing that was saved.
LEMMA RenderedSaves ==
    ASSUME NEW v \in Views, NEW g, loaded \in BOOLEAN, loaded
    PROVE  ~Rendered(v, g).saving => ~v.saving /\ Rendered(v, g).latest = v.latest
  <1> DEFINE P == {w \in Views : ~w.saving => ~v.saving /\ w.latest = v.latest}
  <1>1. [v EXCEPT !.queue = <<>>] \in P
    <2>1. PICK w : w = [v EXCEPT !.queue = <<>>]
      OBVIOUS
    <2>2. w = View(v.shown, <<>>, v.latest, v.saving)
      BY <2>1, ViewFields
    <2>3. v.shown \in Seq(Message) /\ v.latest \in Seq(Message) /\ v.saving \in BOOLEAN
      BY ViewFields
    <2>4. <<>> \in Seq(Updates)
      BY EmptySeq
    <2>5. w \in Views
      BY <2>2, <2>3, <2>4, ViewTyped
    <2>6. w.saving = v.saving /\ w.latest = v.latest
      BY <2>2, ViewIs
    <2> QED BY <2>1, <2>5, <2>6, Zenon
  <1>2. ASSUME NEW w \in P, NEW i \in 1 .. Len(v.queue) PROVE Ran(w, v.queue[i], g) \in P
    <2>1. PICK u \in Updates : u = v.queue[i]
      <3>1. v.queue \in Seq(Updates)
        BY ViewFields
      <3>2. v.queue[i] \in Updates
        BY <3>1
      <3> QED BY <3>2
    <2>2. w \in Views
      OBVIOUS
    <2>3. Ran(w, u, g) \in Views
      BY <2>2, RanView
    <2>4. CASE u.op = "evaluated"
      <3>1. Ran(w, u, g).latest = w.latest /\ Ran(w, u, g).saving = w.saving
        BY <2>2, <2>4, RanView
      <3> QED BY <2>1, <2>3, <3>1, Zenon
    <2>5. CASE u.op # "evaluated"
      <3>1. Ran(w, u, g).saving = loaded
        BY <2>2, <2>5, RanView
      <3> QED BY <2>1, <2>3, <3>1, Zenon
    <2> QED BY <2>4, <2>5
  <1>3. Len(v.queue) \in Nat
    BY ViewFields
  <1> HIDE DEF P
  <1>4. Rendered(v, g) \in P
    BY <1>1, <1>2, <1>3, RenderedIn
  <1> QED BY <1>4 DEF P

\* An update by a click with nothing pending is rendered when the click ends.
LEMMA IdleClick ==
    ASSUME NEW v \in Views, NEW u \in Updates, NEW g, NEW e, loaded \in BOOLEAN,
           u.op # "evaluated", v.queue = <<>>, NEW ms, ms = Run(u, v.shown, g)
    PROVE  Rendered(Push(v, u, g, e), g) = View(ms, <<>>, ms, loaded)
  <1>0. ms \in Seq(Message) /\ v.shown \in Seq(Message)
    BY RunTyped, ViewFields
  <1>1. CASE Push(v, u, g, e) = View(v.shown, Append(v.queue, u), v.latest, v.saving)
    <2>1. Rendered(v, g) = v
      BY RenderedIdle
    <2>2. Ran(v, u, g) = View(ms, v.queue, ms, loaded)
      BY RanView
    <2> QED BY <1>1, <2>1, <2>2, RenderedAppend
  <1>2. CASE ms = v.shown /\ Push(v, u, g, e) = View(v.shown, <<>>, ms, loaded)
    <2>1. PICK w \in Views : w = Push(v, u, g, e)
      BY PushTyped
    <2>2. w.queue = <<>>
      BY <1>2, <2>1, ViewIs
    <2> QED BY <1>2, <2>1, <2>2, RenderedIdle
  <1>3. CASE Push(v, u, g, e) = View(v.shown, <<Evaluated(ms)>>, ms, loaded)
    BY <1>0, <1>3, RenderedEvaluated
  <1>4. \/ Push(v, u, g, e) = View(v.shown, Append(v.queue, u), v.latest, v.saving)
        \/ ms = v.shown /\ Push(v, u, g, e) = View(v.shown, <<>>, ms, loaded)
        \/ Push(v, u, g, e) = View(v.shown, <<Evaluated(ms)>>, ms, loaded)
    BY PushFields, ZenonT(20)
  <1> QED BY <1>1, <1>2, <1>3, <1>4, Zenon

\* A click that replaces the messages leaves exactly its list, whatever was
\* pending, and also when it changes the request.
LEMMA ReplacingClick ==
    ASSUME NEW v \in Views, NEW l \in Seq(Message), NEW g, NEW h, NEW e, loaded \in BOOLEAN
    PROVE  Rendered(Push(v, Replace(l), g, e), h) = View(l, <<>>, l, loaded)
  <1>0. PICK u \in Updates : u = Replace(l)
    BY ListUpdates
  <1>1. u.op = "replace" /\ \A ms : Run(u, ms, g) = l /\ Run(u, ms, h) = l
    BY <1>0, RunEvaluated
  <1>2. v.shown \in Seq(Message) /\ l = Run(u, v.shown, g)
    BY <1>1, ViewFields
  <1>3. CASE Push(v, u, g, e) = View(v.shown, Append(v.queue, u), v.latest, v.saving)
    <2>1. PICK w \in Views : w = Rendered(v, h) /\ w.queue = <<>>
      BY RenderedTyped
    <2>2. Ran(w, u, h) = View(l, w.queue, l, loaded)
      BY <1>1, RanView
    <2> QED BY <1>0, <1>3, <2>1, <2>2, RenderedAppend
  <1>4. CASE l = v.shown /\ Push(v, u, g, e) = View(v.shown, <<>>, l, loaded)
    <2>1. PICK w \in Views : w = Push(v, u, g, e)
      BY PushTyped
    <2>2. w.queue = <<>>
      BY <1>4, <2>1, ViewIs
    <2> QED BY <1>0, <1>4, <2>1, <2>2, RenderedIdle
  <1>5. CASE Push(v, u, g, e) = View(v.shown, <<Evaluated(l)>>, l, loaded)
    BY <1>0, <1>2, <1>5, RenderedEvaluated
  <1> QED BY <1>0, <1>2, <1>3, <1>4, <1>5, PushFields

-----------------------------------------------------------------------------
(* Lists of sane messages.                                                 *)

LEMMA SaneBecomes ==
    ASSUME NEW g, NEW k, NEW m \in Sane(g, k), m.role = "assistant", NEW a, NEW s, NEW t,
           Becomes(a, m, s, t), t \in Seq(From(m.req))
    PROVE  a \in Sane(g, k)
  BY DEF Sane, Becomes, Own

LEMMA SaneGrows ==
    ASSUME NEW g \in Nat, NEW k \in Nat, NEW h \in Nat, NEW l \in Nat, g <= h, k <= l
    PROVE  Sane(g, k) \subseteq Sane(h, l) /\ Seq(Sane(g, k)) \subseteq Seq(Sane(h, l))
  <1>1. ASSUME NEW m \in Sane(g, k) PROVE m \in Sane(h, l)
    <2>1. m.key \in 1 .. 2 * k + 2 /\ m.req \in Nat /\ m.req <= g
      BY DEF Sane, Message, Gens
    <2>2. m.key \in 1 .. 2 * l + 2 /\ m.req <= h
      BY <2>1
    <2> QED BY <2>2 DEF Sane
  <1>2. Sane(g, k) \subseteq Sane(h, l)
    BY <1>1
  <1> QED BY <1>2, SeqMonotonic

LEMMA SaneLists ==
    ASSUME NEW g, NEW k
    PROVE  Seq(Sane(g, k)) \subseteq Seq(Message)
  <1>1. Sane(g, k) \subseteq Message
    BY DEF Sane
  <1> QED BY <1>1, SeqMonotonic

\* Updates of an answer by its own request, and stop, keep it an answer of it.
LEMMA AnsweredSane ==
    ASSUME NEW g, NEW k, NEW m \in Sane(g, k), m.role = "assistant", NEW u \in Updates,
           \/ InFlight(u, g) /\ m.req = g
           \/ u.op = "stop"
    PROVE  Answered(u, m) \in Sane(g, k)
  <1>0. m \in Message /\ m.text \in Seq(From(m.req)) /\ m.req \in Gens
    BY DEF Sane, Own, Message
  <1>1. Becomes(Answered(u, m), m, AnsweredStatus(u, m), AnsweredText(u, m))
    BY <1>0, AnsweredFields
  <1>2. AnsweredText(u, m) \in Seq(From(m.req))
    <2>1. CASE u.op = "append" /\ m.status # "error"
      <3>1. u.chunks \in Seq(From(m.req))
        BY <2>1 DEF InFlight
      <3>2. Joined(m.text, u.chunks) \in Seq(From(m.req))
        BY <1>0, <3>1, JoinedText
      <3> QED BY <2>1, <3>2 DEF AnsweredText
    <2>2. CASE u.op \in {"finish", "stop"} \/ (u.op = "append" /\ m.status = "error")
      BY <1>0, <2>2 DEF AnsweredText
    <2>3. CASE u.op = "answer"
      <3>1. u.gen = m.req
        BY <2>3 DEF InFlight
      <3>2. AnsweredText(u, m) = SomeText(m.req)
        BY <2>3, <3>1 DEF AnsweredText
      <3> QED BY <1>0, <3>2, OwnTexts
    <2>4. CASE u.op \notin {"append", "finish", "stop", "answer"}
      <3>1. AnsweredText(u, m) = SomeText(m.req)
        BY <2>4 DEF AnsweredText
      <3> QED BY <1>0, <3>1, OwnTexts
    <2> QED BY <2>1, <2>2, <2>3, <2>4
  <1> QED BY <1>1, <1>2, SaneBecomes

\* A callback of the current request leaves a list whose last message is its
\* answer.
LEMMA RunInFlight ==
    ASSUME NEW g, NEW k, NEW ed, NEW ms \in Lists(g, k, TRUE, ed), NEW u \in Updates,
           InFlight(u, g)
    PROVE  /\ Run(u, ms, g) \in Lists(g, k, TRUE, ed)
           /\ Run(u, ms, g) = WithLast(ms, Answered(u, ms[Len(ms)]))
           /\ ms[Len(ms)] \in Message
  <1>1. /\ ms \in Seq(Sane(g, k)) /\ Answering(ms, g, ed) /\ ms # <<>>
        /\ ms[Len(ms)].role = "assistant" /\ ms[Len(ms)].req = g /\ ms[Len(ms)].key # ed
        /\ u.gen = g /\ u.op \in LastOps
    BY DEF Lists, Answering, InFlight, LastOps
  <1>2. ms \in Seq(Message)
    BY <1>1, SaneLists
  <1>3. PICK m \in Sane(g, k) : m = ms[Len(ms)]
    BY <1>1
  <1>4. m \in Message
    BY DEF Sane
  <1>5. PICK a \in Sane(g, k) : a = Answered(u, m)
    BY <1>1, <1>3, AnsweredSane
  <1>6. a.role = m.role /\ a.key = m.key /\ a.req = m.req
    BY <1>4, <1>5, AnsweredFields DEF Becomes
  <1>7. Run(u, ms, g) = WithLast(ms, a)
    BY <1>1, <1>2, <1>3, <1>5, RunLast
  <1>8. PICK r : r = WithLast(ms, a)
    OBVIOUS
  <1>9. /\ r \in Seq(Sane(g, k)) /\ r # <<>>
        /\ Len(r) = Len(ms) /\ DOMAIN r = DOMAIN ms
        /\ r[Len(ms)] = a
        /\ \A i \in DOMAIN ms : i # Len(ms) => r[i] = ms[i]
    BY <1>1, <1>8, WithLastIs
  <1>10. Answering(r, g, ed)
    BY <1>1, <1>3, <1>6, <1>9 DEF Answering
  <1> QED BY <1>3, <1>4, <1>5, <1>7, <1>8, <1>9, <1>10 DEF Lists

LEMMA ListsTyped ==
    ASSUME NEW g, NEW k, NEW b, NEW ed
    PROVE  Lists(g, k, b, ed) \subseteq Seq(Message) /\ Lists(g, k, b, ed) \subseteq Seq(Sane(g, k))
  BY SaneLists DEF Lists

\* A callback's update keeps the page in order.
LEMMA PagePush ==
    ASSUME NEW v, NEW g, NEW k, NEW ed, PageInv(v, g, k, TRUE, ed), loaded \in BOOLEAN,
           NEW u \in Updates, InFlight(u, g), NEW e
    PROVE  PageInv(Push(v, u, g, e), g, k, TRUE, ed)
  <1>0. v \in Views /\ QueueInv(v, g) /\ v.shown \in Lists(g, k, TRUE, ed)
    BY DEF PageInv
  <1>1. PICK w : w = Push(v, u, g, e)
    OBVIOUS
  <1>2. PICK ms \in Lists(g, k, TRUE, ed) : ms = Run(u, v.shown, g)
    BY <1>0, RunInFlight
  <1>3. w \in Views /\ w.shown = v.shown /\ w.latest \in {v.latest, ms}
    BY <1>0, <1>1, <1>2, PushTyped
  <1>4. QueueInv(w, g)
    <2>0. v.queue \in Seq(Updates)
      BY <1>0, ViewFields
    <2>1. CASE w = View(v.shown, Append(v.queue, u), v.latest, v.saving)
      <3>1. w.queue = Append(v.queue, u) /\ w.latest = v.latest
        <4>1. PICK q : q = Append(v.queue, u)
          OBVIOUS
        <4>2. w = View(v.shown, q, v.latest, v.saving)
          BY <2>1, <4>1
        <4>3. w.queue = q /\ w.latest = v.latest
          BY <4>2, ViewIs
        <4> QED BY <4>1, <4>3
      <3>2. PICK n \in Nat : n = Len(v.queue) /\ DOMAIN v.queue = 1 .. n
        BY <2>0
      <3>3. /\ DOMAIN w.queue = 1 .. n + 1 /\ w.queue[n + 1] = u
            /\ \A i \in 1 .. n : w.queue[i] = v.queue[i]
        BY <2>0, <3>1, <3>2, AppendProperties
      <3>4. ASSUME NEW i \in DOMAIN w.queue
            PROVE  \/ w.queue[i].op = "evaluated" /\ i = 1 /\ w.queue[i].list = w.latest
                   \/ InFlight(w.queue[i], g)
        <4>1. CASE i = n + 1
          BY <3>3, <4>1
        <4>2. CASE i # n + 1
          <5>1. i \in DOMAIN v.queue /\ w.queue[i] = v.queue[i]
            BY <3>2, <3>3, <4>2
          <5> QED BY <1>0, <3>1, <5>1 DEF QueueInv
        <4> QED BY <4>1, <4>2
      <3>5. ASSUME w.queue = <<>> \/ w.queue[1].op # "evaluated" PROVE w.latest = w.shown
        <4>1. CASE n = 0
          <5>1. v.queue = <<>>
            BY <2>0, <3>2, <4>1, EmptySeq
          <5> QED BY <1>0, <1>3, <3>1, <5>1 DEF QueueInv
        <4>2. CASE n # 0
          <5>1. 1 \in 1 .. n /\ w.queue[1] = v.queue[1] /\ w.queue # <<>>
            BY <2>0, <3>1, <3>3, <4>2, AppendProperties
          <5>2. v.queue[1].op # "evaluated"
            BY <3>5, <5>1
          <5> QED BY <1>0, <1>3, <3>1, <5>2 DEF QueueInv
        <4> QED BY <4>1, <4>2
      <3> QED BY <3>4, <3>5 DEF QueueInv
    <2>2. CASE ms = v.shown /\ w = View(v.shown, <<>>, ms, loaded)
      <3>1. w.queue = <<>> /\ w.latest = ms
        BY <2>2, ViewIs
      <3>2. DOMAIN w.queue = {}
        BY <3>1
      <3> QED BY <1>3, <2>2, <3>1, <3>2 DEF QueueInv
    <2>3. CASE w = View(v.shown, <<Evaluated(ms)>>, ms, loaded)
      <3>1. w.queue = <<Evaluated(ms)>> /\ w.latest = ms
        BY <2>3, ViewIs
      <3>2. DOMAIN w.queue = {1} /\ w.queue[1] = Evaluated(ms) /\ w.queue # <<>>
        BY <3>1
      <3>3. w.queue[1].op = "evaluated" /\ w.queue[1].list = w.latest
        BY <3>1, <3>2, RunEvaluated
      <3> QED BY <3>2, <3>3 DEF QueueInv
    <2> QED BY <1>0, <1>1, <1>2, <2>1, <2>2, <2>3, PushFields
  <1> QED BY <1>1, <1>2, <1>3, <1>4 DEF PageInv

\* A render keeps the page in order, and nothing is pending after it.
LEMMA PageRendered ==
    ASSUME NEW v, NEW g, NEW k, NEW b \in BOOLEAN, NEW ed, PageInv(v, g, k, b, ed),
           loaded \in BOOLEAN
    PROVE  /\ Rendered(v, g) \in Views /\ Rendered(v, g).queue = <<>>
           /\ Rendered(v, g).shown \in Lists(g, k, b, ed)
           /\ Rendered(v, g).latest = Rendered(v, g).shown
  <1>0. v \in Views /\ QueueInv(v, g)
    BY DEF PageInv
  <1>1. ASSUME NEW i \in DOMAIN v.queue, NEW ms \in Lists(g, k, b, ed)
        PROVE  Run(v.queue[i], ms, g) \in Lists(g, k, b, ed)
    <2>0. PICK u \in Updates : u = v.queue[i]
      <3>1. v.queue \in Seq(Updates)
        BY <1>0, ViewFields
      <3>2. v.queue[i] \in Updates
        BY <3>1
      <3> QED BY <3>2
    <2>1. CASE u.op = "evaluated"
      <3>1. u.list = v.latest
        <4>1. ~InFlight(u, g)
          BY <2>1 DEF InFlight
        <4> QED BY <1>0, <2>0, <4>1 DEF QueueInv
      <3>2. Run(u, ms, g) = u.list
        BY <2>1 DEF Run
      <3> QED BY <2>0, <3>1, <3>2 DEF PageInv
    <2>2. CASE u.op # "evaluated"
      <3>1. InFlight(u, g)
        BY <1>0, <2>0, <2>2 DEF QueueInv
      <3>2. b = TRUE
        <4>1. v.queue # <<>>
          BY <1>0, ViewFields
        <4>2. CASE v.shown = <<>> /\ Len(v.queue) = 1 /\ v.queue[1].op = "evaluated"
          <5>1. i = 1
            BY <1>0, <4>2, ViewFields
          <5> QED BY <2>0, <2>2, <4>2, <5>1
        <4> QED BY <4>1, <4>2 DEF PageInv
      <3> QED BY <2>0, <3>1, <3>2, RunInFlight
    <2> QED BY <2>1, <2>2
  <1>2. Rendered(v, g) \in Views /\ Rendered(v, g).queue = <<>> /\ Rendered(v, g).shown \in Lists(g, k, b, ed)
    <2>1. PICK G : G = Lists(g, k, b, ed)
      OBVIOUS
    <2>2. G \subseteq Seq(Message) /\ v.shown \in G /\ v.latest \in G
      BY <2>1, ListsTyped DEF PageInv
    <2>3. \A i \in DOMAIN v.queue : \A ms \in G : Run(v.queue[i], ms, g) \in G
      BY <1>1, <2>1
    <2>4. /\ Rendered(v, g) \in Views /\ Rendered(v, g).queue = <<>>
          /\ Rendered(v, g).shown \in G
      BY <1>0, <2>2, <2>3, RenderedClosed, SMTT(20)
    <2> QED BY <2>1, <2>4
  <1> QED BY <1>0, <1>2, RenderedSynced

\* A page without pending updates.
LEMMA PageIdle ==
    ASSUME NEW v \in Views, NEW g, NEW k, NEW b, NEW ed, v.queue = <<>>,
           v.shown \in Lists(g, k, b, ed), v.latest = v.shown
    PROVE  PageInv(v, g, k, b, ed)
  <1>1. DOMAIN v.queue = {}
    OBVIOUS
  <1> QED BY <1>1 DEF PageInv, QueueInv

\* Moves, the end of an answer and a closed editor restrict a list no more.
LEMMA ListsGrow ==
    ASSUME NEW g \in Nat, NEW k \in Nat, NEW l \in Nat, k <= l, NEW b \in BOOLEAN,
           NEW c \in BOOLEAN, c => b, NEW ed, NEW fd, c => fd \in {0, ed}
    PROVE  Lists(g, k, b, ed) \subseteq Lists(g, l, c, fd)
  <1> SUFFICES ASSUME NEW ms \in Lists(g, k, b, ed) PROVE ms \in Lists(g, l, c, fd)
    OBVIOUS
  <1>1. ms \in Seq(Sane(g, k)) /\ (b => Answering(ms, g, ed))
    BY DEF Lists
  <1>2. ms \in Seq(Sane(g, l))
    BY <1>1, SaneGrows
  <1>3. ASSUME c PROVE Answering(ms, g, fd)
    <2>1. Answering(ms, g, ed) /\ ms # <<>>
      BY <1>1, <1>3 DEF Answering
    <2>2. ms[Len(ms)] \in Sane(g, k)
      BY <1>1, <2>1
    <2>3. ms[Len(ms)].key # 0
      BY <2>2 DEF Sane
    <2> QED BY <1>3, <2>1, <2>3 DEF Answering
  <1> QED BY <1>2, <1>3 DEF Lists

LEMMA PageGrows ==
    ASSUME NEW v, NEW g \in Nat, NEW k \in Nat, NEW l \in Nat, k <= l, NEW b \in BOOLEAN,
           NEW ed, NEW fd, b => fd \in {0, ed}, PageInv(v, g, k, b, ed)
    PROVE  PageInv(v, g, l, b, fd)
  <1>1. Lists(g, k, b, ed) \subseteq Lists(g, l, b, fd)
    BY ListsGrow
  <1> QED BY <1>1 DEF PageInv

\* A set of numbers has a least element, and a bounded one a greatest.
LEMMA LeastIn ==
    ASSUME NEW S, S \subseteq Nat, S # {}
    PROVE  Min(S) \in S /\ \A y \in S : Min(S) <= y
  <1> DEFINE Less == {p \in Nat \X Nat : p[1] < p[2]}
  <1>1. IsWellFoundedOn(Less, Nat)
    BY NatLessThanWellFounded DEF OpToRel
  <1>2. PICK x \in S : \A y \in S : ~(<<y, x>> \in Less)
    <2> HIDE DEF Less
    <2> QED BY <1>1, WFMin
  <1>3. \A y \in S : x <= y
    <2> SUFFICES ASSUME NEW y \in S PROVE x <= y
      OBVIOUS
    <2>1. x \in Nat /\ y \in Nat /\ ~(y < x)
      BY <1>2
    <2> QED BY <2>1
  <1> HIDE DEF Less
  <1> QED BY <1>3 DEF Min

LEMMA GreatestIn ==
    ASSUME NEW n \in Nat, NEW S, S \subseteq 1 .. n, S # {}
    PROVE  Max(S) \in S /\ \A y \in S : y <= Max(S)
  <1> DEFINE T == {n - x : x \in S}
  <1>1. T \subseteq Nat /\ T # {}
    <2>1. T \subseteq Nat
      <3>1. ASSUME NEW x \in S PROVE n - x \in Nat
        <4>1. x \in 1 .. n
          OBVIOUS
        <4> QED BY <4>1
      <3> QED BY <3>1
    <2>2. PICK x \in S : TRUE
      OBVIOUS
    <2>3. n - x \in T
      OBVIOUS
    <2> QED BY <2>1, <2>3
  <1>2. PICK t \in T : \A y \in T : t <= y
    <2> HIDE DEF T
    <2> QED BY <1>1, LeastIn
  <1>3. PICK x \in S : t = n - x
    OBVIOUS
  <1>4. \A y \in S : x >= y
    <2> SUFFICES ASSUME NEW y \in S PROVE x >= y
      OBVIOUS
    <2>1. n - x <= n - y
      BY <1>2, <1>3
    <2>2. x \in 1 .. n /\ y \in 1 .. n
      OBVIOUS
    <2> QED BY <2>1, <2>2
  <1> HIDE DEF T
  <1>5. Max(S) \in S /\ \A y \in S : Max(S) >= y
    BY <1>4 DEF Max
  <1> QED BY <1>5

\* FindIndex finds a message with the key.
LEMMA FindIndexIs ==
    ASSUME NEW ms \in Seq(Message), NEW k, FindIndex(ms, k) # 0
    PROVE  FindIndex(ms, k) \in DOMAIN ms /\ ms[FindIndex(ms, k)].key = k
  <1> DEFINE I == {i \in 1 .. Len(ms) : ms[i].key = k}
  <1>1. FindIndex(ms, k) = IF I # {} THEN Min(I) ELSE 0
    BY DEF FindIndex, SelectInSeq
  <1>2. I # {} /\ FindIndex(ms, k) = Min(I)
    <2> HIDE DEF I
    <2> QED BY <1>1
  <1>3. Min(I) \in I
    <2>1. I \subseteq Nat
      OBVIOUS
    <2> HIDE DEF I
    <2> QED BY <1>2, <2>1, LeastIn
  <1> QED BY <1>2, <1>3

\* What a stored message becomes when it is loaded.
LEMMA NormalizedFields ==
    ASSUME NEW g, NEW k, NEW m \in Sane(g, k)
    PROVE  /\ NormalizeStoredMessage(m) \in Sane(g, k)
           /\ ~Pending(m) => NormalizeStoredMessage(m) = m
           /\ NormalizeStoredMessage(m).req = m.req /\ NormalizeStoredMessage(m).role = m.role
  <1>1. CASE Pending(m) /\ m.text # <<>>
    <2>1. m \in Message /\ m.role = "assistant" /\ "complete" \in Statuses /\ m.text \in Seq(From(m.req))
      BY <1>1 DEF Sane, Message, Pending, Statuses, Own
    <2>2. Becomes(NormalizeStoredMessage(m), m, "complete", m.text)
      BY <1>1, <2>1, RestatedFields DEF NormalizeStoredMessage, CompleteAssistantMessage
    <2> QED BY <1>1, <2>1, <2>2, SaneBecomes DEF Becomes
  <1>2. CASE ~(Pending(m) /\ m.text # <<>>)
    BY <1>2 DEF NormalizeStoredMessage
  <1> QED BY <1>1, <1>2

\* The list that loadMessages shows and stores.
LoadedList(st) == SanitizeMessagesOnLoad([i \in DOMAIN st |-> NormalizeStoredMessage(st[i])])

LEMMA LoadedSane ==
    ASSUME NEW g, NEW k, NEW st \in Seq(Sane(g, k))
    PROVE  /\ LoadedList(st) \in Seq(Sane(g, k)) /\ DOMAIN LoadedList(st) = DOMAIN st
           /\ \A i \in DOMAIN st : /\ LoadedList(st)[i] = st[i] \/ Pending(st[i])
                                   /\ LoadedList(st)[i].req = st[i].req
                                   /\ LoadedList(st)[i].role = st[i].role
           /\ FrontSettled(st) => Settled(LoadedList(st))
  <1>0. PICK n \in Nat : n = Len(st) /\ DOMAIN st = 1 .. n
    OBVIOUS
  <1>1. PICK ms : ms = [i \in DOMAIN st |-> NormalizeStoredMessage(st[i])]
    OBVIOUS
  <1>2. /\ DOMAIN ms = 1 .. n
        /\ \A i \in 1 .. n : /\ ms[i] \in Sane(g, k)
                             /\ ~Pending(st[i]) => ms[i] = st[i]
                             /\ ms[i].req = st[i].req /\ ms[i].role = st[i].role
    <2>1. ASSUME NEW i \in 1 .. n
          PROVE  /\ ms[i] \in Sane(g, k) /\ (~Pending(st[i]) => ms[i] = st[i])
                 /\ ms[i].req = st[i].req /\ ms[i].role = st[i].role
      <3>1. st[i] \in Sane(g, k) /\ ms[i] = NormalizeStoredMessage(st[i])
        BY <1>0, <1>1
      <3> QED BY <3>1, NormalizedFields
    <2> QED BY <1>0, <1>1, <2>1
  <1>3. ms \in Seq(Sane(g, k)) /\ Len(ms) = n
    <2>1. ms \in [1 .. n -> Sane(g, k)]
      BY <1>0, <1>1, <1>2
    <2> QED BY <2>1
  <1> DEFINE stuck == {i \in DOMAIN ms : Pending(ms[i])}
  <1>4. CASE stuck = {}
    <2>1. LoadedList(st) = ms
      BY <1>1, <1>4 DEF LoadedList, SanitizeMessagesOnLoad
    <2>2. Settled(ms)
      BY <1>4 DEF Settled
    <2> QED BY <1>0, <1>2, <1>3, <2>1, <2>2
  <1>5. CASE stuck # {}
    <2>1. PICK j : j = Max(stuck)
      OBVIOUS
    <2>2. j \in stuck /\ j \in 1 .. n
      <3>1. stuck \subseteq 1 .. n
        BY <1>2
      <3> HIDE DEF stuck
      <3> QED BY <1>5, <2>1, <3>1, GreatestIn
    <2>3. Pending(ms[j]) /\ ms[j] \in Sane(g, k) /\ Pending(st[j])
      BY <1>2, <2>2
    <2>4. PICK a : a = FailedMessage(ms[j])
      OBVIOUS
    <2>5. Becomes(a, ms[j], "error", SomeText(ms[j].req)) /\ ms[j].role = "assistant"
      <3>1. ms[j] \in Message
        BY <2>3 DEF Sane
      <3>2. ms[j].role = "assistant"
        BY <2>3 DEF Sane, Message, Pending
      <3> QED BY <2>4, <3>1, <3>2, FailedFields
    <2>6. a \in Sane(g, k) /\ ~Pending(a)
      <3>1. SomeText(ms[j].req) \in Seq(From(ms[j].req))
        BY <2>3, OwnTexts DEF Sane, Message
      <3>2. a \in Sane(g, k)
        BY <2>3, <2>5, <3>1, SaneBecomes
      <3> QED BY <2>5, <3>2 DEF Becomes, Pending
    <2>7. PICK r : r = [ms EXCEPT ![j] = a]
      OBVIOUS
    <2>8. LoadedList(st) = r
      <3>1. LoadedList(st) = SanitizeMessagesOnLoad(ms)
        BY <1>1 DEF LoadedList
      <3> QED BY <1>5, <2>1, <2>4, <2>7, <3>1 DEF SanitizeMessagesOnLoad
    <2>9. /\ r \in Seq(Sane(g, k)) /\ DOMAIN r = 1 .. n
          /\ \A i \in 1 .. n : r[i] = IF i = j THEN a ELSE ms[i]
      BY <1>2, <1>3, <2>2, <2>6, <2>7, ExceptSeq
    <2>10. \A i \in DOMAIN st : /\ r[i] = st[i] \/ Pending(st[i])
                                /\ r[i].req = st[i].req /\ r[i].role = st[i].role
      <3>1. a.req = ms[j].req /\ a.role = ms[j].role
        BY <2>5 DEF Becomes
      <3> QED BY <1>0, <1>2, <2>3, <2>9, <3>1
    <2>11. ASSUME FrontSettled(st) PROVE Settled(r)
      <3>1. j = n
        BY <1>0, <2>2, <2>3, <2>11 DEF FrontSettled
      <3>2. ASSUME NEW i \in DOMAIN r PROVE ~Pending(r[i])
        <4>1. CASE i = j
          BY <2>6, <2>9, <4>1
        <4>2. CASE i # j
          <5>1. i \in 1 .. n /\ i < n
            BY <2>9, <3>1, <4>2
          <5>2. ~Pending(st[i])
            BY <1>0, <2>11, <5>1 DEF FrontSettled
          <5> QED BY <1>2, <2>9, <4>2, <5>1, <5>2
        <4> QED BY <4>1, <4>2
      <3> QED BY <3>2 DEF Settled
    <2> QED BY <1>0, <2>8, <2>9, <2>10, <2>11
  <1> QED BY <1>4, <1>5

-----------------------------------------------------------------------------
(* The request's part of the invariant.                                    *)

LEMMA Discarded ==
    ASSUME NEW g \in Gens
    PROVE  /\ BufferOK(DiscardPendingStreamUpdates(g), g)
           /\ DiscardPendingStreamUpdates(g).gen = g
           /\ DiscardPendingStreamUpdates(g).chunks = <<>>
  <1>1. <<>> \in Seq(Signs) /\ <<>> \in Seq(From(g))
    OBVIOUS
  <1>2. g \in 0 .. g
    BY PlaygroundBounds DEF Gens
  <1> QED BY <1>1, <1>2 DEF DiscardPendingStreamUpdates, BufferOK

LEMMA NothingSentIs == NothingSent \in Sent
  <1>1. <<>> \in Seq(Seq(Letters)) /\ 0 \in Nat
    OBVIOUS
  <1> QED BY <1>1 DEF NothingSent, Sent

LEMMA InitRequest == Init => RequestInv
  <1> SUFFICES ASSUME Init PROVE RequestInv
    OBVIOUS
  <1>1. Flags /\ Numbers /\ Histories
    <2>1. Flags
      BY DEF Init, Flags
    <2>2. Numbers
      BY PlaygroundBounds, NothingSentIs DEF Init, Numbers
    <2>3. Histories
      BY DEF Init, Histories
    <2> QED BY <2>1, <2>2, <2>3
  <1>2. 0 \in Gens /\ buffer = DiscardPendingStreamUpdates(0)
    BY PlaygroundBounds DEF Init, Gens, DiscardPendingStreamUpdates
  <1>3. BufferOK(buffer, gen) /\ buffer.chunks = <<>>
    BY <1>2, Discarded DEF Init
  <1>4. Links
    BY <1>3 DEF Init, Links
  <1> QED BY <1>1, <1>3, <1>4 DEF RequestInv

LEMMA BufferGrows ==
    ASSUME NEW b, NEW g \in Nat, NEW h \in Nat, g <= h, BufferOK(b, g)
    PROVE  BufferOK(b, h)
  BY DEF BufferOK

\* The types of the numbers, for any step of the user.
LEMMA NextNumbers ==
    ASSUME Numbers, Move
    PROVE  /\ moves \in Nat /\ gen \in Nat /\ gen \in Gens /\ gen + 1 \in Gens
           /\ moves' = moves + 1 /\ moves' \in 0 .. MaxMoves /\ gen + 1 \in 0 .. moves'
           /\ gen \in 0 .. moves' /\ 0 \in 0 .. gen + 1 /\ gen + 1 # 0
  BY PlaygroundBounds DEF Numbers, Move, Gens

\* handleStreamComplete and its like, as far as the request is concerned.
LEMMA ConcludeRequest ==
    ASSUME RequestInv, NEW g, NEW op, Conclude(g, op), gen' = gen
    PROVE  /\ timer' \in BOOLEAN /\ requesting' \in BOOLEAN
           /\ BufferOK(buffer', gen')
           /\ g # gen => requesting' = requesting /\ buffer' = buffer
           /\ g = gen => ~requesting' /\ buffer'.chunks = <<>>
           /\ requesting' => requesting
  <1>0. gen \in Gens /\ BufferOK(buffer, gen) /\ Flags
    BY PlaygroundBounds DEF RequestInv, Numbers, Gens
  <1>1. CASE g # gen
    <2>1. UNCHANGED <<requesting, buffer, timer>>
      BY <1>1 DEF Conclude
    <2> QED BY <1>0, <1>1, <2>1 DEF Flags
  <1>2. CASE g = gen
    <2>1. /\ requesting' = FALSE /\ timer' = FALSE
          /\ buffer' = DiscardPendingStreamUpdates(gen)
      BY <1>2 DEF Conclude
    <2>2. BufferOK(buffer', gen') /\ buffer'.chunks = <<>>
      BY <1>0, <2>1, Discarded
    <2> QED BY <1>2, <2>1, <2>2
  <1> QED BY <1>1, <1>2

\* sendChat, as far as the request is concerned.
LEMMA SendChatRequest ==
    ASSUME RequestInv, NEW list, SendChat(list), Move, UNCHANGED <<loaded, hasKey, ended>>
    PROVE  RequestInv'
  <1>0. Flags /\ Numbers /\ BufferOK(buffer, gen) /\ Histories /\ Links
    BY DEF RequestInv
  <1>1. /\ moves \in Nat /\ gen \in Nat /\ gen \in Gens /\ gen + 1 \in Gens
        /\ moves' \in 0 .. MaxMoves /\ gen + 1 \in 0 .. moves'
        /\ 0 \in 0 .. gen + 1 /\ gen + 1 # 0 /\ gen' = gen + 1 /\ gen <= gen + 1
    BY <1>0, NextNumbers DEF SendChat
  <1>2. CASE /\ ~hasKey
             /\ mishaps' = (IF busy THEN mishaps \cup {"keyless"} ELSE mishaps)
             /\ busy' = (streaming \/ requesting)
             /\ UNCHANGED <<buffer, timer, source, fetching, streaming, requesting, sent>>
    <2>1. Flags' /\ Histories'
      BY <1>0, <1>2 DEF Flags, Histories
    <2>2. Numbers'
      BY <1>0, <1>1, <1>2 DEF Numbers
    <2>3. BufferOK(buffer', gen')
      BY <1>0, <1>1, <1>2, BufferGrows
    <2>4. buffer'.gen # gen'
      <3>1. buffer.gen \in 0 .. gen
        BY <1>0 DEF BufferOK
      <3> QED BY <1>1, <1>2, <3>1
    <2>5. Links'
      BY <1>0, <1>2, <2>4 DEF Links
    <2> QED BY <2>1, <2>2, <2>3, <2>5 DEF RequestInv
  <1>3. CASE /\ buffer' = DiscardPendingStreamUpdates(gen + 1) /\ timer' = FALSE
             /\ requesting' = TRUE /\ busy' = TRUE /\ sent' = NothingSent
             /\ mishaps' = mishaps \ {"cut", "keyless"}
             /\ \/ source' = gen + 1 /\ streaming' = TRUE /\ fetching' = 0
                \/ source' = 0 /\ streaming' = FALSE /\ fetching' = gen + 1
    <2>1. Flags' /\ Histories'
      BY <1>0, <1>3 DEF Flags, Histories
    <2>2. Numbers'
      BY <1>0, <1>1, <1>3, PlaygroundBounds, NothingSentIs DEF Numbers
    <2>3. BufferOK(buffer', gen') /\ buffer'.chunks = <<>>
      BY <1>1, <1>3, Discarded
    <2>4. Links'
      BY <1>1, <1>3, <2>3 DEF Links
    <2> QED BY <2>1, <2>2, <2>3, <2>4 DEF RequestInv
  <1> QED BY <1>2, <1>3 DEF SendChat

\* A word arrives; the buffer takes it when it is the current request's.
LEMMA DeltaSends ==
    ASSUME Numbers, StreamDelta
    PROVE  \E w \in Seq(Letters) :
             /\ sent' = [words |-> Append(sent.words, w), signs |-> sent.signs + Len(w)]
             /\ sent' \in Sent
             /\ \/ /\ source = gen /\ buffer.gen = gen
                   /\ buffer' = [buffer EXCEPT !.chunks = Joined(@, Piece(gen, w))] /\ timer' = TRUE
                \/ ~(source = gen /\ buffer.gen = gen) /\ UNCHANGED <<buffer, timer>>
  <1>1. source \in 1 .. MaxMoves
    BY PlaygroundBounds DEF Numbers, StreamDelta
  <1>2. PICK answer \in Answers[source] :
          /\ IsStrictPrefix(sent.words, answer)
          /\ sent' = [words |-> Append(sent.words, answer[Len(sent.words) + 1]),
                      signs |-> sent.signs + Len(answer[Len(sent.words) + 1])]
          /\ IF source = gen /\ buffer.gen = gen
             THEN /\ buffer' = [buffer EXCEPT !.chunks =
                                  Joined(@, Piece(gen, answer[Len(sent.words) + 1]))]
                  /\ timer' = TRUE
             ELSE UNCHANGED <<buffer, timer>>
    BY DEF StreamDelta
  <1>3. answer \in Seq(Seq(Letters) \ {<<>>})
    BY <1>1, AnswersAssumption
  <1>4. sent.words \in Seq(Seq(Letters)) /\ sent.signs \in Nat
    BY DEF Numbers, Sent
  <1>5. Len(sent.words) < Len(answer)
    <2>1. /\ Len(sent.words) <= Len(answer) /\ sent.words # answer
          /\ SubSeq(sent.words, 1, Len(sent.words)) = SubSeq(answer, 1, Len(sent.words))
      BY <1>2 DEF IsStrictPrefix, IsPrefix
    <2>2. SubSeq(sent.words, 1, Len(sent.words)) = sent.words /\ SubSeq(answer, 1, Len(answer)) = answer
      BY <1>3, <1>4, SubSeqFull
    <2>3. Len(sent.words) # Len(answer)
      BY <2>1, <2>2
    <2>4. Len(sent.words) \in Nat /\ Len(answer) \in Nat
      BY <1>3, <1>4
    <2> QED BY <2>1, <2>3, <2>4
  <1>6. PICK w \in Seq(Letters) : w = answer[Len(sent.words) + 1]
    <2>1. Len(sent.words) + 1 \in 1 .. Len(answer)
      BY <1>3, <1>4, <1>5
    <2> QED BY <1>3, <2>1
  <1>7. sent' \in Sent
    <2>1. Append(sent.words, w) \in Seq(Seq(Letters))
      BY <1>4, AppendProperties
    <2>2. sent.signs + Len(w) \in Nat
      BY <1>4
    <2> QED BY <1>2, <1>6, <2>1, <2>2 DEF Sent
  <1> QED BY <1>2, <1>6, <1>7

\* Every step keeps the request, its buffer and its flags together.
LEMMA RequestSteps == RequestInv /\ [Next]_vars => RequestInv'
  <1> SUFFICES ASSUME RequestInv, [Next]_vars PROVE RequestInv'
    OBVIOUS
  <1>a. Flags /\ Numbers /\ BufferOK(buffer, gen) /\ Histories /\ Links
    BY DEF RequestInv
  <1>b. gen \in Gens /\ gen \in Nat
    BY <1>a, PlaygroundBounds DEF Numbers, Gens
  <1>0. CASE UNCHANGED vars
    BY <1>0 DEF RequestInv, Flags, Numbers, Histories, Links, vars
  <1>1. CASE Render
    <2>1. Flags' /\ Numbers' /\ BufferOK(buffer', gen') /\ Histories'
      BY <1>1, <1>a DEF Render, Flags, Numbers, Histories
    <2>2. Links'
      BY <1>1, <1>a DEF Render, Links
    <2> QED BY <2>1, <2>2 DEF RequestInv
  <1>2. CASE FlushTimer
    <2>1. Flags' /\ Numbers' /\ Histories'
      BY <1>2, <1>a DEF FlushTimer, Flags, Numbers, Histories
    <2>2. BufferOK(buffer', gen') /\ buffer'.chunks = <<>>
      BY <1>2, <1>b, Discarded DEF FlushTimer
    <2>3. Links'
      BY <1>2, <1>a, <2>2 DEF FlushTimer, Links
    <2> QED BY <2>1, <2>2, <2>3 DEF RequestInv
  <1>3. CASE StreamDelta
    <2>0. PICK w \in Seq(Letters) :
            /\ sent' \in Sent
            /\ \/ /\ source = gen /\ buffer.gen = gen
                  /\ buffer' = [buffer EXCEPT !.chunks = Joined(@, Piece(gen, w))] /\ timer' = TRUE
               \/ ~(source = gen /\ buffer.gen = gen) /\ UNCHANGED <<buffer, timer>>
      BY <1>3, <1>a, DeltaSends
    <2>1. Numbers' /\ Histories'
      BY <1>3, <1>a, <2>0, PlaygroundBounds DEF StreamDelta, Numbers, Histories
    <2>2. Flags'
      BY <1>3, <1>a, <2>0 DEF StreamDelta, Flags
    <2>3. CASE source = gen /\ buffer.gen = gen
      <3>1. PICK c : c = Joined(buffer.chunks, Piece(gen, w))
        OBVIOUS
      <3>2. buffer' = [buffer EXCEPT !.chunks = c]
        BY <2>0, <2>3, <3>1
      <3>3. c \in Seq(Signs) /\ c \in Seq(From(gen))
        <4>1. Piece(gen, w) \in Seq(From(gen)) /\ buffer.chunks \in Seq(From(gen))
          BY <1>a, <1>b, <2>3, PieceText DEF BufferOK
        <4>2. c \in Seq(From(gen))
          BY <3>1, <4>1, JoinedText
        <4> QED BY <1>b, <4>2, OwnTexts
      <3>4. BufferOK(buffer', gen')
        BY <1>3, <1>a, <2>3, <3>2, <3>3 DEF BufferOK, StreamDelta
      <3>5. source' = gen' /\ gen' # 0
        BY <1>3, <2>3 DEF StreamDelta
      <3>6. Links'
        BY <1>3, <1>a, <3>5 DEF Links, StreamDelta
      <3> QED BY <2>1, <2>2, <3>4, <3>6 DEF RequestInv
    <2>4. CASE ~(source = gen /\ buffer.gen = gen)
      <3>1. BufferOK(buffer', gen') /\ Links'
        BY <1>3, <1>a, <2>0, <2>4 DEF Links, StreamDelta
      <3> QED BY <2>1, <2>2, <3>1 DEF RequestInv
    <2> QED BY <2>3, <2>4
  <1>4. CASE StreamDone \/ StreamError
    <2>1. PICK op : Conclude(source, op)
      BY <1>4 DEF StreamDone, StreamError
    <2>2. gen' = gen /\ source' = 0 /\ streaming' = FALSE /\ busy' = busy /\ fetching' = fetching
      BY <1>4 DEF StreamDone, StreamError
    <2>3. /\ timer' \in BOOLEAN /\ requesting' \in BOOLEAN
          /\ BufferOK(buffer', gen')
          /\ source # gen => requesting' = requesting /\ buffer' = buffer
          /\ source = gen => ~requesting' /\ buffer'.chunks = <<>>
          /\ requesting' => requesting
      BY <2>1, <2>2, ConcludeRequest
    <2>4. Flags'
      BY <1>4, <1>a, <2>2, <2>3 DEF StreamDone, StreamError, Flags
    <2>5. Numbers'
      BY <1>4, <1>a, PlaygroundBounds, NothingSentIs DEF StreamDone, StreamError, Numbers
    <2>6. Histories'
      <3>1. CASE StreamDone
        <4>1. <<gen, sent>> \in Gens \X Sent
          BY <1>a, <1>b DEF Numbers
        <4> QED BY <1>a, <3>1, <4>1 DEF StreamDone, Histories
      <3>2. CASE StreamError
        BY <1>a, <3>2 DEF StreamError, Histories
      <3> QED BY <1>4, <3>1, <3>2
    <2>7. source # 0 => fetching = 0
      BY <1>a DEF Links
    <2>8. source # 0
      BY <1>4 DEF StreamDone, StreamError
    <2>9. ~(buffer'.gen = gen' /\ buffer'.chunks # <<>>)
      BY <1>a, <2>2, <2>3 DEF Links
    <2>10. Links'
      BY <1>a, <2>2, <2>3, <2>7, <2>8, <2>9 DEF Links
    <2> QED BY <2>3, <2>4, <2>5, <2>6, <2>10 DEF RequestInv
  <1>6. CASE StreamCut
    BY <1>6, <1>a DEF RequestInv, Flags, Numbers, Histories, Links, StreamCut
  <1>7. CASE FetchAnswer
    <2>1. PICK op : Conclude(fetching, op)
      BY <1>7 DEF FetchAnswer
    <2>2. /\ gen' = gen /\ source' = source /\ streaming' = streaming /\ busy' = busy
          /\ fetching' = 0 /\ fetching # 0
      BY <1>7 DEF FetchAnswer
    <2>3. /\ timer' \in BOOLEAN /\ requesting' \in BOOLEAN
          /\ BufferOK(buffer', gen')
          /\ fetching # gen => requesting' = requesting /\ buffer' = buffer
          /\ fetching = gen => ~requesting' /\ buffer'.chunks = <<>>
          /\ requesting' => requesting
      BY <2>1, <2>2, ConcludeRequest
    <2>4. Flags' /\ Numbers' /\ Histories'
      BY <1>7, <1>a, <2>2, <2>3 DEF FetchAnswer, Flags, Numbers, Histories
    <2>5. source = 0
      BY <1>a, <2>2 DEF Links
    <2>6. ~(buffer'.gen = gen' /\ buffer'.chunks # <<>>)
      <3>1. CASE fetching = gen
        BY <2>3, <3>1
      <3>2. CASE fetching # gen
        BY <1>a, <2>2, <2>3, <2>5, <3>2 DEF Links
      <3> QED BY <3>1, <3>2
    <2>7. Links'
      BY <1>a, <2>2, <2>3, <2>5, <2>6 DEF Links
    <2> QED BY <2>3, <2>4, <2>7 DEF RequestInv
  <1>9. CASE SendMessage
    BY <1>9, SendChatRequest DEF SendMessage
  <1>10. CASE SaveEdit
    <2>1. Numbers' /\ Histories'
      <3>1. Numbers'
        BY <1>10, <1>a, PlaygroundBounds DEF SaveEdit, Move, Numbers
      <3>2. Histories'
        BY <1>10, <1>a DEF SaveEdit, Histories
      <3> QED BY <3>1, <3>2
    <2>2. Flags' /\ BufferOK(buffer', gen') /\ Links'
      BY <1>10, <1>a DEF SaveEdit, Flags, Links
    <2> QED BY <2>1, <2>2 DEF RequestInv
  <1>11. CASE SaveEditAndSubmit
    BY <1>11, SendChatRequest DEF SaveEditAndSubmit
  <1>12. CASE DeleteMessages
    <2>1. Numbers' /\ Histories'
      <3>1. Numbers'
        BY <1>12, <1>a, PlaygroundBounds DEF DeleteMessages, Move, Numbers
      <3>2. Histories'
        BY <1>12, <1>a DEF DeleteMessages, Histories
      <3> QED BY <3>1, <3>2
    <2>2. Flags' /\ BufferOK(buffer', gen') /\ Links'
      BY <1>12, <1>a DEF DeleteMessages, Flags, Links
    <2> QED BY <2>1, <2>2 DEF RequestInv
  <1>13. CASE StopGeneration \/ LeavePage \/ ReloadPage
    <2>0. Move
      BY <1>13 DEF StopGeneration, LeavePage, ReloadPage
    <2>1. /\ gen' = gen + 1 /\ buffer' = DiscardPendingStreamUpdates(gen + 1) /\ timer' = FALSE
          /\ source' = 0 /\ fetching' = 0 /\ sent' = NothingSent /\ streaming' = FALSE
          /\ requesting' = FALSE /\ busy' = FALSE /\ hasKey' = hasKey
          /\ mishaps' = mishaps \ {"cut", "keyless"} /\ ended' \subseteq ended
      BY <1>13 DEF StopGeneration, LeavePage, ReloadPage, Visit
    <2>2. loaded' \in BOOLEAN
      BY <1>13, <1>a DEF StopGeneration, LeavePage, ReloadPage, Visit, Flags
    <2>3. Flags' /\ Histories'
      BY <1>a, <2>1, <2>2 DEF Flags, Histories
    <2>4. Numbers'
      BY <1>a, <2>0, <2>1, NextNumbers, PlaygroundBounds, NothingSentIs DEF Numbers
    <2>5. BufferOK(buffer', gen') /\ buffer'.chunks = <<>>
      BY <1>a, <2>0, <2>1, NextNumbers, Discarded
    <2>6. Links'
      BY <2>1, <2>5 DEF Links
    <2> QED BY <2>3, <2>4, <2>5, <2>6 DEF RequestInv
  <1>14. CASE KeyRevoked \/ ChooseKey
    <2>1. Numbers' /\ Histories'
      <3>1. Numbers'
        BY <1>14, <1>a, PlaygroundBounds DEF KeyRevoked, ChooseKey, Move, Numbers
      <3>2. Histories'
        BY <1>14, <1>a DEF KeyRevoked, ChooseKey, Histories
      <3> QED BY <3>1, <3>2
    <2>2. Flags' /\ BufferOK(buffer', gen') /\ Links'
      <3>1. CASE KeyRevoked
        BY <3>1, <1>a DEF KeyRevoked, Flags, Links
      <3>2. CASE ChooseKey
        BY <3>2, <1>a DEF ChooseKey, Flags, Links
      <3> QED BY <1>14, <3>1, <3>2
    <2> QED BY <2>1, <2>2 DEF RequestInv
  <1>15. CASE LoadMessages \/ SaveMessages
    <2>1. Numbers' /\ Histories'
      BY <1>15, <1>a DEF LoadMessages, SaveMessages, Numbers, Histories
    <2>2. Flags' /\ BufferOK(buffer', gen') /\ Links'
      <3>1. CASE LoadMessages
        <4>1. /\ loaded' = TRUE
              /\ UNCHANGED <<gen, buffer, timer, source, fetching, streaming, requesting, busy, hasKey>>
          BY <3>1 DEF LoadMessages
        <4> QED BY <4>1, <1>a DEF Flags, Links
      <3>2. CASE SaveMessages
        BY <3>2, <1>a DEF SaveMessages, Flags, Links
      <3> QED BY <1>15, <3>1, <3>2
    <2> QED BY <2>1, <2>2 DEF RequestInv
  <1>17. ASSUME NEW i \in DOMAIN view.shown, RegenerateMessage(i) \/ EditMessage(i)
         PROVE  RequestInv'
    <2>1. CASE RegenerateMessage(i)
      BY <2>1, SendChatRequest DEF RegenerateMessage
    <2>2. CASE EditMessage(i)
      <3>1. Numbers' /\ Histories'
        <4>1. Numbers'
          BY <2>2, <1>a, PlaygroundBounds DEF EditMessage, Move, Numbers
        <4>2. Histories'
          BY <2>2, <1>a DEF EditMessage, Histories
        <4> QED BY <4>1, <4>2
      <3>2. Flags' /\ BufferOK(buffer', gen') /\ Links'
        BY <2>2, <1>a DEF EditMessage, Flags, Links
      <3> QED BY <3>1, <3>2 DEF RequestInv
    <2> QED BY <1>17, <2>1, <2>2
  <1> QED BY <1>0, <1>1, <1>2, <1>3, <1>4, <1>6, <1>7, <1>9, <1>10, <1>11, <1>12, <1>13,
             <1>14, <1>15, <1>17 DEF Next

-----------------------------------------------------------------------------
(* The page's part of the invariant.                                       *)

\* w has nothing to save that v had not.
Saves(v, w) == loaded /\ ~w.saving => ~v.saving /\ w.latest = v.latest

LEMMA ForLastTyped ==
    ASSUME NEW op \in Ops, NEW g \in Gens
    PROVE  /\ ForLast(op, g) \in Updates
           /\ ForLast(op, g).op = op /\ ForLast(op, g).gen = g
           /\ ForLast(op, g).list = <<>> /\ ForLast(op, g).chunks = <<>>
  <1>1. <<>> \in Seq(Signs) /\ <<>> \in Seq(Message)
    BY EmptySeq
  <1>2. PICK l \in Seq(Message), c \in Seq(Signs) : l = <<>> /\ c = <<>>
    BY <1>1, Zenon
  <1>3. ForLast(op, g) = Update(op, g, l, c, 0)
    BY <1>2 DEF ForLast
  <1>4. PICK u : u = Update(op, g, l, c, 0)
    OBVIOUS
  <1>5. u \in Updates /\ u.op = op /\ u.gen = g /\ u.list = l /\ u.chunks = c
    BY <1>4 DEF Update, Updates
  <1> QED BY <1>2, <1>3, <1>4, <1>5

LEMMA FlushUpdate ==
    ASSUME RequestInv, NEW u, u = Update("append", gen, <<>>, buffer.chunks, 0),
           buffer.gen = gen
    PROVE  /\ u \in Updates /\ InFlight(u, gen)
           /\ u.op = "append" /\ u.chunks = buffer.chunks /\ u.gen = gen
  <1>1. /\ gen \in Gens /\ buffer.chunks \in Seq(Signs) /\ buffer.chunks \in Seq(From(gen))
        /\ <<>> \in Seq(Message) /\ 0 \in Nat /\ "append" \in Ops
    BY PlaygroundBounds DEF RequestInv, Numbers, BufferOK, Gens, Ops
  <1>2. /\ u \in Updates /\ u.op = "append" /\ u.gen = gen /\ u.list = <<>>
        /\ u.chunks = buffer.chunks
    <2>1. PICK l \in Seq(Message), c \in Seq(Signs) : l = <<>> /\ c = buffer.chunks
      BY <1>1, Zenon
    <2>2. u = Update("append", gen, l, c, 0)
      BY <2>1
    <2>3. u \in Updates /\ u.op = "append" /\ u.gen = gen /\ u.list = l /\ u.chunks = c
      BY <1>1, <2>2 DEF Update, Updates
    <2> QED BY <2>1, <2>3
  <1> QED BY <1>1, <1>2 DEF InFlight

LEMMA ConcludeUpdate ==
    ASSUME NEW g \in Gens, NEW op \in {"finish", "fail", "answer"}
    PROVE  /\ ForLast(op, g) \in Updates /\ InFlight(ForLast(op, g), g)
           /\ ForLast(op, g).op = op /\ ForLast(op, g).gen = g
  <1>1. /\ <<>> \in Seq(Signs) /\ <<>> \in Seq(From(g)) /\ <<>> \in Seq(Message)
        /\ 0 \in Nat /\ op \in Ops
    BY DEF Ops
  <1>2. /\ ForLast(op, g) \in Updates /\ ForLast(op, g).op = op /\ ForLast(op, g).gen = g
        /\ ForLast(op, g).list = <<>> /\ ForLast(op, g).chunks = <<>>
    BY <1>1, ForLastTyped
  <1> QED BY <1>1, <1>2 DEF InFlight

\* A flush of the buffer keeps the page in order.
LEMMA FlushedPage ==
    ASSUME RequestInv, PageInv(view, gen, moves, busy, editing), NEW e
    PROVE  /\ PageInv(Flushed(view, e), gen, moves, busy, editing)
           /\ Saves(view, Flushed(view, e))
  <1>1. CASE buffer.gen # gen \/ buffer.chunks = <<>>
    BY <1>1 DEF Flushed, Saves
  <1>2. CASE buffer.gen = gen /\ buffer.chunks # <<>>
    <2>1. busy = TRUE /\ loaded \in BOOLEAN
      BY <1>2 DEF RequestInv, Links, Flags
    <2>2. PICK u : u = Update("append", gen, <<>>, buffer.chunks, 0)
      OBVIOUS
    <2>3. u \in Updates /\ InFlight(u, gen)
      BY <1>2, <2>2, FlushUpdate
    <2>4. Flushed(view, e) = Push(view, u, gen, e)
      BY <1>2, <2>2 DEF Flushed
    <2>5. PageInv(Push(view, u, gen, e), gen, moves, TRUE, editing)
      BY <2>1, <2>3, PagePush
    <2>6. view \in Views
      BY DEF PageInv
    <2>7. Saves(view, Push(view, u, gen, e))
      BY <2>1, <2>3, <2>6, PushTyped DEF Saves
    <2> QED BY <2>1, <2>4, <2>5, <2>7
  <1> QED BY <1>1, <1>2

\* The end of a request keeps the page in order.
LEMMA ConcludePage ==
    ASSUME RequestInv, PageInv(view, gen, moves, busy, editing),
           NEW g \in {source, fetching}, g # 0, NEW op \in {"finish", "fail", "answer"},
           Conclude(g, op)
    PROVE  PageInv(view', gen, moves, busy, editing) /\ Saves(view, view')
  <1>1. CASE g # gen
    BY <1>1 DEF Conclude, Saves
  <1>2. CASE g = gen
    <2>1. busy = TRUE /\ loaded \in BOOLEAN /\ g \in Gens
      BY <1>2, PlaygroundBounds DEF RequestInv, Links, Flags, Numbers, Gens
    <2>2. PICK e1 \in BOOLEAN, e2 \in BOOLEAN :
               view' = Push(Flushed(view, e1), ForLast(op, g), g, e2)
      BY <1>2 DEF Conclude
    <2>3. PICK w : w = Flushed(view, e1)
      OBVIOUS
    <2>4. PageInv(w, gen, moves, TRUE, editing) /\ Saves(view, w)
      BY <2>1, <2>3, FlushedPage
    <2>5. ForLast(op, g) \in Updates /\ InFlight(ForLast(op, g), g)
      BY <2>1, ConcludeUpdate
    <2>6. PageInv(view', gen, moves, TRUE, editing)
      BY <1>2, <2>1, <2>2, <2>3, <2>4, <2>5, PagePush
    <2>7. w \in Views
      BY <2>4 DEF PageInv
    <2>8. Saves(w, view')
      BY <2>1, <2>2, <2>3, <2>5, <2>7, PushTyped DEF Saves
    <2> QED BY <2>1, <2>4, <2>6, <2>8 DEF Saves
  <1> QED BY <1>1, <1>2

\* A click that leaves the list l, to be saved.
LEMMA ClickPage ==
    ASSUME NEW g, NEW k, NEW b, NEW ed, NEW l \in Lists(g, k, b, ed), loaded \in BOOLEAN,
           NEW w, w = View(l, <<>>, l, loaded)
    PROVE  /\ PageInv(w, g, k, b, ed) /\ w.saving = loaded
           /\ w \in Views /\ w.shown = l /\ w.latest = l /\ w.queue = <<>>
  <1>1. l \in Seq(Message) /\ <<>> \in Seq(Updates)
    BY ListsTyped, EmptySeq
  <1>2. w \in Views
    BY <1>1, ViewTyped
  <1>3. w.shown = l /\ w.latest = l /\ w.queue = <<>> /\ w.saving = loaded
    BY ViewIs
  <1> QED BY <1>2, <1>3, PageIdle

\* What the handlers of stopGeneration leave: the latest messages, the last of
\* them no longer pending.
StoppedList(l, g) ==
    IF l # <<>> /\ l[Len(l)].role = "assistant"
    THEN WithLast(l, Answered(ForLast("stop", g), l[Len(l)])) ELSE l

LEMMA StopUpdate ==
    ASSUME NEW g \in Gens
    PROVE  /\ ForLast("stop", g) \in Updates /\ ForLast("stop", g).op = "stop"
           /\ ForLast("stop", g).gen = g
  <1>1. <<>> \in Seq(Signs) /\ <<>> \in Seq(Message) /\ 0 \in Nat /\ "stop" \in Ops
    BY DEF Ops
  <1> QED BY <1>1, ForLastTyped

LEMMA StopRenders ==
    ASSUME NEW v, NEW g, NEW h \in Gens, NEW k, NEW b \in BOOLEAN, NEW ed, PageInv(v, g, k, b, ed),
           g # h, loaded \in BOOLEAN
    PROVE  Rendered(Push(v, ForLast("stop", h), h, FALSE), h)
             = View(StoppedList(v.latest, h), <<>>, StoppedList(v.latest, h), loaded)
  <1>0. v \in Views /\ QueueInv(v, g) /\ v.latest \in Seq(Message)
    BY ViewFields DEF PageInv
  <1>1. PICK u \in Updates : u = ForLast("stop", h) /\ u.op = "stop" /\ u.gen = h
    BY StopUpdate
  <1>2. Push(v, u, h, FALSE) = View(v.shown, Append(v.queue, u), v.latest, v.saving)
    BY <1>0, PushFields
  <1>3. PICK w \in Views : w = Rendered(v, h) /\ w.queue = <<>>
    BY <1>0, RenderedTyped
  <1>4. w.shown = v.latest
    BY <1>0, <1>3, RenderedStale
  <1>5. Rendered(Push(v, u, h, FALSE), h) = Ran(w, u, h)
    BY <1>0, <1>2, <1>3, RenderedAppend
  <1>6. Run(u, w.shown, h) = StoppedList(v.latest, h)
    <2>1. u.op \in LastOps
      BY <1>1 DEF LastOps
    <2> QED BY <1>0, <1>1, <1>4, <2>1, RunLast DEF StoppedList
  <1>7. PICK ms : ms = StoppedList(v.latest, h)
    OBVIOUS
  <1>8. Ran(w, u, h) = View(ms, w.queue, ms, loaded)
    BY <1>1, <1>6, <1>7, RanView
  <1> QED BY <1>1, <1>3, <1>5, <1>7, <1>8

LEMMA StoppedSane ==
    ASSUME NEW g, NEW k, NEW h \in Gens, NEW l \in Seq(Sane(g, k))
    PROVE  StoppedList(l, h) \in Seq(Sane(g, k))
  <1>1. CASE l # <<>> /\ l[Len(l)].role = "assistant"
    <2>1. l[Len(l)] \in Sane(g, k)
      BY <1>1
    <2>2. PICK a \in Sane(g, k) : a = Answered(ForLast("stop", h), l[Len(l)])
      BY <1>1, <2>1, AnsweredSane, StopUpdate
    <2> QED BY <1>1, <2>2, WithLastIs DEF StoppedList
  <1>2. CASE ~(l # <<>> /\ l[Len(l)].role = "assistant")
    BY <1>2 DEF StoppedList
  <1> QED BY <1>1, <1>2

\* sendChat leaves the new list, its last message the answer that is asked for.
AskedList(l) == IF hasKey THEN l ELSE WithLast(l, FailedMessage(l[Len(l)]))

LEMMA SendChatRenders ==
    ASSUME RequestInv, NEW l \in Seq(Message), SendChat(l), view \in Views, gen + 1 \in Gens,
           l # <<>>, l[Len(l)].role = "assistant"
    PROVE  view' = View(AskedList(l), <<>>, AskedList(l), loaded)
  <1>0. loaded \in BOOLEAN /\ hasKey \in BOOLEAN
    BY DEF RequestInv, Flags
  <1>1. PICK e \in BOOLEAN :
          \/ ~hasKey /\ view' = Rendered(Push(Push(view, Replace(l), gen, e),
                                              ForLast("keyless", gen + 1), gen + 1, FALSE), gen + 1)
          \/ hasKey /\ view' = Rendered(Push(view, Replace(l), gen, e), gen + 1)
    BY DEF SendChat
  <1>2. PICK v : v = Push(view, Replace(l), gen, e)
    OBVIOUS
  <1>3. Rendered(v, gen + 1) = View(l, <<>>, l, loaded)
    BY <1>0, <1>2, ReplacingClick
  <1>4. CASE hasKey
    BY <1>1, <1>2, <1>3, <1>4 DEF AskedList
  <1>5. CASE ~hasKey
    <2>1. PICK u \in Updates : u = ForLast("keyless", gen + 1) /\ u.op = "keyless"
      <3>1. <<>> \in Seq(Signs) /\ <<>> \in Seq(Message) /\ 0 \in Nat /\ "keyless" \in Ops
        BY DEF Ops
      <3> QED BY <3>1, ForLastTyped
    <2>2. v \in Views
      BY <1>0, <1>2, ListUpdates, PushTyped
    <2>3. Push(v, u, gen + 1, FALSE) = View(v.shown, Append(v.queue, u), v.latest, v.saving)
      BY <2>2, PushFields
    <2>4. PICK w \in Views : w = Rendered(v, gen + 1)
      BY <1>0, <2>2, RenderedTyped
    <2>5. w.shown = l /\ w.queue = <<>>
      BY <1>3, <2>4, ViewIs
    <2>6. view' = Ran(w, u, gen + 1)
      <3>1. view' = Rendered(Push(v, u, gen + 1, FALSE), gen + 1)
        BY <1>1, <1>2, <1>5, <2>1
      <3> QED BY <2>2, <2>3, <2>4, <3>1, RenderedAppend
    <2>7. PICK ms : ms = AskedList(l)
      OBVIOUS
    <2>8. Run(u, w.shown, gen + 1) = ms
      BY <1>5, <2>1, <2>5, <2>7, RunKeyless DEF AskedList
    <2>9. Ran(w, u, gen + 1) = View(ms, w.queue, ms, loaded)
      BY <1>0, <2>1, <2>8, RanView
    <2> QED BY <2>5, <2>6, <2>7, <2>9
  <1> QED BY <1>0, <1>4, <1>5

\* An answer that the user rewrote belongs to no request.
LEMMA RewrittenSane ==
    ASSUME NEW g \in Nat, NEW k, NEW m \in Sane(g, k)
    PROVE  /\ Rewritten(m) \in Sane(g, k) /\ Rewritten(m).req = 0
           /\ Rewritten(m).status = m.status /\ Rewritten(m).role = m.role
           /\ Rewritten(m).key = m.key
  <1>0. m \in Message /\ m.req \in Gens
    BY DEF Sane, Message
  <1>1. PICK x : x = [m EXCEPT !.req = 0]
    OBVIOUS
  <1>2. /\ x \in Message /\ x.role = m.role /\ x.key = m.key /\ x.status = m.status
        /\ x.req = 0
    BY <1>0, <1>1, PlaygroundBounds DEF Message, Gens
  <1>3. PICK t \in Seq(Signs) : t = SomeText(0) /\ t \in Seq(From(0))
    <2>1. 0 \in Gens
      BY PlaygroundBounds DEF Gens
    <2>2. SomeText(0) \in Seq(Signs) /\ SomeText(0) \in Seq(From(0))
      BY <2>1, OwnTexts
    <2> QED BY <2>2, Zenon
  <1>4. PICK a : a = [x EXCEPT !.text = t]
    OBVIOUS
  <1>5. /\ a \in Message /\ a.role = x.role /\ a.key = x.key /\ a.req = x.req
        /\ a.status = x.status /\ a.text = t
    BY <1>2, <1>4 DEF Message
  <1>6. a = Rewritten(m)
    BY <1>1, <1>3, <1>4 DEF Rewritten
  <1>7. a \in Sane(g, k)
    <2>1. m.key \in 1 .. 2 * k + 2 /\ (m.role = "user" => m.status = "none")
      BY DEF Sane
    <2>2. a.key = m.key /\ a.req = 0 /\ a.role = m.role /\ a.status = m.status /\ a.text \in Seq(From(a.req))
      BY <1>2, <1>3, <1>5
    <2>3. 0 <= g
      OBVIOUS
    <2> QED BY <1>5, <2>1, <2>2, <2>3 DEF Sane, Own
  <1> QED BY <1>2, <1>5, <1>6, <1>7

\* The messages that a click adds.
LEMMA NewMessages ==
    ASSUME NEW g \in Nat, g + 1 \in Gens, NEW k \in Nat
    PROVE  /\ UserMessage(2 * k + 3) \in Sane(g, k + 1)
           /\ LoadingMessage(2 * k + 4, g + 1) \in Sane(g + 1, k + 1)
           /\ LoadingMessage(2 * k + 4, g + 1).role = "assistant"
           /\ LoadingMessage(2 * k + 4, g + 1).req = g + 1
           /\ LoadingMessage(2 * k + 4, g + 1).key = 2 * k + 4
           /\ LoadingMessage(2 * k + 4, g + 1).status = "loading"
           /\ LoadingMessage(2 * k + 4, g + 1).text = <<>>
           /\ UserMessage(2 * k + 3).role = "user" /\ UserMessage(2 * k + 3).status = "none"
  <1>1. PICK a \in Nat, b \in Nat : a = 2 * k + 3 /\ b = 2 * k + 4
    OBVIOUS
  <1>2. a \in 1 .. 2 * (k + 1) + 2 /\ b \in 1 .. 2 * (k + 1) + 2 /\ 0 <= g /\ g + 1 <= g + 1
    BY <1>1
  <1>3. PICK h \in Gens : h = g + 1
    OBVIOUS
  <1>4. PICK t \in Seq(Signs) : t = SomeText(0) /\ t \in Seq(From(0))
    <2>1. 0 \in Gens
      BY PlaygroundBounds DEF Gens
    <2>2. SomeText(0) \in Seq(Signs) /\ SomeText(0) \in Seq(From(0))
      BY <2>1, OwnTexts
    <2> QED BY <2>2, Zenon
  <1>5. PICK s \in Seq(Signs) : s = <<>> /\ s \in Seq(From(h))
    <2>1. <<>> \in Seq(Signs) /\ <<>> \in Seq(From(h))
      BY EmptySeq
    <2> QED BY <2>1, Zenon
  <1>6. PICK x : x = [role |-> "user", key |-> a, status |-> "none", req |-> 0, text |-> t]
    OBVIOUS
  <1>7. x = UserMessage(2 * k + 3)
    BY <1>1, <1>4, <1>6 DEF UserMessage
  <1>8. /\ x \in Message /\ x.role = "user" /\ x.key = a /\ x.status = "none" /\ x.req = 0
        /\ x.text = t
    BY <1>6, PlaygroundBounds DEF Message, Statuses, Gens
  <1>9. x \in Sane(g, k + 1)
    BY <1>2, <1>4, <1>8 DEF Sane, Own
  <1>10. PICK y : y = [role |-> "assistant", key |-> b, status |-> "loading", req |-> h, text |-> s]
    OBVIOUS
  <1>11. y = LoadingMessage(2 * k + 4, g + 1)
    BY <1>1, <1>3, <1>5, <1>10 DEF LoadingMessage, Answer
  <1>12. /\ y \in Message /\ y.role = "assistant" /\ y.key = b /\ y.status = "loading"
         /\ y.req = h /\ y.text = s
    BY <1>10 DEF Message, Statuses
  <1>13. y \in Sane(g + 1, k + 1)
    BY <1>2, <1>3, <1>5, <1>12 DEF Sane, Own
  <1> QED BY <1>1, <1>3, <1>5, <1>7, <1>8, <1>9, <1>11, <1>12, <1>13

\* l asks request g + 1 after the messages of front.
Asks(l, front, g, k) == l = Append(front, LoadingMessage(2 * k + 4, g + 1))

LEMMA AsksFields ==
    ASSUME NEW g \in Nat, g + 1 \in Gens, NEW k \in Nat, NEW front \in Seq(Sane(g, k + 1)),
           NEW l, Asks(l, front, g, k)
    PROVE  /\ l \in Seq(Sane(g + 1, k + 1)) /\ l # <<>> /\ Len(l) = Len(front) + 1
           /\ l[Len(l)] = LoadingMessage(2 * k + 4, g + 1)
           /\ \A i \in DOMAIN l : i # Len(l) => i \in DOMAIN front /\ l[i] = front[i]
  <1>1. front \in Seq(Sane(g + 1, k + 1))
    BY SaneGrows
  <1>2. PICK m \in Sane(g + 1, k + 1) : m = LoadingMessage(2 * k + 4, g + 1)
    BY NewMessages
  <1>3. l = Append(front, m)
    BY <1>2 DEF Asks
  <1>4. /\ l \in Seq(Sane(g + 1, k + 1)) /\ l # <<>> /\ Len(l) = Len(front) + 1
        /\ \A i \in 1 .. Len(front) : l[i] = front[i]
        /\ l[Len(front) + 1] = m
    BY <1>1, <1>3, AppendProperties
  <1>5. PICK n \in Nat : n = Len(front) /\ DOMAIN front = 1 .. n
    BY <1>1
  <1>6. DOMAIN l = 1 .. n + 1 /\ Len(l) = n + 1
    BY <1>4, <1>5
  <1>7. ASSUME NEW i \in DOMAIN l, i # Len(l) PROVE i \in DOMAIN front /\ l[i] = front[i]
    <2>1. i \in 1 .. n
      BY <1>6, <1>7
    <2> QED BY <1>4, <1>5, <2>1
  <1> QED BY <1>2, <1>4, <1>7

LEMMA AskedIn ==
    ASSUME NEW g \in Nat, g + 1 \in Gens, NEW k \in Nat, NEW front \in Seq(Sane(g, k + 1)),
           NEW ed \in 0 .. 2 * k + 2, NEW l, Asks(l, front, g, k)
    PROVE  AskedList(l) \in Lists(g + 1, k + 1, TRUE, ed)
  <1>1. /\ l \in Seq(Sane(g + 1, k + 1)) /\ l # <<>>
        /\ l[Len(l)] = LoadingMessage(2 * k + 4, g + 1)
        /\ \A i \in DOMAIN l : i # Len(l) => i \in DOMAIN front /\ l[i] = front[i]
    BY AsksFields
  <1>2. PICK m \in Sane(g + 1, k + 1) : m = l[Len(l)]
    BY <1>1
  <1>3. m.role = "assistant" /\ m.req = g + 1 /\ m.key = 2 * k + 4
    BY <1>1, <1>2, NewMessages
  <1>4. m.key # ed /\ g + 1 # 0
    BY <1>3
  <1>5. \A i \in DOMAIN l : i # Len(l) => l[i].req < g + 1
    <2> SUFFICES ASSUME NEW i \in DOMAIN l, i # Len(l) PROVE l[i].req < g + 1
      OBVIOUS
    <2>1. front[i] \in Sane(g, k + 1) /\ l[i] = front[i]
      BY <1>1
    <2>2. l[i].req \in Nat /\ l[i].req <= g
      BY <2>1 DEF Sane, Message, Gens
    <2> QED BY <2>2
  <1>6. CASE hasKey
    <2>1. Answering(l, g + 1, ed)
      BY <1>1, <1>2, <1>3, <1>4, <1>5 DEF Answering
    <2> QED BY <1>1, <1>6, <2>1 DEF AskedList, Lists
  <1>7. CASE ~hasKey
    <2>1. PICK a : a = FailedMessage(m)
      OBVIOUS
    <2>2. Becomes(a, m, "error", SomeText(m.req))
      BY <2>1, FailedFields DEF Sane
    <2>3. a \in Sane(g + 1, k + 1)
      <3>1. SomeText(m.req) \in Seq(From(m.req))
        BY <1>3, OwnTexts DEF Sane, Message
      <3> QED BY <1>3, <2>2, <3>1, SaneBecomes
    <2>4. PICK r : r = WithLast(l, a)
      OBVIOUS
    <2>5. r = AskedList(l)
      BY <1>2, <1>7, <2>1, <2>4 DEF AskedList
    <2>6. /\ r \in Seq(Sane(g + 1, k + 1)) /\ r # <<>>
          /\ Len(r) = Len(l) /\ DOMAIN r = DOMAIN l
          /\ r[Len(l)] = a
          /\ \A i \in DOMAIN l : i # Len(l) => r[i] = l[i]
      BY <1>1, <2>3, <2>4, WithLastIs
    <2>7. a.role = "assistant" /\ a.req = g + 1 /\ a.key # ed
      BY <1>3, <1>4, <2>2 DEF Becomes
    <2>8. Answering(r, g + 1, ed)
      BY <1>4, <1>5, <2>6, <2>7 DEF Answering
    <2> QED BY <2>5, <2>6, <2>8 DEF Lists
  <1> QED BY <1>6, <1>7

\* sendChat leaves a page in order.
LEMMA SendChatPage ==
    ASSUME RequestInv, PageInv(view, gen, moves, busy, editing),
           editing \in 0 .. 2 * moves + 2, NEW front \in Seq(Sane(gen, moves + 1)),
           NEW l, Asks(l, front, gen, moves), SendChat(l), Move,
           editing' \in {0, editing}, busy' \in BOOLEAN
    PROVE  /\ PageInv(view', gen', moves', busy', editing')
           /\ view' = View(AskedList(l), <<>>, AskedList(l), loaded)
           /\ view'.saving = loaded
  <1>1. /\ gen \in Nat /\ moves \in Nat /\ gen + 1 \in Gens /\ moves' = moves + 1
        /\ gen' = gen + 1 /\ loaded \in BOOLEAN
    BY NextNumbers DEF RequestInv, SendChat, Flags
  <1>2. l \in Seq(Message) /\ l # <<>> /\ l[Len(l)].role = "assistant"
    <2>1. /\ l \in Seq(Sane(gen + 1, moves + 1)) /\ l # <<>>
          /\ l[Len(l)] = LoadingMessage(2 * moves + 4, gen + 1)
      BY <1>1, AsksFields
    <2>2. LoadingMessage(2 * moves + 4, gen + 1).role = "assistant"
      BY <1>1, NewMessages
    <2> QED BY <2>1, <2>2, SaneLists
  <1>3. view' = View(AskedList(l), <<>>, AskedList(l), loaded)
    BY <1>1, <1>2, SendChatRenders DEF PageInv
  <1>4. editing' \in 0 .. 2 * moves + 2
    BY <1>1
  <1>5. AskedList(l) \in Lists(gen', moves', TRUE, editing')
    BY <1>1, <1>4, AskedIn
  <1>6. AskedList(l) \in Lists(gen', moves', busy', editing')
    BY <1>5 DEF Lists
  <1> QED BY <1>1, <1>3, <1>6, ClickPage

\* The messages that a new question keeps: those on the screen, without the
\* answer that is being generated, and the question.
FromShown(front) ==
    \A j \in DOMAIN front :
        \/ front[j] = UserMessage(2 * moves + 3)
        \/ \E i \in DOMAIN view.shown :
              front[j] = view.shown[i] /\ (busy => i # Len(view.shown))

\* The user asks for an answer to what front ends with.
Sends(front, l) ==
    /\ Asks(l, front, gen, moves) /\ FromShown(front)
    /\ front \in Seq(Sane(gen, moves + 1))
    /\ SendChat(l) /\ Move /\ loaded
    /\ editing' \in {0, editing}
    /\ UNCHANGED <<loaded, stored, hasKey, ended>>

LEMMA KeptFront ==
    ASSUME RequestInv, ViewInv, NEW n \in Nat, n <= Len(view.shown),
           busy => n # Len(view.shown),
           NEW front, front = SubSeq(view.shown, 1, n)
    PROVE  front \in Seq(Sane(gen, moves + 1)) /\ FromShown(front)
  <1>1. gen \in Nat /\ moves \in Nat /\ view.shown \in Seq(Sane(gen, moves))
    BY ListsTyped DEF RequestInv, Numbers, ViewInv, PageInv
  <1>2. view.shown \in Seq(Sane(gen, moves + 1))
    BY <1>1, SaneGrows
  <1>3. PICK k \in Nat : k = Len(view.shown) /\ DOMAIN view.shown = 1 .. k
    BY <1>1
  <1>4. \A i \in 1 .. n : view.shown[i] \in Sane(gen, moves + 1) /\ i \in DOMAIN view.shown
    BY <1>2, <1>3
  <1>5. /\ front \in Seq(Sane(gen, moves + 1)) /\ Len(front) = IF 1 <= n THEN n - 1 + 1 ELSE 0
        /\ \A i \in 1 .. n - 1 + 1 : front[i] = view.shown[1 + i - 1]
    BY <1>4, SubSeqProperties
  <1>6. DOMAIN front = 1 .. n
    BY <1>5
  <1>7. ASSUME NEW j \in DOMAIN front
        PROVE  \E i \in DOMAIN view.shown :
                  front[j] = view.shown[i] /\ (busy => i # Len(view.shown))
    <2>1. j \in 1 .. n - 1 + 1 /\ 1 + j - 1 = j
      BY <1>6
    <2>2. front[j] = view.shown[j] /\ j \in DOMAIN view.shown
      BY <1>4, <1>5, <1>6, <2>1
    <2>3. busy => j # Len(view.shown)
      BY <1>3, <1>6
    <2> QED BY <2>2, <2>3
  <1> QED BY <1>5, <1>7 DEF FromShown

\* Key gives fresh keys.
LEMMA KeyIs == Key("user") = 2 * moves + 3 /\ Key("assistant") = 2 * moves + 4
  BY DEF Key

\* The three ways to ask.
LEMMA Sending ==
    ASSUME RequestInv, ViewInv,
           \/ SendMessage \/ SaveEditAndSubmit
           \/ \E i \in DOMAIN view.shown : RegenerateMessage(i)
    PROVE  \E front, l : Sends(front, l)
  <1>0. /\ gen \in Nat /\ moves \in Nat /\ view.shown \in Seq(Sane(gen, moves))
        /\ view.shown \in Seq(Message)
    BY ListsTyped DEF RequestInv, Numbers, ViewInv, PageInv
  <1>a. PICK n \in Nat : n = Len(view.shown) /\ DOMAIN view.shown = 1 .. n
    BY <1>0
  <1>b. view.shown # <<>> => loaded
    BY DEF ViewInv, Blank
  <1>1. CASE SendMessage
    <2>0. /\ Move /\ loaded /\ ~busy
          /\ UNCHANGED <<loaded, stored, hasKey, editing, ended>>
          /\ SendChat(view.shown \o <<UserMessage(2 * moves + 3), LoadingMessage(2 * moves + 4, gen + 1)>>)
      BY <1>1, KeyIs DEF SendMessage
    <2>1. gen + 1 \in Gens
      BY <2>0, NextNumbers DEF RequestInv
    <2>2. PICK u \in Sane(gen, moves + 1) : u = UserMessage(2 * moves + 3)
      BY <1>0, <2>1, NewMessages
    <2>3. PICK a : a = LoadingMessage(2 * moves + 4, gen + 1)
      OBVIOUS
    <2>4. PICK front : front = Append(view.shown, u)
      OBVIOUS
    <2>5. view.shown \in Seq(Sane(gen, moves + 1))
      BY <1>0, SaneGrows
    <2>6. /\ front \in Seq(Sane(gen, moves + 1)) /\ Len(front) = n + 1
          /\ \A i \in 1 .. n : front[i] = view.shown[i]
          /\ front[n + 1] = u
      BY <1>a, <2>4, <2>5, AppendProperties
    <2>7. FromShown(front)
      <3> SUFFICES ASSUME NEW j \in DOMAIN front
                   PROVE  \/ front[j] = u
                          \/ \E i \in DOMAIN view.shown : front[j] = view.shown[i]
        BY <2>0, <2>2 DEF FromShown
      <3>1. j \in 1 .. n + 1
        BY <2>6
      <3>2. CASE j = n + 1
        BY <2>6, <3>2
      <3>3. CASE j # n + 1
        <4>1. j \in 1 .. n
          BY <3>1, <3>3
        <4> QED BY <1>a, <2>6, <4>1
      <3> QED BY <3>2, <3>3
    <2>8. view.shown \o <<u, a>> = Append(front, a)
      BY <1>0, <2>4, SMTT(30)
    <2>9. Asks(Append(front, a), front, gen, moves)
      BY <2>3 DEF Asks
    <2>10. SendChat(Append(front, a))
      BY <2>0, <2>2, <2>3, <2>8
    <2>11. Sends(front, Append(front, a))
      BY <2>0, <2>6, <2>7, <2>9, <2>10 DEF Sends
    <2> QED BY <2>11
  <1>2. CASE SaveEditAndSubmit
    <2>1. PICK i : i = FindIndex(view.shown, editing)
      OBVIOUS
    <2>2. /\ Move /\ i # 0 /\ view.shown[i].role = "user" /\ editing' = 0
          /\ UNCHANGED <<loaded, stored, hasKey, ended>>
          /\ SendChat(Append(SubSeq(view.shown, 1, i), LoadingMessage(2 * moves + 4, gen + 1)))
      BY <1>2, <2>1, KeyIs DEF SaveEditAndSubmit
    <2>3. i \in 1 .. n
      BY <1>0, <1>a, <2>1, <2>2, FindIndexIs
    <2>4. busy => i # n
      BY <1>a, <2>2 DEF ViewInv, PageInv, Lists, Answering
    <2>5. PICK front : front = SubSeq(view.shown, 1, i)
      OBVIOUS
    <2>6. front \in Seq(Sane(gen, moves + 1)) /\ FromShown(front)
      <3>1. i \in Nat /\ i <= Len(view.shown) /\ (busy => i # Len(view.shown))
        BY <1>a, <2>3, <2>4
      <3> QED BY <2>5, <3>1, KeptFront
    <2>7. view.shown # <<>>
      BY <1>a, <2>3
    <2>8. PICK l : l = Append(front, LoadingMessage(2 * moves + 4, gen + 1))
      OBVIOUS
    <2>9. Sends(front, l)
      BY <1>b, <2>2, <2>5, <2>6, <2>7, <2>8 DEF Sends, Asks
    <2> QED BY <2>9
  <1>3. ASSUME NEW i \in DOMAIN view.shown, RegenerateMessage(i)
        PROVE  \E front, l : Sends(front, l)
    <2>1. PICK kept : kept = IF view.shown[i].role = "user" THEN i ELSE i - 1
      OBVIOUS
    <2>2. /\ Move /\ ~busy
          /\ UNCHANGED <<loaded, stored, hasKey, editing, ended>>
          /\ SendChat(Append(SubSeq(view.shown, 1, kept), LoadingMessage(2 * moves + 4, gen + 1)))
      BY <1>3, <2>1, KeyIs DEF RegenerateMessage
    <2>3. kept \in Nat /\ kept <= n
      BY <1>a, <2>1
    <2>5. PICK front : front = SubSeq(view.shown, 1, kept)
      OBVIOUS
    <2>6. front \in Seq(Sane(gen, moves + 1)) /\ FromShown(front)
      BY <1>a, <2>2, <2>3, <2>5, KeptFront
    <2>7. view.shown # <<>>
      BY <1>a
    <2>8. PICK l : l = Append(front, LoadingMessage(2 * moves + 4, gen + 1))
      OBVIOUS
    <2>9. Sends(front, l)
      BY <1>b, <2>2, <2>5, <2>6, <2>7, <2>8 DEF Sends, Asks
    <2> QED BY <2>9
  <1> QED BY <1>1, <1>2, <1>3

\* A callback that adds an update for the current request, or none.
LEMMA CallbackPage ==
    ASSUME RequestInv, ViewInv, SavedInv, PageInv(view', gen, moves, busy, editing),
           Saves(view, view'), loaded, UNCHANGED <<loaded, stored, gen, busy, editing, moves>>
    PROVE  ViewInv' /\ SavedInv'
  <1>1. ViewInv'
    BY DEF ViewInv
  <1>2. SavedInv'
    BY DEF SavedInv, Saves
  <1> QED BY <1>1, <1>2

\* Before the messages are loaded nothing is requested.
LEMMA NothingYet ==
    ASSUME RequestInv, ViewInv, ~loaded
    PROVE  /\ ~busy /\ ~streaming /\ ~requesting /\ source = 0 /\ fetching = 0
           /\ view = Blank /\ view.queue = <<>> /\ view.shown = <<>> /\ ~view.saving
           /\ (buffer.gen # gen \/ buffer.chunks = <<>>)
  <1>1. view = Blank /\ ~busy
    BY DEF ViewInv
  <1>2. view.queue = <<>> /\ view.shown = <<>> /\ ~view.saving
    BY <1>1 DEF Blank
  <1>3. ~streaming /\ ~requesting
    BY <1>1 DEF RequestInv, Links
  <1>4. source = 0 /\ fetching = 0
    BY <1>3 DEF RequestInv, Links
  <1>5. buffer.gen # gen \/ buffer.chunks = <<>>
    BY <1>4 DEF RequestInv, Links
  <1> QED BY <1>1, <1>2, <1>3, <1>4, <1>5

LEMMA RenderPage ==
    ASSUME RequestInv, ViewInv, SavedInv, Render
    PROVE  ViewInv' /\ SavedInv'
  <1>0. /\ gen \in Nat /\ moves \in Nat /\ loaded \in BOOLEAN /\ busy \in BOOLEAN
        /\ PageInv(view, gen, moves, busy, editing) /\ view \in Views
    BY DEF RequestInv, Numbers, Flags, ViewInv, PageInv
  <1>1. busy' \in BOOLEAN /\ (busy' => busy)
    BY DEF Render, RequestInv, Flags, Links
  <1>2. loaded
    <2>1. SUFFICES ASSUME ~loaded PROVE FALSE
      OBVIOUS
    <2>2. ~busy /\ ~streaming /\ ~requesting /\ view.queue = <<>>
      BY <2>1, NothingYet
    <2>3. busy = (streaming \/ requesting)
      BY <1>0, <2>2
    <2> QED BY <2>2, <2>3 DEF Render, RenderDue
  <1>3. /\ view' \in Views /\ view'.queue = <<>> /\ view'.latest = view'.shown
        /\ view'.shown \in Lists(gen, moves, busy, editing)
    BY <1>0, PageRendered DEF Render
  <1>4. view'.shown \in Lists(gen, moves, busy', editing)
    BY <1>0, <1>1, <1>3, ListsGrow
  <1>5. PageInv(view', gen, moves, busy', editing)
    BY <1>3, <1>4, PageIdle
  <1>6. ViewInv'
    BY <1>2, <1>5 DEF ViewInv, Render
  <1>7. ~view'.saving => ~view.saving /\ view'.latest = view.latest
    BY <1>0, <1>2, RenderedSaves DEF Render
  <1>8. SavedInv'
    BY <1>2, <1>7 DEF SavedInv, Render
  <1> QED BY <1>6, <1>8

\* A click that left the list l on the screen.
LEMMA ClickSaved ==
    ASSUME RequestInv, RequestInv', ViewInv, SavedInv, loaded, loaded' = loaded,
           NEW l, l \in Lists(gen', moves', busy', editing'),
           view' = View(l, <<>>, l, loaded), stored' = stored, Move,
           gen' \in {gen, gen + 1}, editing' \in {0, editing}
    PROVE  ViewInv' /\ SavedInv'
  <1>0. gen \in Nat /\ moves \in Nat /\ gen' \in Nat /\ moves' \in Nat /\ moves' = moves + 1
    BY DEF RequestInv, Numbers, Move
  <1>1. PageInv(view', gen', moves', busy', editing') /\ view'.saving = loaded
    BY ClickPage DEF RequestInv, Flags
  <1>2. stored' \in Seq(Sane(gen', moves'))
    <2>1. gen <= gen' /\ moves <= moves'
      BY <1>0
    <2>2. stored \in Seq(Sane(gen, moves))
      BY DEF ViewInv
    <2> QED BY <1>0, <2>1, <2>2, SaneGrows
  <1>3. editing' \in 0 .. 2 * moves' + 2
    BY <1>0 DEF ViewInv
  <1>4. ViewInv'
    BY <1>1, <1>2, <1>3 DEF ViewInv
  <1>5. SavedInv'
    BY <1>1 DEF SavedInv
  <1> QED BY <1>4, <1>5

LEMMA SendsPage ==
    ASSUME RequestInv, RequestInv', ViewInv, SavedInv, NEW front, NEW l, Sends(front, l)
    PROVE  /\ ViewInv' /\ SavedInv'
           /\ view' = View(AskedList(l), <<>>, AskedList(l), loaded)
  <1>1. /\ PageInv(view', gen', moves', busy', editing')
        /\ view' = View(AskedList(l), <<>>, AskedList(l), loaded)
    BY SendChatPage DEF ViewInv, Sends, RequestInv, Flags
  <1>2. AskedList(l) \in Lists(gen', moves', busy', editing')
    BY <1>1, ViewIs DEF PageInv
  <1>3. gen' = gen + 1
    BY DEF Sends, SendChat
  <1>4. loaded /\ loaded' = loaded /\ stored' = stored /\ Move /\ editing' \in {0, editing}
    BY DEF Sends
  <1>5. ViewInv' /\ SavedInv'
    BY <1>1, <1>2, <1>3, <1>4, ClickSaved
  <1> QED BY <1>1, <1>5

\* The rewritten list of an edit.
RewrittenList(l, i) ==
    IF l[i].role = "user" THEN l ELSE [l EXCEPT ![i] = Rewritten(@)]

LEMMA RewrittenListIs ==
    ASSUME NEW g \in Nat, NEW k, NEW l \in Seq(Sane(g, k)), NEW i \in DOMAIN l,
           NEW r, r = RewrittenList(l, i)
    PROVE  /\ r \in Seq(Sane(g, k)) /\ Len(r) = Len(l) /\ DOMAIN r = DOMAIN l
           /\ \A j \in DOMAIN l : j # i => r[j] = l[j]
           /\ r[i].status = l[i].status /\ (r[i] = l[i] \/ r[i].req = 0)
  <1>1. PICK m \in Sane(g, k) : m = l[i]
    OBVIOUS
  <1>2. PICK a \in Sane(g, k) : a = Rewritten(m) /\ a.req = 0 /\ a.status = m.status
    BY RewrittenSane
  <1>3. CASE l[i].role = "user"
    BY <1>3 DEF RewrittenList
  <1>4. CASE l[i].role # "user"
    <2>1. r = [l EXCEPT ![i] = a]
      BY <1>1, <1>2, <1>4 DEF RewrittenList
    <2> QED BY <1>1, <1>2, <2>1
  <1> QED BY <1>3, <1>4

LEMMA RewrittenLists ==
    ASSUME NEW g \in Nat, NEW k, NEW b \in BOOLEAN, NEW ed, NEW l \in Lists(g, k, b, ed),
           NEW i \in DOMAIN l, l[i].key = ed, NEW r, r = RewrittenList(l, i)
    PROVE  r \in Lists(g, k, b, ed)
  <1>1. l \in Seq(Sane(g, k))
    BY DEF Lists
  <1>2. /\ r \in Seq(Sane(g, k)) /\ Len(r) = Len(l) /\ DOMAIN r = DOMAIN l
        /\ \A j \in DOMAIN l : j # i => r[j] = l[j]
        /\ r[i] = l[i] \/ r[i].req = 0
    BY <1>1, RewrittenListIs
  <1>3. CASE b
    <2>1. Answering(l, g, ed)
      BY <1>3 DEF Lists
    <2>2. i # Len(l)
      BY <2>1 DEF Answering
    <2>3. Len(l) \in DOMAIN l /\ r[Len(l)] = l[Len(l)] /\ r # <<>>
      BY <1>1, <1>2, <2>1, <2>2 DEF Answering
    <2>4. ASSUME NEW j \in DOMAIN r, j # Len(r) PROVE r[j].req < g
      <3>1. l[j].req < g
        BY <1>2, <2>1, <2>4 DEF Answering
      <3>2. 0 < g
        BY <2>1 DEF Answering
      <3> QED BY <1>2, <3>1, <3>2
    <2>5. Answering(r, g, ed)
      BY <1>2, <2>1, <2>3, <2>4 DEF Answering
    <2> QED BY <1>2, <2>5 DEF Lists
  <1>4. CASE ~b
    BY <1>2, <1>4 DEF Lists
  <1> QED BY <1>3, <1>4

\* handleSaveEdit: the list that it leaves.
LEMMA SaveEditRenders ==
    ASSUME RequestInv, ViewInv, SaveEdit
    PROVE  \E i \in DOMAIN view.shown :
             /\ view.shown[i].key = editing
             /\ view' = View(RewrittenList(view.shown, i), <<>>, RewrittenList(view.shown, i), loaded)
             /\ Move /\ editing' = 0 /\ busy' = (streaming \/ requesting)
             /\ UNCHANGED <<loaded, stored, gen, ended, source, fetching, buffer, sent>>
  <1>0. /\ gen \in Nat /\ loaded \in BOOLEAN /\ view \in Views
        /\ view.shown \in Seq(Sane(gen, moves)) /\ view.shown \in Seq(Message)
    BY ListsTyped DEF RequestInv, Numbers, Flags, ViewInv, PageInv
  <1>1. PICK i : i = FindIndex(view.shown, editing)
    OBVIOUS
  <1>2. PICK r : r = RewrittenList(view.shown, i)
    OBVIOUS
  <1>3. /\ i # 0 /\ Move /\ editing' = 0 /\ busy' = (streaming \/ requesting)
        /\ UNCHANGED <<loaded, stored, gen, ended, source, fetching, buffer, sent>>
        /\ \E e \in BOOLEAN : view' = Rendered(Push(view, Replace(r), gen, e), gen)
    BY <1>1, <1>2 DEF SaveEdit, RewrittenList
  <1>4. i \in DOMAIN view.shown /\ view.shown[i].key = editing
    BY <1>0, <1>1, <1>3, FindIndexIs
  <1>5. r \in Seq(Message)
    BY <1>0, <1>2, <1>4, RewrittenListIs, SaneLists
  <1>6. view' = View(r, <<>>, r, loaded)
    BY <1>0, <1>3, <1>5, ReplacingClick
  <1> QED BY <1>2, <1>3, <1>4, <1>6

LEMMA SaveEditPage ==
    ASSUME RequestInv, RequestInv', ViewInv, SavedInv, SaveEdit
    PROVE  ViewInv' /\ SavedInv'
  <1>0. /\ gen \in Nat /\ moves \in Nat /\ loaded \in BOOLEAN /\ busy \in BOOLEAN
        /\ view.shown \in Lists(gen, moves, busy, editing)
    BY DEF RequestInv, Numbers, Flags, ViewInv, PageInv
  <1>1. PICK i \in DOMAIN view.shown :
             /\ view.shown[i].key = editing
             /\ view' = View(RewrittenList(view.shown, i), <<>>, RewrittenList(view.shown, i), loaded)
             /\ Move /\ editing' = 0 /\ busy' = (streaming \/ requesting)
             /\ UNCHANGED <<loaded, stored, gen>>
    BY SaveEditRenders
  <1>2. PICK r : r = RewrittenList(view.shown, i)
    OBVIOUS
  <1>3. r \in Lists(gen, moves, busy, editing)
    BY <1>0, <1>1, <1>2, RewrittenLists
  <1>4. busy' \in BOOLEAN /\ (busy' => busy)
    BY <1>1 DEF RequestInv, Links, Flags
  <1>5. moves' = moves + 1 /\ moves' \in Nat /\ moves <= moves'
    BY <1>0, <1>1 DEF Move
  <1>6. r \in Lists(gen', moves', busy', editing')
    <2>1. Lists(gen, moves, busy, editing) \subseteq Lists(gen, moves', busy', 0)
      BY <1>0, <1>4, <1>5, ListsGrow
    <2> QED BY <1>1, <1>3, <2>1
  <1>7. loaded
    BY NothingYet
  <1> QED BY <1>1, <1>2, <1>6, <1>7, ClickSaved

\* handleDeleteMessage and Clear: the list that they leave.
LEMMA DeleteRenders ==
    ASSUME RequestInv, ViewInv, DeleteMessages
    PROVE  \E l \in Seq(Sane(gen, moves)) :
             /\ view' = View(l, <<>>, l, loaded)
             /\ loaded /\ ~busy /\ Move /\ editing' \in {0, editing} /\ view.queue = <<>>
             /\ UNCHANGED <<loaded, stored, gen, busy, ended, source, fetching, buffer, sent, mishaps>>
             /\ l = <<>> \/ \E k : l = RemoveMessageByKey(view.shown, k)
  <1>0. /\ gen \in Nat /\ loaded \in BOOLEAN /\ view \in Views
        /\ view.shown \in Seq(Sane(gen, moves)) /\ view.shown \in Seq(Message)
    BY ListsTyped DEF RequestInv, Numbers, Flags, ViewInv, PageInv
  <1>1. /\ ~busy /\ Move /\ view.shown # <<>> /\ editing' \in {0, editing}
        /\ UNCHANGED <<loaded, stored, gen, busy, ended, source, fetching, buffer, sent, mishaps>>
    BY DEF DeleteMessages
  <1>2. view.queue = <<>>
    BY <1>1 DEF ViewInv, PageInv
  <1>3. loaded
    BY <1>1, NothingYet
  <1>4. PICK e \in BOOLEAN :
          \/ \E i \in DOMAIN view.shown :
               view' = Rendered(Push(view, Update("remove", 0, <<>>, <<>>, view.shown[i].key), gen, e), gen)
          \/ view' = Rendered(Push(view, Replace(<<>>), gen, e), gen)
    BY DEF DeleteMessages
  <1>5. CASE view' = Rendered(Push(view, Replace(<<>>), gen, e), gen)
    <2>1. PICK l \in Seq(Sane(gen, moves)) : l = <<>>
      <3>1. <<>> \in Seq(Sane(gen, moves))
        BY EmptySeq
      <3> QED BY <3>1, Zenon
    <2>2. l \in Seq(Message)
      BY <2>1, SaneLists
    <2>3. view' = View(l, <<>>, l, loaded)
      <3>1. view' = Rendered(Push(view, Replace(l), gen, e), gen)
        BY <1>5, <2>1, Zenon
      <3> QED BY <1>0, <2>2, <3>1, ReplacingClick
    <2> QED BY <1>1, <1>2, <1>3, <2>1, <2>3
  <1>6. ASSUME NEW i \in DOMAIN view.shown,
               view' = Rendered(Push(view, Update("remove", 0, <<>>, <<>>, view.shown[i].key), gen, e), gen)
        PROVE  \E l \in Seq(Sane(gen, moves)) :
                 /\ view' = View(l, <<>>, l, loaded)
                 /\ \E k : l = RemoveMessageByKey(view.shown, k)
    <2>1. PICK k \in Nat : k = view.shown[i].key
      <3>1. view.shown[i] \in Message
        BY <1>0
      <3> QED BY <3>1, MessageFields
    <2>2. PICK u \in Updates : u = Update("remove", 0, <<>>, <<>>, k) /\ u.op = "remove" /\ u.key = k
      <3>1. PICK a \in Seq(Message), b \in Seq(Signs) : a = <<>> /\ b = <<>>
        <4>1. <<>> \in Seq(Message) /\ <<>> \in Seq(Signs)
          BY EmptySeq
        <4> QED BY <4>1, Zenon
      <3>2. 0 \in Gens /\ "remove" \in Ops
        BY PlaygroundBounds DEF Gens, Ops
      <3>3. PICK u : u = Update("remove", 0, a, b, k)
        OBVIOUS
      <3>4. u \in Updates /\ u.op = "remove" /\ u.key = k
        BY <3>2, <3>3, UpdateTyped
      <3> QED BY <3>1, <3>3, <3>4
    <2>3. PICK l : l = RemoveMessageByKey(view.shown, k)
      OBVIOUS
    <2>4. Run(u, view.shown, gen) = l
      BY <2>2, <2>3 DEF Run
    <2>5. view' = View(l, <<>>, l, loaded)
      <3>1. view' = Rendered(Push(view, u, gen, e), gen)
        BY <1>6, <2>1, <2>2
      <3>2. u.op # "evaluated"
        BY <2>2
      <3> QED BY <1>0, <1>2, <2>4, <3>1, <3>2, IdleClick
    <2>6. l \in Seq(Sane(gen, moves))
      BY <1>0, <2>3, RemovedIn
    <2> QED BY <2>3, <2>5, <2>6
  <1> QED BY <1>1, <1>2, <1>3, <1>4, <1>5, <1>6

LEMMA DeletePage ==
    ASSUME RequestInv, RequestInv', ViewInv, SavedInv, DeleteMessages
    PROVE  ViewInv' /\ SavedInv'
  <1>0. gen \in Nat /\ moves \in Nat
    BY DEF RequestInv, Numbers
  <1>1. PICK l \in Seq(Sane(gen, moves)) :
             /\ view' = View(l, <<>>, l, loaded)
             /\ loaded /\ ~busy /\ Move /\ editing' \in {0, editing}
             /\ UNCHANGED <<loaded, stored, gen, busy>>
    BY DeleteRenders
  <1>2. moves' \in Nat /\ moves <= moves'
    BY <1>0, <1>1 DEF Move
  <1>3. l \in Seq(Sane(gen', moves'))
    BY <1>0, <1>1, <1>2, SaneGrows
  <1>4. l \in Lists(gen', moves', busy', editing')
    BY <1>1, <1>3 DEF Lists
  <1> QED BY <1>1, <1>4, ClickSaved

\* stopGeneration: the list that it leaves.
LEMMA StopLeaves ==
    ASSUME RequestInv, ViewInv, StopGeneration
    PROVE  \E e \in BOOLEAN, l \in Seq(Message) :
             /\ l = StoppedList(Flushed(view, e).latest, gen + 1)
             /\ view' = View(l, <<>>, l, loaded)
             /\ l \in Seq(Sane(gen, moves)) /\ loaded
             /\ PageInv(Flushed(view, e), gen, moves, busy, editing)
  <1>0. /\ gen \in Nat /\ gen + 1 \in Gens /\ gen # gen + 1
        /\ loaded \in BOOLEAN /\ busy \in BOOLEAN
        /\ PageInv(view, gen, moves, busy, editing)
    BY NextNumbers DEF RequestInv, Flags, ViewInv, StopGeneration
  <1>1. PICK e \in BOOLEAN :
          view' = Rendered(Push(Flushed(view, e), ForLast("stop", gen + 1), gen + 1, FALSE), gen + 1)
    BY DEF StopGeneration
  <1>2. PICK v : v = Flushed(view, e)
    OBVIOUS
  <1>3. PageInv(v, gen, moves, busy, editing)
    BY <1>0, <1>2, FlushedPage
  <1>4. PICK h \in Gens : h = gen + 1
    BY <1>0
  <1>5. PICK l : l = StoppedList(v.latest, h)
    OBVIOUS
  <1>6. view' = View(l, <<>>, l, loaded)
    BY <1>0, <1>1, <1>2, <1>3, <1>4, <1>5, StopRenders
  <1>7. v.latest \in Seq(Sane(gen, moves))
    BY <1>3, ListsTyped DEF PageInv
  <1>8. l \in Seq(Sane(gen, moves))
    BY <1>5, <1>7, StoppedSane
  <1>9. l \in Seq(Message)
    BY <1>8, SaneLists
  <1>10. loaded
    BY NothingYet DEF StopGeneration
  <1> QED BY <1>2, <1>3, <1>4, <1>5, <1>6, <1>8, <1>9, <1>10

LEMMA StopPage ==
    ASSUME RequestInv, RequestInv', ViewInv, SavedInv, StopGeneration
    PROVE  ViewInv' /\ SavedInv'
  <1>0. gen \in Nat /\ moves \in Nat
    BY DEF RequestInv, Numbers
  <1>1. PICK e \in BOOLEAN, l \in Seq(Message) :
             /\ view' = View(l, <<>>, l, loaded)
             /\ l \in Seq(Sane(gen, moves)) /\ loaded
    BY StopLeaves
  <1>2. /\ Move /\ gen' = gen + 1 /\ busy' = FALSE /\ UNCHANGED <<loaded, stored, editing>>
    BY DEF StopGeneration
  <1>3. moves' \in Nat /\ moves <= moves' /\ gen <= gen' /\ gen' \in Nat
    BY <1>0, <1>2 DEF Move
  <1>4. l \in Seq(Sane(gen', moves'))
    BY <1>0, <1>1, <1>3, SaneGrows
  <1>5. l \in Lists(gen', moves', busy', editing')
    BY <1>2, <1>4 DEF Lists
  <1> QED BY <1>1, <1>2, <1>5, ClickSaved

\* The user does something that leaves the messages alone.
LEMMA AsidePage ==
    ASSUME RequestInv, ViewInv, SavedInv, Move,
           UNCHANGED <<view, loaded, stored, gen, busy>>,
           busy => editing' = editing, editing' \in 0 .. 2 * moves + 2
    PROVE  ViewInv' /\ SavedInv'
  <1>0. /\ gen \in Nat /\ moves \in Nat /\ busy \in BOOLEAN
        /\ moves' = moves + 1 /\ moves' \in Nat /\ moves <= moves'
    BY DEF RequestInv, Numbers, Flags, Move
  <1>1. PageInv(view, gen, moves', busy, editing')
    BY <1>0, PageGrows DEF ViewInv
  <1>2. stored \in Seq(Sane(gen, moves'))
    BY <1>0, SaneGrows DEF ViewInv
  <1>3. editing' \in 0 .. 2 * moves' + 2
    BY <1>0
  <1>4. ViewInv'
    BY <1>1, <1>2, <1>3 DEF ViewInv
  <1> QED BY <1>4 DEF SavedInv

LEMMA EditPage ==
    ASSUME RequestInv, ViewInv, SavedInv, NEW i \in DOMAIN view.shown, EditMessage(i)
    PROVE  ViewInv' /\ SavedInv'
  <1>1. PICK m \in Sane(gen, moves) : m = view.shown[i]
    BY ListsTyped DEF ViewInv, PageInv
  <1>2. m.key \in 0 .. 2 * moves + 2
    BY <1>1 DEF Sane, RequestInv, Numbers
  <1>3. /\ Move /\ ~busy /\ editing' = m.key /\ UNCHANGED <<view, loaded, stored, gen, busy>>
    BY <1>1 DEF EditMessage
  <1> QED BY <1>2, <1>3, AsidePage

LEMMA ChooseKeyPage ==
    ASSUME RequestInv, ViewInv, SavedInv, ChooseKey
    PROVE  ViewInv' /\ SavedInv'
  BY AsidePage DEF ChooseKey, ViewInv

\* The load leaves one update behind, which ran already.
LEMMA LoadLeaves ==
    ASSUME RequestInv, ViewInv, LoadMessages
    PROVE  \E l \in Seq(Sane(gen, moves)) :
             /\ l = LoadedList(stored) /\ stored' = l /\ l \in Seq(Message)
             /\ view' = View(<<>>, <<Evaluated(l)>>, l, FALSE)
             /\ view' \in Views
  <1>1. PICK l : l = LoadedList(stored)
    OBVIOUS
  <1>2. l \in Seq(Sane(gen, moves))
    BY <1>1, LoadedSane DEF ViewInv
  <1>3. l \in Seq(Message)
    BY <1>2, SaneLists
  <1>4. stored' = l /\ view' = [view EXCEPT !.latest = l, !.queue = <<Evaluated(l)>>]
    BY <1>1 DEF LoadMessages, LoadedList
  <1>5. view = [shown |-> <<>>, queue |-> <<>>, latest |-> <<>>, saving |-> FALSE]
    BY NothingYet DEF LoadMessages, Blank
  <1>6. PICK q \in Seq(Updates) : q = <<Evaluated(l)>>
    <2>1. PICK u \in Updates : u = Evaluated(l)
      BY <1>3, ListUpdates
    <2>2. <<u>> \in Seq(Updates)
      OBVIOUS
    <2> QED BY <2>1, <2>2, Zenon
  <1>7. view' = View(<<>>, q, l, FALSE)
    BY <1>4, <1>5, <1>6 DEF View
  <1>8. PICK s \in Seq(Message) : s = <<>>
    <2>1. <<>> \in Seq(Message)
      BY EmptySeq
    <2> QED BY <2>1, Zenon
  <1>9. View(s, q, l, FALSE) \in Views
    BY <1>3, ViewTyped
  <1>10. View(<<>>, q, l, FALSE) \in Views
    BY <1>8, <1>9, Zenon
  <1> QED BY <1>1, <1>2, <1>3, <1>4, <1>6, <1>7, <1>10

LEMMA LoadPage ==
    ASSUME RequestInv, ViewInv, SavedInv, LoadMessages
    PROVE  ViewInv' /\ SavedInv'
  <1>1. PICK l \in Seq(Sane(gen, moves)) :
             /\ stored' = l
             /\ view' = View(<<>>, <<Evaluated(l)>>, l, FALSE)
             /\ view' \in Views
    BY LoadLeaves
  <1>2. PICK u, q : u = Evaluated(l) /\ q = <<u>>
    OBVIOUS
  <1>3. u.op = "evaluated" /\ u.list = l
    BY <1>2, RunEvaluated
  <1>4. view'.shown = <<>> /\ view'.queue = q /\ view'.latest = l
    BY <1>1, <1>2 DEF View
  <1>5. ~busy /\ loaded' /\ UNCHANGED <<gen, moves, busy, editing>>
    BY NothingYet DEF LoadMessages
  <1>6. Len(q) = 1 /\ DOMAIN q = {1} /\ q[1] = u /\ q # <<>>
    BY <1>2
  <1>7. QueueInv(view', gen)
    <2>1. \A i \in DOMAIN view'.queue :
            view'.queue[i].op = "evaluated" /\ i = 1 /\ view'.queue[i].list = view'.latest
      BY <1>3, <1>4, <1>6
    <2>2. view'.queue # <<>> /\ view'.queue[1].op = "evaluated"
      BY <1>3, <1>4, <1>6
    <2> QED BY <2>1, <2>2 DEF QueueInv
  <1>8. view'.shown \in Lists(gen, moves, busy, editing) /\ view'.latest \in Lists(gen, moves, busy, editing)
    <2>1. <<>> \in Seq(Sane(gen, moves))
      BY EmptySeq
    <2> QED BY <1>4, <1>5, <2>1 DEF Lists
  <1>9. PageInv(view', gen, moves, busy, editing)
    <2>1. view'.shown = <<>> /\ Len(view'.queue) = 1 /\ view'.queue[1].op = "evaluated"
      BY <1>3, <1>4, <1>6
    <2> QED BY <1>1, <1>7, <1>8, <2>1 DEF PageInv
  <1>10. ViewInv'
    BY <1>1, <1>5, <1>9 DEF ViewInv
  <1>11. SavedInv'
    BY <1>1, <1>4 DEF SavedInv
  <1> QED BY <1>10, <1>11

\* The save timer runs.
LEMMA SavePage ==
    ASSUME RequestInv, ViewInv, SavedInv, SaveMessages
    PROVE  /\ ViewInv' /\ SavedInv'
           /\ view' = View(view.shown, view.queue, view.latest, FALSE)
  <1>0. PageInv(view, gen, moves, busy, editing) /\ view \in Views
    BY DEF ViewInv, PageInv
  <1>1. /\ view.shown \in Seq(Message) /\ view.latest \in Seq(Message) /\ view.queue \in Seq(Updates)
    BY <1>0, ViewFields
  <1>2. view' = View(view.shown, view.queue, view.latest, FALSE)
    BY <1>0 DEF SaveMessages, Views, View
  <1>3. PICK w \in Views : w = View(view.shown, view.queue, view.latest, FALSE)
    BY <1>1, ViewTyped
  <1>4. /\ w.shown = view.shown /\ w.queue = view.queue /\ w.latest = view.latest
        /\ w.saving = FALSE
    BY <1>3 DEF View
  <1>5. QueueInv(w, gen)
    BY <1>0, <1>4 DEF PageInv, QueueInv
  <1>6. PageInv(w, gen, moves, busy, editing)
    BY <1>0, <1>3, <1>4, <1>5 DEF PageInv
  <1>7. stored' = view.latest /\ UNCHANGED <<loaded, gen, moves, busy, editing>>
    BY DEF SaveMessages
  <1>8. loaded
    BY NothingYet DEF SaveMessages
  <1>9. view.latest \in Seq(Sane(gen, moves))
    BY <1>0, ListsTyped DEF PageInv
  <1>10. ViewInv'
    BY <1>2, <1>3, <1>6, <1>7, <1>8, <1>9 DEF ViewInv
  <1>11. SavedInv'
    BY <1>2, <1>3, <1>4, <1>7 DEF SavedInv
  <1> QED BY <1>2, <1>10, <1>11

\* A new visit starts from what is stored.
LEMMA VisitPage ==
    ASSUME RequestInv, ViewInv, Move, Visit, stored' \in Seq(Sane(gen, moves))
    PROVE  ViewInv' /\ SavedInv'
  <1>0. /\ gen \in Nat /\ moves \in Nat /\ gen' = gen + 1 /\ gen' \in Nat /\ gen <= gen'
        /\ moves' = moves + 1 /\ moves' \in Nat /\ moves <= moves'
    BY DEF RequestInv, Numbers, Move, Visit
  <1>1. /\ view' = Blank /\ ~loaded' /\ busy' = FALSE /\ editing' = 0
    BY DEF Visit
  <1>2. stored' \in Seq(Sane(gen', moves'))
    BY <1>0, SaneGrows
  <1>3. PICK s \in Seq(Message), q \in Seq(Updates) : s = <<>> /\ q = <<>>
    <2>1. <<>> \in Seq(Message) /\ <<>> \in Seq(Updates)
      BY EmptySeq
    <2> QED BY <2>1, Zenon
  <1>4. PICK w \in Views : w = View(s, q, s, FALSE)
    BY ViewTyped
  <1>5. w = view'
    BY <1>1, <1>3, <1>4 DEF Blank, View
  <1>6. w.queue = <<>> /\ w.shown = <<>> /\ w.latest = <<>>
    BY <1>3, <1>4 DEF View
  <1>7. <<>> \in Lists(gen', moves', busy', editing')
    <2>1. <<>> \in Seq(Sane(gen', moves'))
      BY EmptySeq
    <2> QED BY <1>1, <2>1 DEF Lists
  <1>8. PageInv(w, gen', moves', busy', editing')
    BY <1>6, <1>7, PageIdle
  <1>9. editing' \in 0 .. 2 * moves' + 2
    BY <1>0, <1>1
  <1>10. ViewInv'
    BY <1>1, <1>2, <1>5, <1>8, <1>9 DEF ViewInv
  <1>11. SavedInv'
    BY <1>1 DEF SavedInv
  <1> QED BY <1>10, <1>11

-----------------------------------------------------------------------------
(* Every step keeps the page and the storage in order.                     *)

LEMMA FlushTimerPage ==
    ASSUME RequestInv, ViewInv, SavedInv, FlushTimer
    PROVE  ViewInv' /\ SavedInv'
  <1>1. PICK e \in BOOLEAN : view' = Flushed(view, e)
    BY DEF FlushTimer
  <1>2. PageInv(view', gen, moves, busy, editing) /\ Saves(view, view')
    BY <1>1, FlushedPage DEF ViewInv
  <1>3. UNCHANGED <<loaded, stored, gen, busy, editing, moves>>
    BY DEF FlushTimer
  <1>4. CASE loaded
    BY <1>2, <1>3, <1>4, CallbackPage
  <1>5. CASE ~loaded
    <2>1. view' = view
      BY <1>1, <1>5, NothingYet DEF Flushed
    <2> QED BY <1>3, <2>1 DEF ViewInv, SavedInv
  <1> QED BY <1>4, <1>5

LEMMA ConcludedPage ==
    ASSUME RequestInv, ViewInv, SavedInv, NEW g \in {source, fetching}, g # 0,
           NEW op \in {"finish", "fail", "answer"}, Conclude(g, op),
           UNCHANGED <<loaded, stored, gen, busy, editing, moves>>
    PROVE  ViewInv' /\ SavedInv'
  <1>1. PageInv(view', gen, moves, busy, editing) /\ Saves(view, view')
    BY ConcludePage DEF ViewInv
  <1>2. loaded
    BY NothingYet
  <1> QED BY <1>1, <1>2, CallbackPage

LEMMA PageSteps ==
    ASSUME RequestInv, RequestInv', ViewInv, SavedInv, [Next]_vars
    PROVE  ViewInv' /\ SavedInv'
  <1>1. CASE Render
    BY <1>1, RenderPage
  <1>2. CASE FlushTimer
    BY <1>2, FlushTimerPage
  <1>3. CASE StreamDelta \/ StreamCut \/ KeyRevoked \/ UNCHANGED vars
    <2>1. UNCHANGED <<view, loaded, stored, gen, busy, editing, moves>>
      BY <1>3 DEF StreamDelta, StreamCut, KeyRevoked, vars
    <2> QED BY <2>1 DEF ViewInv, SavedInv
  <1>4. CASE StreamDone
    <2>1. /\ source # 0 /\ Conclude(source, "finish")
          /\ UNCHANGED <<loaded, stored, gen, busy, editing, moves>>
      BY <1>4 DEF StreamDone
    <2> QED BY <2>1, ConcludedPage
  <1>5. CASE StreamError
    <2>1. /\ source # 0 /\ Conclude(source, "fail")
          /\ UNCHANGED <<loaded, stored, gen, busy, editing, moves>>
      BY <1>5 DEF StreamError
    <2> QED BY <2>1, ConcludedPage
  <1>6. CASE FetchAnswer
    <2>1. /\ fetching # 0
          /\ UNCHANGED <<loaded, stored, gen, busy, editing, moves>>
      BY <1>6 DEF FetchAnswer
    <2>2. PICK op \in {"answer", "fail"} : Conclude(fetching, op)
      BY <1>6 DEF FetchAnswer
    <2> QED BY <2>1, <2>2, ConcludedPage
  <1>7. CASE SendMessage \/ SaveEditAndSubmit \/ \E i \in DOMAIN view.shown : RegenerateMessage(i)
    <2>1. PICK front, l : Sends(front, l)
      BY <1>7, Sending
    <2> QED BY <2>1, SendsPage
  <1>8. CASE SaveEdit
    BY <1>8, SaveEditPage
  <1>9. CASE DeleteMessages
    BY <1>9, DeletePage
  <1>10. CASE StopGeneration
    BY <1>10, StopPage
  <1>11. CASE ChooseKey
    BY <1>11, ChooseKeyPage
  <1>12. CASE LoadMessages
    BY <1>12, LoadPage
  <1>13. CASE SaveMessages
    BY <1>13, SavePage
  <1>14. CASE LeavePage \/ ReloadPage
    <2>1. Move /\ Visit /\ stored' \in {stored, view.latest}
      BY <1>14 DEF LeavePage, ReloadPage
    <2>2. stored' \in Seq(Sane(gen, moves))
      BY <2>1, ListsTyped DEF ViewInv, PageInv
    <2> QED BY <2>1, <2>2, VisitPage
  <1>15. ASSUME NEW i \in DOMAIN view.shown, EditMessage(i) PROVE ViewInv' /\ SavedInv'
    BY <1>15, EditPage
  <1> QED BY <1>1, <1>2, <1>3, <1>4, <1>5, <1>6, <1>7, <1>8, <1>9, <1>10, <1>11, <1>12, <1>13,
             <1>14, <1>15 DEF Next

LEMMA InitPage == Init => ViewInv /\ SavedInv
  <1> SUFFICES ASSUME Init PROVE ViewInv /\ SavedInv
    OBVIOUS
  <1>1. /\ view = Blank /\ ~loaded /\ busy = FALSE /\ editing = 0 /\ moves = 0 /\ gen = 0
        /\ stored = <<UserMessage(1), LoadingMessage(2, 0)>>
    BY DEF Init
  <1>2. PICK s \in Seq(Message), q \in Seq(Updates) : s = <<>> /\ q = <<>>
    <2>1. <<>> \in Seq(Message) /\ <<>> \in Seq(Updates)
      BY EmptySeq
    <2> QED BY <2>1, Zenon
  <1>3. PICK w \in Views : w = View(s, q, s, FALSE)
    BY ViewTyped
  <1>4. w = view
    BY <1>1, <1>2, <1>3 DEF Blank, View
  <1>5. w.queue = <<>> /\ w.shown = <<>> /\ w.latest = <<>>
    BY <1>2, <1>3 DEF View
  <1>6. <<>> \in Lists(gen, moves, busy, editing)
    <2>1. <<>> \in Seq(Sane(gen, moves))
      BY EmptySeq
    <2> QED BY <1>1, <2>1 DEF Lists
  <1>7. PageInv(w, gen, moves, busy, editing)
    BY <1>5, <1>6, PageIdle
  <1>8. stored \in Seq(Sane(gen, moves))
    <2>0. 0 \in Gens
      BY PlaygroundBounds DEF Gens
    <2>1. PICK t \in Seq(Signs) : t = SomeText(0) /\ t \in Seq(From(0))
      <3>1. SomeText(0) \in Seq(Signs) /\ SomeText(0) \in Seq(From(0))
        BY <2>0, OwnTexts
      <3> QED BY <3>1, Zenon
    <2>2. PICK x : x = [role |-> "user", key |-> 1, status |-> "none", req |-> 0, text |-> t]
      OBVIOUS
    <2>3. /\ x \in Message /\ x.role = "user" /\ x.key = 1 /\ x.status = "none" /\ x.req = 0
          /\ x.text = t
      BY <2>0, <2>2 DEF Message, Statuses
    <2>4. x \in Sane(gen, moves)
      <3>1. x.key \in 1 .. 2 * moves + 2 /\ x.req <= gen
        BY <1>1, <2>3
      <3>2. x.text \in Seq(From(x.req))
        BY <2>1, <2>3
      <3> QED BY <2>3, <3>1, <3>2 DEF Sane, Own
    <2>5. PICK y : y = [role |-> "assistant", key |-> 2, status |-> "loading", req |-> 0, text |-> s]
      OBVIOUS
    <2>6. s \in Seq(Signs) /\ s \in Seq(From(0))
      BY <1>2
    <2>7. /\ y \in Message /\ y.role = "assistant" /\ y.key = 2 /\ y.status = "loading"
          /\ y.req = 0 /\ y.text = s
      BY <2>0, <2>5, <2>6 DEF Message, Statuses
    <2>8. y \in Sane(gen, moves)
      <3>1. y.key \in 1 .. 2 * moves + 2 /\ y.req <= gen
        BY <1>1, <2>7
      <3>2. y.text \in Seq(From(y.req))
        BY <2>6, <2>7
      <3> QED BY <2>7, <3>1, <3>2 DEF Sane, Own
    <2>9. stored = <<x, y>>
      BY <1>1, <1>2, <2>1, <2>2, <2>5 DEF UserMessage, LoadingMessage, Answer
    <2>10. <<x, y>> \in Seq(Sane(gen, moves))
      BY <2>4, <2>8
    <2> QED BY <2>9, <2>10
  <1>9. editing \in 0 .. 2 * moves + 2
    BY <1>1
  <1> QED BY <1>1, <1>4, <1>7, <1>8, <1>9 DEF ViewInv, SavedInv

\* BaseInv is an invariant.
LEMMA BaseHolds == Spec => []BaseInv
  <1>1. Init => BaseInv
    BY InitRequest, InitPage DEF BaseInv
  <1>2. BaseInv /\ [Next]_vars => BaseInv'
    BY RequestSteps, PageSteps DEF BaseInv
  <1> QED BY <1>1, <1>2, PTL DEF Spec

\* The types of the page: messages, pending updates, request and histories
\* (use-playground-state.ts, use-chat-handler.ts, use-stream-request.ts).
THEOREM PlaygroundTypeCorrect == Spec => []TypeOK
  <1>1. BaseInv => TypeOK
    <2> SUFFICES ASSUME BaseInv PROVE TypeOK
      OBVIOUS
    <2>0. view \in Views /\ stored \in Seq(Message)
      BY SaneLists DEF BaseInv, ViewInv, PageInv
    <2>1. /\ view.shown \in Seq(Message) /\ view.latest \in Seq(Message)
          /\ view.saving \in BOOLEAN /\ view.queue \in Seq(Updates)
      BY <2>0, ViewFields
    <2>2. \A i \in DOMAIN view.queue : view.queue[i].list \in Seq(Message)
      <3> SUFFICES ASSUME NEW i \in DOMAIN view.queue PROVE view.queue[i].list \in Seq(Message)
        OBVIOUS
      <3>1. view.queue[i] \in Updates
        BY <2>1
      <3> QED BY <3>1 DEF Updates
    <2>3. gen \in Gens /\ source \in Gens /\ fetching \in Gens
      BY PlaygroundBounds DEF BaseInv, RequestInv, Numbers, Gens
    <2>4. buffer \in [gen : Gens, chunks : Seq(Signs)]
      BY DEF BaseInv, RequestInv, BufferOK
    <2>5. {loaded, timer, streaming, requesting, busy, hasKey} \subseteq BOOLEAN
      BY DEF BaseInv, RequestInv, Flags
    <2>6. /\ sent \in Sent /\ ended \subseteq (Gens \X Sent)
          /\ mishaps \subseteq {"cut", "keyless", "clobbered"}
      BY DEF BaseInv, RequestInv, Numbers, Histories
    <2> QED BY <2>0, <2>1, <2>2, <2>3, <2>4, <2>5, <2>6 DEF TypeOK
  <1> QED BY <1>1, BaseHolds, PTL

\* The pieces of a stopped, regenerated, edited or failed answer never reach
\* another one: flushStreamUpdates and the callbacks compare generations when
\* they are called and when their updater runs.
THEOREM AnswersAreTheirOwn == Spec => []OwnAnswerOnly
  <1>1. BaseInv => OwnAnswerOnly
    <2> SUFFICES ASSUME BaseInv, NEW i \in DOMAIN view.shown,
                        NEW j \in DOMAIN view.shown[i].text
                 PROVE  view.shown[i].text[j][1] = view.shown[i].req
      BY DEF OwnAnswerOnly
    <2>1. view.shown \in Seq(Sane(gen, moves))
      BY ListsTyped DEF BaseInv, ViewInv, PageInv
    <2>2. PICK m \in Sane(gen, moves) : m = view.shown[i]
      BY <2>1
    <2>3. m.text \in Seq(From(m.req))
      BY DEF Sane, Own
    <2>4. m.text[j] \in From(m.req)
      BY <2>2, <2>3
    <2>5. \A c \in From(m.req) : c[1] = m.req
      BY DEF From
    <2> QED BY <2>2, <2>4, <2>5
  <1> QED BY <1>1, BaseHolds, PTL

\* When no save is due, localStorage has what is on the screen: every updater
\* starts the half second again, and what ran before a render is the latest.
THEOREM EverythingSaved == Spec => []NothingUnsaved
  <1>1. BaseInv => NothingUnsaved
    BY DEF BaseInv, SavedInv, ViewInv, PageInv, QueueInv, NothingUnsaved
  <1> QED BY <1>1, BaseHolds, PTL

-----------------------------------------------------------------------------
(* What will be shown: the outcome of the pending updates.                 *)

\* Two ways through the same updates end in the same list.
LEMMA OutcomeUnique ==
    ASSUME NEW v \in Views, NEW g, NEW f, Trace(f, v, g)
    PROVE  Outcome(v, g) = f[Len(v.queue)]
  <1>0. PICK n \in Nat : n = Len(v.queue)
    BY ViewFields
  <1>1. ASSUME NEW h, Trace(h, v, g) PROVE h[n] = f[n]
    <2> DEFINE S == {i \in Nat : i <= n => h[i] = f[i]}
    <2>1. 0 \in S
      BY <1>1 DEF Trace
    <2>2. ASSUME NEW i \in Nat, i \in S PROVE i + 1 \in S
      <3> SUFFICES ASSUME i + 1 <= n PROVE h[i + 1] = f[i + 1]
        OBVIOUS
      <3>1. i + 1 \in 1 .. n /\ (i + 1) - 1 = i /\ h[i] = f[i]
        BY <2>2
      <3>2. h[i + 1] = Run(v.queue[i + 1], h[i], g)
        BY <1>0, <1>1, <3>1 DEF Trace
      <3>3. f[i + 1] = Run(v.queue[i + 1], f[i], g)
        BY <1>0, <3>1 DEF Trace
      <3> QED BY <3>1, <3>2, <3>3
    <2> HIDE DEF S
    <2>3. Nat \subseteq S
      BY <2>1, <2>2, SetInduction
    <2> QED BY <2>3 DEF S
  <1>2. \A ms : (\E h : Trace(h, v, g) /\ ms = h[n]) <=> ms = f[n]
    BY <1>1
  <1>3. Outcome(v, g) = CHOOSE ms : \E h : Trace(h, v, g) /\ ms = h[n]
    BY <1>0 DEF Outcome
  <1>4. \E h : Trace(h, v, g) /\ Outcome(v, g) = h[n]
    BY <1>2, <1>3, Zenon
  <1> QED BY <1>0, <1>2, <1>4

\* A render shows the outcome.
LEMMA OutcomeIs ==
    ASSUME NEW v \in Views, NEW g, loaded \in BOOLEAN
    PROVE  Outcome(v, g) = Rendered(v, g).shown
  <1>0. PICK n \in Nat : n = Len(v.queue)
    BY ViewFields
  <1>1. PICK d : Done(d, v, n, g) /\ Rendered(v, g) = d[n]
    BY <1>0, RenderedDone
  <1>2. /\ \A i \in 0 .. n : d[i] \in Views
        /\ d[0] = View(v.shown, <<>>, v.latest, v.saving)
        /\ \A i \in Nat : i + 1 <= n =>
             /\ v.queue[i + 1] \in Updates
             /\ d[i + 1] = Ran(d[i], v.queue[i + 1], g)
    <2>1. Steps(d, v, n, g)
      BY <1>0, <1>1, DoneTyped
    <2> QED BY <2>1 DEF Steps
  <1>3. PICK f : f = [i \in 0 .. n |-> d[i].shown]
    OBVIOUS
  <1>4. f[0] = v.shown
    BY <1>2, <1>3, ViewIs
  <1>5. ASSUME NEW i \in 1 .. n PROVE f[i] = Run(v.queue[i], f[i - 1], g)
    <2>1. PICK j \in Nat : i = j + 1 /\ i - 1 = j /\ j + 1 <= n /\ j \in 0 .. n /\ i \in 0 .. n
      <3>1. i - 1 \in Nat /\ i = (i - 1) + 1
        OBVIOUS
      <3> QED BY <3>1
    <2>2. PICK u \in Updates, w \in Views : u = v.queue[i] /\ w = d[j]
      BY <1>2, <2>1
    <2>3. d[i] = Ran(w, u, g)
      BY <1>2, <2>1, <2>2
    <2>4. Ran(w, u, g).shown = Run(u, w.shown, g)
      BY RanView
    <2>5. f[i] = d[i].shown /\ f[i - 1] = w.shown
      BY <1>3, <2>1, <2>2
    <2> QED BY <2>2, <2>3, <2>4, <2>5
  <1>6. Trace(f, v, g)
    BY <1>0, <1>4, <1>5 DEF Trace
  <1>7. Outcome(v, g) = f[n]
    BY <1>0, <1>6, OutcomeUnique
  <1>8. f[n] = d[n].shown
    BY <1>3
  <1> QED BY <1>1, <1>7, <1>8

\* Without pending updates it is what is shown.
LEMMA OutcomeIdle ==
    ASSUME NEW v \in Views, NEW g, v.queue = <<>>
    PROVE  Outcome(v, g) = v.shown
  <1>1. PICK f : f = [i \in 0 .. 0 |-> v.shown]
    OBVIOUS
  <1>2. f[0] = v.shown /\ Len(v.queue) = 0
    BY <1>1, EmptySeq
  <1>3. Trace(f, v, g)
    BY <1>2 DEF Trace
  <1> QED BY <1>2, <1>3, OutcomeUnique

\* It depends on what is shown and what is pending only.
LEMMA OutcomeSame ==
    ASSUME NEW v, NEW w, NEW g, v.shown = w.shown, v.queue = w.queue
    PROVE  Outcome(v, g) = Outcome(w, g)
  BY DEF Outcome, Trace

\* setMessages adds its updater to the outcome, and remembers the outcome if
\* React runs it at once.
LEMMA OutcomePush ==
    ASSUME NEW v \in Views, NEW u \in Updates, NEW g, NEW e, loaded \in BOOLEAN,
           u.op # "evaluated", NEW w, w = Push(v, u, g, e)
    PROVE  /\ w \in Views /\ w.shown = v.shown
           /\ Outcome(w, g) = Run(u, Outcome(v, g), g)
           /\ w.latest \in {v.latest, Outcome(w, g)}
  <1>1. w \in Views /\ w.shown = v.shown
    BY PushTyped
  <1>2. Outcome(w, g) = Run(u, Outcome(v, g), g)
    BY <1>1, OutcomeIs, PushOutcome
  <1>3. w.latest \in {v.latest, Outcome(w, g)}
    <2>1. PICK ms : ms = Run(u, v.shown, g)
      OBVIOUS
    <2>2. w.latest = v.latest \/ (v.queue = <<>> /\ w.latest = ms)
      <3>1. \/ w = View(v.shown, Append(v.queue, u), v.latest, v.saving)
            \/ v.queue = <<>> /\ w = View(v.shown, <<>>, ms, loaded)
            \/ v.queue = <<>> /\ w = View(v.shown, <<Evaluated(ms)>>, ms, loaded)
        BY <2>1, PushFields
      <3> QED BY <3>1 DEF View
    <2>3. CASE v.queue = <<>>
      BY <1>2, <2>1, <2>2, <2>3, OutcomeIdle
    <2> QED BY <2>2, <2>3
  <1> QED BY <1>1, <1>2, <1>3

\* The outcome of a busy page ends with the answer of the request.
LEMMA OutcomeLists ==
    ASSUME NEW v, NEW g, NEW k, NEW b \in BOOLEAN, NEW ed, PageInv(v, g, k, b, ed),
           loaded \in BOOLEAN
    PROVE  Outcome(v, g) \in Lists(g, k, b, ed) /\ Outcome(v, g) \in Seq(Message)
  <1>1. Outcome(v, g) = Rendered(v, g).shown
    BY OutcomeIs DEF PageInv
  <1> QED BY <1>1, PageRendered, ListsTyped

\* When nothing is generated the messages on the screen are the outcome.
LEMMA OutcomeShown ==
    ASSUME RequestInv, ViewInv, ~busy, view.shown # <<>>
    PROVE  Outcome(view, gen) = view.shown /\ ~Open
  <1>1. view.queue = <<>>
    BY DEF ViewInv, PageInv
  <1>2. Outcome(view, gen) = view.shown
    BY <1>1, OutcomeIdle DEF ViewInv, PageInv
  <1>3. ~Open
    BY DEF RequestInv, Links, Open
  <1> QED BY <1>2, <1>3

\* next is out with another last message.
Amends(next, out, a) ==
    /\ out # <<>> /\ next # <<>> /\ Len(next) = Len(out) /\ DOMAIN next = DOMAIN out
    /\ Len(out) \in DOMAIN out /\ next[Len(out)] = a
    /\ \A i \in DOMAIN out : i # Len(out) => next[i] = out[i]

\* next is what the updater u of request g makes of out.
Amended(next, out, u, g) ==
    \E m \in Message, a \in Message :
        /\ m = out[Len(out)] /\ m.req = g /\ m.role = "assistant"
        /\ Amends(next, out, a) /\ Becomes(a, m, AnsweredStatus(u, m), AnsweredText(u, m))

LEMMA RunAmends ==
    ASSUME NEW g, NEW k, NEW ed, NEW out \in Lists(g, k, TRUE, ed), NEW u \in Updates,
           InFlight(u, g), NEW next, next = Run(u, out, g)
    PROVE  Amended(next, out, u, g) /\ next \in Lists(g, k, TRUE, ed)
  <1>1. PICK m \in Message : m = out[Len(out)]
    BY RunInFlight
  <1>2. PICK a : a = Answered(u, m)
    OBVIOUS
  <1>3. Becomes(a, m, AnsweredStatus(u, m), AnsweredText(u, m))
    BY <1>2, AnsweredFields
  <1>4. a \in Message
    BY <1>3 DEF Becomes
  <1>5. next = WithLast(out, a) /\ next \in Lists(g, k, TRUE, ed)
    BY <1>1, <1>2, RunInFlight
  <1>6. out \in Seq(Message) /\ out # <<>> /\ m.req = g /\ m.role = "assistant"
    BY <1>1, ListsTyped DEF Lists, Answering
  <1>7. Amends(next, out, a)
    BY <1>4, <1>5, <1>6, WithLastIs DEF Amends
  <1> QED BY <1>1, <1>3, <1>4, <1>5, <1>6, <1>7 DEF Amended

LEMMA AmendsSettled ==
    ASSUME NEW next, NEW out \in Seq(Message), NEW a, Amends(next, out, a), FrontSettled(out)
    PROVE  /\ FrontSettled(next)
           /\ ~Pending(a) => Settled(next)
           /\ Pending(a) => Pending(next[Len(next)])
  <1>0. PICK n \in Nat : n = Len(out) /\ DOMAIN out = 1 .. n
    OBVIOUS
  <1>1. \A i \in DOMAIN next : i # n => ~Pending(next[i])
    <2> SUFFICES ASSUME NEW i \in DOMAIN next, i # n PROVE ~Pending(next[i])
      OBVIOUS
    <2>1. i \in DOMAIN out /\ i < n /\ next[i] = out[i]
      BY <1>0 DEF Amends
    <2> QED BY <1>0, <2>1 DEF FrontSettled
  <1>2. FrontSettled(next)
    <2> SUFFICES ASSUME NEW i \in DOMAIN next, i < Len(next) PROVE ~Pending(next[i])
      BY DEF FrontSettled
    <2>1. i # n
      BY <1>0 DEF Amends
    <2> QED BY <1>1, <2>1
  <1>3. next[n] = a /\ Len(next) = n
    BY <1>0 DEF Amends
  <1>4. ~Pending(a) => Settled(next)
    BY <1>1, <1>3 DEF Settled
  <1> QED BY <1>2, <1>3, <1>4

LEMMA AmendsWhole ==
    ASSUME NEW next, NEW out, NEW a, Amends(next, out, a), NEW es, Whole(out, es),
           \A e \in es : e[1] # a.req
    PROVE  Whole(next, es)
  <1> SUFFICES ASSUME NEW i \in DOMAIN next, NEW e \in es,
                      next[i].role = "assistant" /\ next[i].req = e[1]
               PROVE  next[i].status = "complete" /\ Full(next[i].text, next[i].req, <<>>, e[2])
    BY DEF Whole
  <1>1. i # Len(out)
    BY DEF Amends
  <1>2. next[i] = out[i] /\ i \in DOMAIN out
    BY <1>1 DEF Amends
  <1> QED BY <1>2 DEF Whole

\* The text after a flush.
LEMMA FlushedText ==
    ASSUME NEW u \in Updates, u.op = "append", NEW m \in Message, Pending(m)
    PROVE  /\ AnsweredStatus(u, m) = "streaming"
           /\ AnsweredText(u, m) = Joined(m.text, u.chunks)
  <1>1. m.status # "error" /\ m.text \in Seq(Signs) /\ u.chunks \in Seq(Signs)
    BY MessageFields DEF Pending, Updates
  <1> QED BY <1>1 DEF AnsweredStatus, AnsweredText

\* flushStreamUpdates: the outcome is as before when there is nothing to flush;
\* else the last answer is the one of the request, and gets the pieces.
Flushing(w) ==
    \/ /\ w = view /\ Outcome(w, gen) = Outcome(view, gen)
       /\ buffer.gen # gen \/ buffer.chunks = <<>>
    \/ /\ source = gen /\ gen # 0 /\ busy
       /\ \E u \in Updates : /\ u.op = "append" /\ u.chunks = buffer.chunks
                             /\ Amended(Outcome(w, gen), Outcome(view, gen), u, gen)

LEMMA FlushOutcome ==
    ASSUME RequestInv, ViewInv, NEW e, NEW w, w = Flushed(view, e)
    PROVE  /\ w.shown = view.shown /\ w.latest \in {view.latest, Outcome(w, gen)}
           /\ PageInv(w, gen, moves, busy, editing)
           /\ Outcome(w, gen) \in Lists(gen, moves, busy, editing)
           /\ Flushing(w)
  <1>0. /\ loaded \in BOOLEAN /\ busy \in BOOLEAN /\ view \in Views
        /\ PageInv(view, gen, moves, busy, editing)
    BY DEF RequestInv, Flags, ViewInv, PageInv
  <1>1. PageInv(w, gen, moves, busy, editing)
    BY <1>0, FlushedPage
  <1>2. Outcome(w, gen) \in Lists(gen, moves, busy, editing)
    BY <1>0, <1>1, OutcomeLists
  <1>3. CASE buffer.gen # gen \/ buffer.chunks = <<>>
    <2>1. w = view
      BY <1>3 DEF Flushed
    <2> QED BY <1>1, <1>2, <1>3, <2>1 DEF Flushing
  <1>4. CASE ~(buffer.gen # gen \/ buffer.chunks = <<>>)
    <2>1. source = gen /\ gen # 0 /\ busy
      BY <1>4 DEF RequestInv, Links
    <2>2. PICK u : u = Update("append", gen, <<>>, buffer.chunks, 0)
      OBVIOUS
    <2>3. /\ u \in Updates /\ InFlight(u, gen) /\ u.op = "append" /\ u.chunks = buffer.chunks
      BY <1>4, <2>2, FlushUpdate
    <2>4. w = Push(view, u, gen, e)
      BY <1>4, <2>2 DEF Flushed
    <2>5. /\ w.shown = view.shown /\ w.latest \in {view.latest, Outcome(w, gen)}
          /\ Outcome(w, gen) = Run(u, Outcome(view, gen), gen)
      <3>1. u.op # "evaluated"
        BY <2>3
      <3> QED BY <1>0, <2>3, <2>4, <3>1, OutcomePush
    <2>6. PICK out \in Lists(gen, moves, TRUE, editing) : out = Outcome(view, gen)
      <3>1. busy = TRUE
        BY <1>0, <2>1
      <3>2. Outcome(view, gen) \in Lists(gen, moves, busy, editing)
        BY <1>0, OutcomeLists
      <3> QED BY <3>1, <3>2
    <2>7. PICK next : next = Outcome(w, gen)
      OBVIOUS
    <2>8. next = Run(u, out, gen)
      BY <2>5, <2>6, <2>7
    <2>9. Amended(next, out, u, gen)
      BY <2>3, <2>6, <2>8, RunAmends
    <2>10. Flushing(w)
      BY <2>1, <2>3, <2>6, <2>7, <2>9 DEF Flushing
    <2> QED BY <1>1, <1>2, <2>5, <2>10
  <1> QED BY <1>3, <1>4

LEMMA FlushTidy ==
    ASSUME NEW w, Flushing(w), NEW out \in Seq(Message), out = Outcome(view, gen), Tidy(out, Open)
    PROVE  Tidy(Outcome(w, gen), Open)
  <1>1. CASE Outcome(w, gen) = out
    BY <1>1
  <1>2. CASE Outcome(w, gen) # out
    <2>1. Open
      BY <1>2 DEF Flushing, Open
    <2>2. PICK u \in Updates, m \in Message, a \in Message :
            /\ u.op = "append" /\ m = out[Len(out)]
            /\ Amends(Outcome(w, gen), out, a)
            /\ Becomes(a, m, AnsweredStatus(u, m), AnsweredText(u, m))
      BY <1>2 DEF Flushing, Amended
    <2>3. Pending(m) /\ FrontSettled(out)
      BY <2>1, <2>2 DEF Tidy
    <2>4. a.status = "streaming"
      BY <2>2, <2>3, FlushedText DEF Becomes
    <2>5. Pending(a)
      BY <2>4 DEF Pending
    <2>6. FrontSettled(Outcome(w, gen)) /\ Pending(Outcome(w, gen)[Len(Outcome(w, gen))])
      BY <2>2, <2>3, <2>5, AmendsSettled
    <2>7. Outcome(w, gen) # <<>>
      BY <2>2 DEF Amends
    <2> QED BY <2>1, <2>6, <2>7 DEF Tidy
  <1> QED BY <1>1, <1>2

LEMMA FlushWhole ==
    ASSUME NEW w, Flushing(w), EndedInv, Whole(Outcome(view, gen), ended)
    PROVE  Whole(Outcome(w, gen), ended)
  <1>1. CASE Outcome(w, gen) = Outcome(view, gen)
    BY <1>1
  <1>2. CASE Outcome(w, gen) # Outcome(view, gen)
    <2>1. Open
      BY <1>2 DEF Flushing, Open
    <2>2. PICK u \in Updates, m \in Message, a \in Message :
            /\ m.req = gen
            /\ Amends(Outcome(w, gen), Outcome(view, gen), a)
            /\ Becomes(a, m, AnsweredStatus(u, m), AnsweredText(u, m))
      BY <1>2 DEF Flushing, Amended
    <2>3. \A e \in ended : e[1] # a.req
      BY <2>1, <2>2 DEF EndedInv, Becomes
    <2> QED BY <2>2, <2>3, AmendsWhole
  <1> QED BY <1>1, <1>2

LEMMA FlushCounted ==
    ASSUME NEW w, Flushing(w), Tidy(Outcome(view, gen), Open), source = gen, gen # 0,
           buffer.gen = gen, buffer.chunks \in Seq(Signs), sent \in Sent,
           NEW out \in Seq(Message), out = Outcome(view, gen),
           Counted(out, buffer.chunks, sent), NEW next, next = Outcome(w, gen)
    PROVE  Counted(next, <<>>, sent)
  <1>0. Open
    BY DEF Open
  <1>1. CASE buffer.chunks = <<>> /\ next = out
    BY <1>1
  <1>2. CASE ~(buffer.chunks = <<>> /\ next = out)
    <2>1. PICK u \in Updates, m \in Message, a \in Message :
            /\ u.op = "append" /\ u.chunks = buffer.chunks /\ m = out[Len(out)]
            /\ Amends(next, out, a)
            /\ Becomes(a, m, AnsweredStatus(u, m), AnsweredText(u, m))
      BY <1>2 DEF Flushing, Amended
    <2>2. Pending(m)
      BY <1>0, <2>1 DEF Tidy
    <2>3. a.text = Joined(m.text, buffer.chunks) /\ a.req = m.req
      BY <2>1, <2>2, FlushedText DEF Becomes
    <2>4. next[Len(next)] = a
      BY <2>1 DEF Amends
    <2>5. Full(m.text, m.req, buffer.chunks, sent)
      BY <2>1 DEF Counted
    <2>6. Full(a.text, a.req, <<>>, sent)
      BY <2>3, <2>5, MessageFields, FullFlushed
    <2> QED BY <2>4, <2>6 DEF Counted
  <1> QED BY <1>1, <1>2

\* The end of the current request: what was gathered is flushed, which gives
\* w, and the answer is finished.
Concluding(w, op) ==
    /\ Flushing(w) /\ w.latest \in {view.latest, Outcome(w, gen)}
    /\ Outcome(w, gen) \in Lists(gen, moves, TRUE, editing)
    /\ Outcome(view', gen) \in Lists(gen, moves, TRUE, editing)
    /\ view'.shown = view.shown /\ view'.latest \in {w.latest, Outcome(view', gen)}
    /\ \E u \in Updates : u.op = op /\ Amended(Outcome(view', gen), Outcome(w, gen), u, gen)

LEMMA ConcludeOutcome ==
    ASSUME RequestInv, ViewInv, NEW g \in {source, fetching}, g # 0,
           NEW op \in {"finish", "fail", "answer"}, Conclude(g, op)
    PROVE  /\ g # gen => view' = view
           /\ g = gen => /\ \E w : Concluding(w, op)
                         /\ busy /\ Open /\ buffer' = DiscardPendingStreamUpdates(gen)
  <1>1. CASE g # gen
    BY <1>1 DEF Conclude
  <1>2. CASE g = gen
    <2>0. busy /\ loaded \in BOOLEAN /\ busy = TRUE /\ gen \in Gens
      BY <1>2, PlaygroundBounds DEF RequestInv, Links, Flags, Numbers, Gens
    <2>1. PICK e1 \in BOOLEAN, e2 \in BOOLEAN :
            view' = Push(Flushed(view, e1), ForLast(op, gen), gen, e2)
      BY <1>2 DEF Conclude
    <2>2. PICK w : w = Flushed(view, e1)
      OBVIOUS
    <2>3. /\ w.latest \in {view.latest, Outcome(w, gen)} /\ w.shown = view.shown
          /\ Flushing(w) /\ PageInv(w, gen, moves, busy, editing)
          /\ Outcome(w, gen) \in Lists(gen, moves, busy, editing)
      BY <2>2, FlushOutcome
    <2>4. PICK u \in Updates : u = ForLast(op, gen) /\ InFlight(u, gen) /\ u.op = op
      BY <2>0, ConcludeUpdate
    <2>5. w \in Views /\ u.op # "evaluated"
      BY <2>3, <2>4 DEF PageInv
    <2>6. PICK v : v = Push(w, u, gen, e2) /\ v = view'
      BY <2>1, <2>2, <2>4
    <2>7. /\ v.shown = w.shown /\ v.latest \in {w.latest, Outcome(v, gen)}
          /\ Outcome(v, gen) = Run(u, Outcome(w, gen), gen)
      <3>1. w \in Views /\ u \in Updates /\ loaded \in BOOLEAN /\ u.op # "evaluated"
        BY <2>0, <2>4, <2>5
      <3>2. v = Push(w, u, gen, e2)
        BY <2>6
      <3> QED BY <3>1, <3>2, OutcomePush
    <2>8. PICK out \in Lists(gen, moves, TRUE, editing) : out = Outcome(w, gen)
      BY <2>0, <2>3
    <2>9. PICK next : next = Outcome(v, gen)
      OBVIOUS
    <2>10. next = Run(u, out, gen)
      BY <2>7, <2>8, <2>9
    <2>11. Amended(next, out, u, gen) /\ next \in Lists(gen, moves, TRUE, editing)
      BY <2>4, <2>8, <2>10, RunAmends
    <2>12. Concluding(w, op)
      BY <2>3, <2>4, <2>6, <2>7, <2>8, <2>9, <2>11 DEF Concluding
    <2>13. buffer' = DiscardPendingStreamUpdates(gen)
      BY <1>2 DEF Conclude
    <2>14. Open
      BY <1>2 DEF Open
    <2> QED BY <1>2, <2>0, <2>12, <2>13, <2>14
  <1> QED BY <1>1, <1>2

-----------------------------------------------------------------------------
(* Nothing stays pending.                                                  *)

\* A click that left the list l on the screen.
LEMMA ClickTidied ==
    ASSUME ViewInv', NEW l, view' = View(l, <<>>, l, loaded),
           FrontSettled(stored'), Tidy(l, Open')
    PROVE  Tidied'
  <1>1. view'.shown = l /\ view'.latest = l /\ view'.queue = <<>>
    BY DEF View
  <1>2. view' \in Views
    BY DEF ViewInv, PageInv
  <1>3. Outcome(view', gen') = l
    BY <1>1, <1>2, OutcomeIdle
  <1>4. FrontSettled(l)
    BY DEF Tidy
  <1> QED BY <1>1, <1>3, <1>4 DEF Tidied

LEMMA RenderTidied ==
    ASSUME RequestInv, ViewInv, ViewInv', Render, Tidied
    PROVE  Tidied'
  <1>0. /\ loaded \in BOOLEAN /\ busy \in BOOLEAN /\ view \in Views
        /\ PageInv(view, gen, moves, busy, editing)
    BY DEF RequestInv, Flags, ViewInv, PageInv
  <1>1. /\ view'.queue = <<>> /\ view'.latest = view'.shown
        /\ view'.shown = Outcome(view, gen)
    BY <1>0, PageRendered, OutcomeIs DEF Render
  <1>2. view' \in Views /\ gen' = gen /\ stored' = stored
    BY DEF ViewInv, PageInv, Render
  <1>3. Outcome(view', gen') = view'.shown
    BY <1>1, <1>2, OutcomeIdle
  <1>4. Open' = Open
    BY DEF Open, Render
  <1>5. FrontSettled(Outcome(view, gen))
    BY DEF Tidied, Tidy
  <1> QED BY <1>1, <1>2, <1>3, <1>4, <1>5 DEF Tidied

LEMMA FlushTimerTidied ==
    ASSUME RequestInv, ViewInv, FlushTimer, Tidied
    PROVE  Tidied'
  <1>1. PICK e \in BOOLEAN : view' = Flushed(view, e)
    BY DEF FlushTimer
  <1>2. PICK w : w = view'
    OBVIOUS
  <1>3. w.shown = view.shown /\ w.latest \in {view.latest, Outcome(w, gen)} /\ Flushing(w)
    BY <1>1, <1>2, FlushOutcome
  <1>4. Outcome(view, gen) \in Seq(Message)
    BY OutcomeLists DEF RequestInv, Flags, ViewInv
  <1>5. Tidy(Outcome(w, gen), Open)
    BY <1>3, <1>4, FlushTidy DEF Tidied
  <1>6. gen' = gen /\ stored' = stored /\ Open' = Open
    BY DEF FlushTimer, Open
  <1>7. FrontSettled(Outcome(w, gen))
    BY <1>5 DEF Tidy
  <1> QED BY <1>2, <1>3, <1>5, <1>6, <1>7 DEF Tidied

\* A request that ends leaves a settled list.
LEMMA ConcludingSettled ==
    ASSUME RequestInv, ViewInv, Tidied, Open, NEW op \in {"finish", "fail", "answer"}, NEW w,
           Concluding(w, op)
    PROVE  /\ Settled(Outcome(view', gen)) /\ FrontSettled(Outcome(view', gen))
           /\ FrontSettled(view'.shown) /\ FrontSettled(view'.latest)
           /\ Tidy(Outcome(w, gen), Open)
  <1>1. Outcome(view, gen) \in Seq(Message)
    BY OutcomeLists DEF RequestInv, Flags, ViewInv
  <1>2. Tidy(Outcome(w, gen), Open)
    BY <1>1, FlushTidy DEF Tidied, Concluding
  <1>3. PICK out \in Seq(Message) : out = Outcome(w, gen)
    BY ListsTyped DEF Concluding
  <1>4. PICK next : next = Outcome(view', gen)
    OBVIOUS
  <1>5. PICK u \in Updates, m \in Message, a \in Message :
          /\ u.op = op /\ m = out[Len(out)]
          /\ Amends(next, out, a)
          /\ Becomes(a, m, AnsweredStatus(u, m), AnsweredText(u, m))
    BY <1>3, <1>4 DEF Concluding, Amended
  <1>6. Pending(m) /\ FrontSettled(out)
    BY <1>2, <1>3, <1>5 DEF Tidy
  <1>7. ~Pending(a)
    <2>1. m.status \notin {"complete", "error"}
      BY <1>6 DEF Pending
    <2>2. AnsweredStatus(u, m) \in {"complete", "error"}
      BY <1>5, <2>1 DEF AnsweredStatus, Final
    <2> QED BY <1>5, <2>2 DEF Becomes, Pending
  <1>8. Settled(next) /\ FrontSettled(next)
    BY <1>3, <1>5, <1>6, <1>7, AmendsSettled
  <1>9. FrontSettled(view'.shown)
    BY DEF Tidied, Concluding
  <1>10. FrontSettled(view'.latest)
    BY <1>3, <1>4, <1>6, <1>8 DEF Tidied, Concluding
  <1> QED BY <1>2, <1>4, <1>8, <1>9, <1>10

LEMMA ConcludedTidied ==
    ASSUME RequestInv, ViewInv, Tidied, NEW g \in {source, fetching}, g # 0,
           NEW op \in {"finish", "fail", "answer"}, Conclude(g, op),
           gen' = gen, stored' = stored,
           \/ g = source /\ source' = 0 /\ fetching' = fetching
           \/ g = fetching /\ fetching' = 0 /\ source' = source
    PROVE  Tidied'
  <1>1. CASE g # gen
    <2>1. view' = view
      BY <1>1, ConcludeOutcome
    <2>2. Open' = Open
      <3>1. Open' = (gen # 0 /\ (source' = gen \/ fetching' = gen))
        BY DEF Open
      <3>2. (gen # 0 /\ (source' = gen \/ fetching' = gen)) = Open
        BY <1>1 DEF Open
      <3> QED BY <3>1, <3>2
    <2> QED BY <2>1, <2>2 DEF Tidied
  <1>2. CASE g = gen
    <2>1. Open /\ \E w : Concluding(w, op)
      BY <1>2, ConcludeOutcome
    <2>2. PICK w : Concluding(w, op)
      BY <2>1
    <2>3. /\ Settled(Outcome(view', gen)) /\ FrontSettled(Outcome(view', gen))
          /\ FrontSettled(view'.shown) /\ FrontSettled(view'.latest)
      BY <2>1, <2>2, ConcludingSettled
    <2>4. ~Open'
      BY <1>2 DEF Open, RequestInv, Links
    <2> QED BY <2>3, <2>4 DEF Tidied, Tidy
  <1> QED BY <1>1, <1>2

\* What a question keeps of the list.
LEMMA FrontOf ==
    ASSUME RequestInv, ViewInv, NEW front, NEW l, Sends(front, l)
    PROVE  /\ l \in Seq(Message) /\ l # <<>> /\ Len(l) \in Nat
           /\ gen \in Nat /\ gen + 1 \in Gens /\ moves \in Nat
           /\ l[Len(l)] = LoadingMessage(2 * moves + 4, gen + 1)
           /\ l[Len(l)].role = "assistant" /\ l[Len(l)].req = gen + 1
           /\ l[Len(l)].status = "loading" /\ l[Len(l)].text = <<>>
           /\ \A i \in DOMAIN l : i # Len(l) =>
                \/ l[i].role = "user" /\ l[i].status = "none"
                \/ \E j \in DOMAIN view.shown :
                      l[i] = view.shown[j] /\ (busy => j # Len(view.shown))
  <1>0. gen \in Nat /\ moves \in Nat /\ gen + 1 \in Gens
    BY NextNumbers DEF RequestInv, Sends
  <1>1. /\ l \in Seq(Sane(gen + 1, moves + 1)) /\ l # <<>>
        /\ l[Len(l)] = LoadingMessage(2 * moves + 4, gen + 1)
        /\ \A i \in DOMAIN l : i # Len(l) => i \in DOMAIN front /\ l[i] = front[i]
    BY <1>0, AsksFields DEF Sends
  <1>2. l \in Seq(Message)
    BY <1>1, SaneLists
  <1>3. /\ l[Len(l)].role = "assistant" /\ l[Len(l)].req = gen + 1
        /\ l[Len(l)].status = "loading" /\ l[Len(l)].text = <<>>
    <2>1. PICK m : m = LoadingMessage(2 * moves + 4, gen + 1)
      OBVIOUS
    <2>2. m.role = "assistant" /\ m.req = gen + 1 /\ m.status = "loading" /\ m.text = <<>>
      BY <1>0, <2>1, NewMessages, ZenonT(20)
    <2>3. l[Len(l)] = m
      BY <1>1, <2>1, Zenon
    <2> QED BY <2>2, <2>3, Zenon
  <1>4. UserMessage(2 * moves + 3).role = "user" /\ UserMessage(2 * moves + 3).status = "none"
    BY <1>0, NewMessages
  <1>5. ASSUME NEW i \in DOMAIN l, i # Len(l)
        PROVE  \/ l[i].role = "user" /\ l[i].status = "none"
               \/ \E j \in DOMAIN view.shown :
                      l[i] = view.shown[j] /\ (busy => j # Len(view.shown))
    <2>1. i \in DOMAIN front /\ l[i] = front[i]
      BY <1>1, <1>5
    <2>2. \/ front[i] = UserMessage(2 * moves + 3)
          \/ \E j \in DOMAIN view.shown :
              front[i] = view.shown[j] /\ (busy => j # Len(view.shown))
      BY <2>1 DEF Sends, FromShown
    <2> QED BY <1>4, <2>1, <2>2
  <1>6. Len(l) \in Nat
    BY <1>2
  <1> QED BY <1>0, <1>1, <1>2, <1>3, <1>5, <1>6

\* The list after sendChat: without a client key the new answer failed at once.
LEMMA AskedAmends ==
    ASSUME NEW l \in Seq(Message), l # <<>>, ~hasKey
    PROVE  \E a \in Message : Amends(AskedList(l), l, a) /\ Becomes(a, l[Len(l)], "error", SomeText(l[Len(l)].req))
  <1>1. PICK m \in Message : m = l[Len(l)]
    OBVIOUS
  <1>2. PICK a : a = FailedMessage(m)
    OBVIOUS
  <1>3. Becomes(a, m, "error", SomeText(m.req))
    BY <1>2, FailedFields
  <1>4. a \in Message
    BY <1>3 DEF Becomes
  <1>5. AskedList(l) = WithLast(l, a)
    BY <1>1, <1>2 DEF AskedList
  <1>6. Amends(AskedList(l), l, a)
    BY <1>4, <1>5, WithLastIs DEF Amends
  <1> QED BY <1>1, <1>3, <1>4, <1>6

LEMMA SendsTidied ==
    ASSUME RequestInv, ViewInv, ViewInv', Tidied, NEW front, NEW l, Sends(front, l),
           view' = View(AskedList(l), <<>>, AskedList(l), loaded)
    PROVE  Tidied'
  <1>0. /\ l \in Seq(Message) /\ l # <<>> /\ Len(l) \in Nat /\ gen \in Nat
        /\ l[Len(l)].status = "loading"
        /\ \A i \in DOMAIN l : i # Len(l) =>
                \/ l[i].role = "user" /\ l[i].status = "none"
                \/ \E j \in DOMAIN view.shown :
                      l[i] = view.shown[j] /\ (busy => j # Len(view.shown))
    BY FrontOf
  <1>1. \A j \in DOMAIN view.shown : (busy => j # Len(view.shown)) => ~Pending(view.shown[j])
    <2> SUFFICES ASSUME NEW j \in DOMAIN view.shown, busy => j # Len(view.shown)
                 PROVE  ~Pending(view.shown[j])
      OBVIOUS
    <2>0. view.shown \in Seq(Message)
      BY ListsTyped DEF ViewInv, PageInv
    <2>1. CASE busy
      <3>1. j < Len(view.shown)
        BY <2>0, <2>1
      <3> QED BY <3>1 DEF Tidied, FrontSettled
    <2>2. CASE ~busy
      <3>1. view.shown # <<>>
        BY <2>0
      <3>2. Outcome(view, gen) = view.shown /\ ~Open
        BY <2>2, <3>1, OutcomeShown
      <3> QED BY <3>2 DEF Tidied, Tidy, Settled
    <2> QED BY <2>1, <2>2
  <1>2. FrontSettled(l)
    <2> SUFFICES ASSUME NEW i \in DOMAIN l, i < Len(l) PROVE ~Pending(l[i])
      BY DEF FrontSettled
    <2>1. i # Len(l)
      BY <1>0
    <2>2. CASE l[i].status = "none"
      BY <2>2 DEF Pending
    <2>3. CASE \E j \in DOMAIN view.shown : l[i] = view.shown[j] /\ (busy => j # Len(view.shown))
      BY <1>1, <2>3
    <2> QED BY <1>0, <2>1, <2>2, <2>3
  <1>3. stored' = stored /\ gen' = gen + 1
    BY DEF Sends, SendChat
  <1>4. CASE hasKey
    <2>1. Open'
      <3>1. source' = gen + 1 \/ fetching' = gen + 1
        BY <1>4 DEF Sends, SendChat
      <3>2. gen' # 0 /\ (source' = gen' \/ fetching' = gen')
        BY <1>0, <1>3, <3>1
      <3> QED BY <3>2 DEF Open
    <2>2. Pending(l[Len(l)])
      BY <1>0 DEF Pending
    <2>3. AskedList(l) = l
      BY <1>4 DEF AskedList
    <2>4. Tidy(l, Open')
      BY <1>0, <1>2, <2>1, <2>2 DEF Tidy
    <2> QED BY <1>3, <2>3, <2>4, ClickTidied DEF Tidied
  <1>5. CASE ~hasKey
    <2>1. ~Open'
      <3>1. source' = source /\ fetching' = fetching
        BY <1>5 DEF Sends, SendChat
      <3>2. source' # gen' /\ fetching' # gen'
        BY <1>0, <1>3, <3>1 DEF RequestInv, Numbers
      <3> QED BY <3>2 DEF Open
    <2>2. PICK a \in Message : Amends(AskedList(l), l, a) /\ a.status = "error"
      BY <1>0, <1>5, AskedAmends DEF Becomes
    <2>3. ~Pending(a)
      BY <2>2 DEF Pending
    <2>4. Settled(AskedList(l)) /\ FrontSettled(AskedList(l))
      BY <1>0, <1>2, <2>2, <2>3, AmendsSettled
    <2>5. Tidy(AskedList(l), Open')
      BY <2>1, <2>4 DEF Tidy
    <2> QED BY <1>3, <2>5, ClickTidied DEF Tidied
  <1> QED BY <1>4, <1>5

LEMMA SaveEditTidied ==
    ASSUME RequestInv, ViewInv, ViewInv', Tidied, SaveEdit, view.queue = <<>>
    PROVE  Tidied'
  <1>0. /\ gen \in Nat /\ view \in Views /\ view.shown \in Seq(Sane(gen, moves))
        /\ view.shown \in Seq(Message)
    BY ListsTyped DEF RequestInv, Numbers, ViewInv, PageInv
  <1>1. PICK i \in DOMAIN view.shown :
             /\ view' = View(RewrittenList(view.shown, i), <<>>, RewrittenList(view.shown, i), loaded)
             /\ UNCHANGED <<stored, gen, source, fetching>>
    BY SaveEditRenders
  <1>2. PICK r : r = RewrittenList(view.shown, i)
    OBVIOUS
  <1>3. /\ Len(r) = Len(view.shown) /\ DOMAIN r = DOMAIN view.shown /\ r \in Seq(Sane(gen, moves))
        /\ \A j \in DOMAIN view.shown : j # i => r[j] = view.shown[j]
        /\ r[i].status = view.shown[i].status
    BY <1>0, <1>2, RewrittenListIs
  <1>4. \A j \in DOMAIN r : Pending(r[j]) <=> Pending(view.shown[j])
    BY <1>3 DEF Pending
  <1>5. Tidy(view.shown, Open)
    BY <1>0, OutcomeIdle DEF Tidied
  <1>6. Open' = Open
    BY <1>1 DEF Open
  <1>7. FrontSettled(r) /\ (~Open => Settled(r))
    BY <1>3, <1>4, <1>5 DEF Tidy, FrontSettled, Settled
  <1>8. Open => r # <<>> /\ Pending(r[Len(r)])
    <2>1. r # <<>> /\ Len(r) \in DOMAIN r
      BY <1>0, <1>3
    <2> QED BY <1>3, <1>4, <1>5, <2>1 DEF Tidy
  <1>9. Tidy(r, Open')
    BY <1>6, <1>7, <1>8 DEF Tidy
  <1>10. FrontSettled(stored')
    BY <1>1 DEF Tidied
  <1>11. view' = View(r, <<>>, r, loaded)
    BY <1>1, <1>2
  <1> QED BY <1>9, <1>10, <1>11, ClickTidied

LEMMA DeleteTidied ==
    ASSUME RequestInv, ViewInv, ViewInv', Tidied, DeleteMessages
    PROVE  Tidied'
  <1>1. PICK l \in Seq(Sane(gen, moves)) :
             /\ view' = View(l, <<>>, l, loaded) /\ ~busy
             /\ UNCHANGED <<stored, gen, source, fetching>>
             /\ l = <<>> \/ \E k : l = RemoveMessageByKey(view.shown, k)
    BY DeleteRenders
  <1>2. view.shown # <<>> /\ view.shown \in Seq(Message)
    BY ListsTyped DEF ViewInv, PageInv, DeleteMessages
  <1>3. Settled(view.shown) /\ ~Open
    <2>1. Outcome(view, gen) = view.shown /\ ~Open
      BY <1>1, <1>2, OutcomeShown
    <2> QED BY <2>1 DEF Tidied, Tidy
  <1>4. Settled(l)
    <2> DEFINE M == {m \in Message : ~Pending(m)}
    <2>1. \A j \in 1 .. Len(view.shown) : view.shown[j] \in M
      BY <1>2, <1>3 DEF Settled
    <2>2. view.shown \in Seq(M)
      <3> HIDE DEF M
      <3> QED BY <1>2, <2>1
    <2>3. l \in Seq(M)
      <3> HIDE DEF M
      <3>1. <<>> \in Seq(M)
        BY EmptySeq
      <3> QED BY <1>1, <2>2, <3>1, RemovedIn
    <2>4. \A j \in DOMAIN l : l[j] \in M
      <3> HIDE DEF M
      <3> QED BY <2>3
    <2> QED BY <2>4 DEF Settled
  <1>5. ~Open'
    BY <1>1, <1>3 DEF Open
  <1>6. Tidy(l, Open')
    BY <1>4, <1>5 DEF Tidy, Settled, FrontSettled
  <1>7. FrontSettled(stored')
    BY <1>1 DEF Tidied
  <1> QED BY <1>1, <1>6, <1>7, ClickTidied

\* stopGeneration finishes the last answer, of request g.
Stops(r, l, g) == \E a \in Message : Amends(r, l, a) /\ ~Pending(a) /\ a.req = g

LEMMA StopAmends ==
    ASSUME NEW g, NEW k, NEW ed, NEW l \in Lists(g, k, TRUE, ed), NEW h \in Gens
    PROVE  Stops(StoppedList(l, h), l, g)
  <1>1. l \in Seq(Message) /\ l # <<>> /\ l[Len(l)].role = "assistant" /\ l[Len(l)].req = g
    BY ListsTyped DEF Lists, Answering
  <1>2. PICK m \in Message : m = l[Len(l)]
    BY <1>1
  <1>3. PICK u \in Updates : u = ForLast("stop", h) /\ u.op = "stop"
    BY StopUpdate
  <1>4. PICK a : a = Answered(u, m)
    OBVIOUS
  <1>5. Becomes(a, m, AnsweredStatus(u, m), AnsweredText(u, m))
    BY <1>4, AnsweredFields
  <1>6. a \in Message /\ a.req = g
    BY <1>1, <1>2, <1>5 DEF Becomes
  <1>7. StoppedList(l, h) = WithLast(l, a)
    BY <1>1, <1>2, <1>3, <1>4 DEF StoppedList
  <1>8. Amends(StoppedList(l, h), l, a)
    BY <1>1, <1>6, <1>7, WithLastIs DEF Amends
  <1>9. ~Pending(a)
    <2>1. AnsweredStatus(u, m) = IF Pending(m) THEN "complete" ELSE m.status
      BY <1>3 DEF AnsweredStatus
    <2> QED BY <1>5, <2>1 DEF Becomes, Pending
  <1> QED BY <1>6, <1>8, <1>9 DEF Stops

LEMMA StopTidied ==
    ASSUME RequestInv, ViewInv, ViewInv', Tidied, StopGeneration
    PROVE  Tidied'
  <1>0. gen \in Nat /\ gen + 1 \in Gens /\ busy = TRUE
    BY NextNumbers DEF RequestInv, Flags, StopGeneration
  <1>1. PICK e \in BOOLEAN, l \in Seq(Message) :
             /\ l = StoppedList(Flushed(view, e).latest, gen + 1)
             /\ view' = View(l, <<>>, l, loaded)
    BY StopLeaves
  <1>2. PICK w : w = Flushed(view, e)
    OBVIOUS
  <1>3. /\ w.latest \in {view.latest, Outcome(w, gen)} /\ Flushing(w)
        /\ PageInv(w, gen, moves, busy, editing)
    BY <1>2, FlushOutcome
  <1>4. Outcome(view, gen) \in Seq(Message)
    BY OutcomeLists DEF RequestInv, Flags, ViewInv
  <1>5. FrontSettled(Outcome(w, gen))
    <2>1. Tidy(Outcome(w, gen), Open)
      BY <1>3, <1>4, FlushTidy DEF Tidied
    <2> QED BY <2>1 DEF Tidy
  <1>6. PICK s \in Lists(gen, moves, TRUE, editing) : s = w.latest
    BY <1>0, <1>3 DEF PageInv
  <1>7. FrontSettled(s) /\ s \in Seq(Message)
    BY <1>3, <1>5, <1>6, ListsTyped DEF Tidied
  <1>8. PICK h \in Gens : h = gen + 1
    BY <1>0
  <1>9. PICK a \in Message : Amends(StoppedList(s, h), s, a) /\ ~Pending(a)
    <2>1. Stops(StoppedList(s, h), s, gen)
      BY <1>6, <1>8, StopAmends
    <2> QED BY <2>1 DEF Stops
  <1>10. l = StoppedList(s, h)
    BY <1>1, <1>2, <1>6, <1>8
  <1>11. Settled(l) /\ FrontSettled(l)
    BY <1>7, <1>9, <1>10, AmendsSettled
  <1>12. ~Open' /\ stored' = stored
    BY <1>0 DEF StopGeneration, Open
  <1>13. Tidy(l, Open')
    BY <1>11, <1>12 DEF Tidy
  <1> QED BY <1>1, <1>12, <1>13, ClickTidied DEF Tidied

\* The outcome of a load.
LEMMA OutcomeLoaded ==
    ASSUME NEW v \in Views, NEW g, NEW l, v.queue = <<Evaluated(l)>>
    PROVE  Outcome(v, g) = l
  <1>1. PICK f : f = [i \in 0 .. 1 |-> IF i = 0 THEN v.shown ELSE l]
    OBVIOUS
  <1>2. f[0] = v.shown /\ f[1] = l
    BY <1>1
  <1>3. PICK u : u = Evaluated(l)
    OBVIOUS
  <1>4. Len(v.queue) = 1 /\ v.queue[1] = u
    BY <1>3
  <1>5. Run(u, f[0], g) = l
    BY <1>3, RunEvaluated
  <1>6. ASSUME NEW i \in 1 .. 1 PROVE f[i] = Run(v.queue[i], f[i - 1], g)
    <2>1. i = 1 /\ i - 1 = 0
      OBVIOUS
    <2> QED BY <1>2, <1>4, <1>5, <2>1
  <1>7. Trace(f, v, g)
    BY <1>2, <1>4, <1>6 DEF Trace
  <1> QED BY <1>2, <1>4, <1>7, OutcomeUnique

LEMMA LoadTidied ==
    ASSUME RequestInv, ViewInv, Tidied, LoadMessages
    PROVE  Tidied'
  <1>1. PICK l \in Seq(Sane(gen, moves)) :
             /\ l = LoadedList(stored) /\ stored' = l /\ l \in Seq(Message)
             /\ view' = View(<<>>, <<Evaluated(l)>>, l, FALSE)
             /\ view' \in Views
    BY LoadLeaves
  <1>2. Settled(l)
    BY <1>1, LoadedSane DEF ViewInv, Tidied
  <1>3. view'.shown = <<>> /\ view'.queue = <<Evaluated(l)>> /\ view'.latest = l
    BY <1>1 DEF View
  <1>4. Outcome(view', gen) = l
    BY <1>1, <1>3, OutcomeLoaded
  <1>5. FrontSettled(l) /\ FrontSettled(<<>>)
    BY <1>2 DEF Settled, FrontSettled
  <1>6. gen' = gen /\ ~Open'
    <2>1. gen' = gen /\ source' = 0 /\ fetching' = 0
      BY NothingYet DEF LoadMessages
    <2> QED BY <2>1 DEF Open
  <1> QED BY <1>1, <1>2, <1>3, <1>4, <1>5, <1>6 DEF Tidied, Tidy

\* Saving leaves the outcome alone.
LEMMA SaveOutcome ==
    ASSUME RequestInv, ViewInv, SavedInv, SaveMessages
    PROVE  /\ view'.shown = view.shown /\ view'.latest = view.latest
           /\ Outcome(view', gen) = Outcome(view, gen)
  <1>1. view' = View(view.shown, view.queue, view.latest, FALSE)
    BY SavePage
  <1>2. view'.shown = view.shown /\ view'.latest = view.latest /\ view'.queue = view.queue
    BY <1>1 DEF View
  <1> QED BY <1>2, OutcomeSame

LEMMA SaveTidied ==
    ASSUME RequestInv, ViewInv, SavedInv, Tidied, SaveMessages
    PROVE  Tidied'
  <1>1. /\ view'.shown = view.shown /\ view'.latest = view.latest
        /\ Outcome(view', gen) = Outcome(view, gen)
    BY SaveOutcome
  <1>2. gen' = gen /\ stored' = view.latest /\ Open' = Open
    BY DEF SaveMessages, Open
  <1> QED BY <1>1, <1>2 DEF Tidied

\* The outcome of a new visit is empty.
LEMMA VisitOutcome ==
    ASSUME ViewInv', Visit
    PROVE  /\ view'.shown = <<>> /\ view'.latest = <<>> /\ Outcome(view', gen') = <<>>
           /\ ~Open' /\ source' = 0
  <1>1. view'.shown = <<>> /\ view'.latest = <<>> /\ view'.queue = <<>>
    BY DEF Visit, Blank
  <1>2. view' \in Views
    BY DEF ViewInv, PageInv
  <1>3. Outcome(view', gen') = <<>>
    BY <1>1, <1>2, OutcomeIdle
  <1>4. ~Open' /\ source' = 0
    BY DEF Visit, Open
  <1> QED BY <1>1, <1>3, <1>4

LEMMA VisitTidied ==
    ASSUME ViewInv', Tidied, Visit, stored' \in {stored, view.latest}
    PROVE  Tidied'
  <1>1. /\ view'.shown = <<>> /\ view'.latest = <<>> /\ Outcome(view', gen') = <<>>
        /\ ~Open'
    BY VisitOutcome
  <1>2. Settled(<<>>) /\ FrontSettled(<<>>)
    BY DEF Settled, FrontSettled
  <1>3. FrontSettled(stored')
    BY DEF Tidied
  <1> QED BY <1>1, <1>2, <1>3 DEF Tidied, Tidy

LEMMA InitSettled == Init => SettledInv
  <1> SUFFICES ASSUME Init PROVE Tidied
    BY DEF SettledInv
  <1>0. view \in Views
    BY InitPage DEF ViewInv, PageInv
  <1>1. /\ view.shown = <<>> /\ view.latest = <<>> /\ view.queue = <<>>
        /\ gen = 0 /\ stored = <<UserMessage(1), LoadingMessage(2, 0)>>
    BY DEF Init, Blank
  <1>2. Outcome(view, gen) = <<>>
    BY <1>0, <1>1, OutcomeIdle
  <1>3. FrontSettled(stored)
    <2>1. PICK x, y : x = UserMessage(1) /\ y = LoadingMessage(2, 0)
      OBVIOUS
    <2>2. stored = <<x, y>> /\ x.status = "none"
      BY <1>1, <2>1 DEF UserMessage
    <2>3. DOMAIN stored = {1, 2} /\ Len(stored) = 2 /\ stored[1] = x
      BY <2>2
    <2>4. ~Pending(x)
      BY <2>2 DEF Pending
    <2> QED BY <2>3, <2>4 DEF FrontSettled
  <1>4. ~Open
    BY <1>1 DEF Open
  <1>5. Settled(<<>>) /\ FrontSettled(<<>>)
    BY DEF Settled, FrontSettled
  <1> QED BY <1>1, <1>2, <1>3, <1>4, <1>5 DEF Tidied, Tidy

\* A stale edit is never forgotten.
LEMMA StaysClobbered ==
    ASSUME [Next]_vars, Unclobbered'
    PROVE  Unclobbered
  <1>1. CASE \/ Render \/ FlushTimer \/ StreamDelta \/ StreamDone \/ StreamError \/ FetchAnswer
             \/ DeleteMessages \/ KeyRevoked \/ ChooseKey \/ LoadMessages \/ SaveMessages
             \/ UNCHANGED vars
    <2>1. mishaps' = mishaps
      BY <1>1 DEF Render, FlushTimer, StreamDelta, StreamDone, StreamError, FetchAnswer,
                  DeleteMessages, KeyRevoked, ChooseKey, LoadMessages, SaveMessages, vars
    <2> QED BY <2>1 DEF Unclobbered
  <1>2. CASE StreamCut \/ SaveEdit \/ StopGeneration \/ LeavePage \/ ReloadPage
    BY <1>2 DEF StreamCut, SaveEdit, StopGeneration, LeavePage, ReloadPage, Visit, Unclobbered
  <1>3. ASSUME NEW l, SendChat(l) PROVE Unclobbered
    BY <1>3 DEF SendChat, Unclobbered
  <1>4. CASE SendMessage \/ SaveEditAndSubmit
    BY <1>3, <1>4 DEF SendMessage, SaveEditAndSubmit
  <1>5. ASSUME NEW i \in DOMAIN view.shown, RegenerateMessage(i) \/ EditMessage(i)
        PROVE  Unclobbered
    <2>1. CASE RegenerateMessage(i)
      BY <1>3, <2>1 DEF RegenerateMessage
    <2>2. CASE EditMessage(i)
      BY <2>2 DEF EditMessage, Unclobbered
    <2> QED BY <1>5, <2>1, <2>2
  <1> QED BY <1>1, <1>2, <1>4, <1>5 DEF Next

LEMMA SettledSteps ==
    ASSUME BaseInv, BaseInv', SettledInv, [Next]_vars
    PROVE  SettledInv'
  <1> SUFFICES ASSUME Unclobbered' PROVE Tidied'
    BY DEF SettledInv
  <1>a. Tidied
    BY StaysClobbered DEF SettledInv
  <1>b. RequestInv /\ ViewInv /\ SavedInv /\ RequestInv' /\ ViewInv' /\ SavedInv'
    BY DEF BaseInv
  <1>1. CASE Render
    BY <1>1, <1>a, <1>b, RenderTidied
  <1>2. CASE FlushTimer
    BY <1>2, <1>a, <1>b, FlushTimerTidied
  <1>3. CASE StreamDelta \/ StreamCut \/ KeyRevoked \/ ChooseKey \/ UNCHANGED vars
    <2>1. UNCHANGED <<view, stored, gen, source, fetching>>
      BY <1>3 DEF StreamDelta, StreamCut, KeyRevoked, ChooseKey, vars
    <2>2. Open' = Open
      BY <2>1 DEF Open
    <2> QED BY <1>a, <2>1, <2>2 DEF Tidied
  <1>4. CASE StreamDone
    <2>1. /\ source # 0 /\ Conclude(source, "finish")
          /\ gen' = gen /\ stored' = stored /\ source' = 0 /\ fetching' = fetching
      BY <1>4 DEF StreamDone
    <2> QED BY <1>a, <1>b, <2>1, ConcludedTidied
  <1>5. CASE StreamError
    <2>1. /\ source # 0 /\ Conclude(source, "fail")
          /\ gen' = gen /\ stored' = stored /\ source' = 0 /\ fetching' = fetching
      BY <1>5 DEF StreamError
    <2> QED BY <1>a, <1>b, <2>1, ConcludedTidied
  <1>6. CASE FetchAnswer
    <2>1. /\ fetching # 0
          /\ gen' = gen /\ stored' = stored /\ fetching' = 0 /\ source' = source
      BY <1>6 DEF FetchAnswer
    <2>2. PICK op \in {"answer", "fail"} : Conclude(fetching, op)
      BY <1>6 DEF FetchAnswer
    <2> QED BY <1>a, <1>b, <2>1, <2>2, ConcludedTidied
  <1>7. CASE SendMessage \/ SaveEditAndSubmit \/ \E i \in DOMAIN view.shown : RegenerateMessage(i)
    <2>1. PICK front, l : Sends(front, l)
      BY <1>7, <1>b, Sending
    <2>2. view' = View(AskedList(l), <<>>, AskedList(l), loaded)
      BY <1>b, <2>1, SendsPage
    <2> QED BY <1>a, <1>b, <2>1, <2>2, SendsTidied
  <1>8. CASE SaveEdit
    <2>1. view.queue = <<>>
      BY <1>8 DEF SaveEdit, Unclobbered
    <2> QED BY <1>8, <1>a, <1>b, <2>1, SaveEditTidied
  <1>9. CASE DeleteMessages
    BY <1>9, <1>a, <1>b, DeleteTidied
  <1>10. CASE StopGeneration
    BY <1>10, <1>a, <1>b, StopTidied
  <1>11. CASE LoadMessages
    BY <1>11, <1>a, <1>b, LoadTidied
  <1>12. CASE SaveMessages
    BY <1>12, <1>a, <1>b, SaveTidied
  <1>13. CASE LeavePage \/ ReloadPage
    <2>1. Visit /\ stored' \in {stored, view.latest}
      BY <1>13 DEF LeavePage, ReloadPage
    <2> QED BY <1>a, <1>b, <2>1, VisitTidied
  <1>14. ASSUME NEW i \in DOMAIN view.shown, EditMessage(i) PROVE Tidied'
    <2>1. UNCHANGED <<view, stored, gen, source, fetching>>
      BY <1>14 DEF EditMessage
    <2>2. Open' = Open
      BY <2>1 DEF Open
    <2> QED BY <1>a, <2>1, <2>2 DEF Tidied
  <1> QED BY <1>1, <1>2, <1>3, <1>4, <1>5, <1>6, <1>7, <1>8, <1>9, <1>10, <1>11, <1>12, <1>13,
             <1>14 DEF Next

LEMMA SettledHolds == Spec => []SettledInv
  <1>1. BaseInv /\ BaseInv' /\ SettledInv /\ [Next]_vars => SettledInv'
    BY SettledSteps
  <1> QED BY <1>1, InitSettled, BaseHolds, PTL DEF Spec

\* When nothing is generated and everything is rendered, nothing is shown as
\* loading or streaming: every end of a request finishes its answer, also when
\* its flush was still pending, and sanitizeMessagesOnLoad repairs the one
\* answer that a reload can have interrupted.
THEOREM IdlePageSettles == Spec => []IdleIsSettled
  <1>1. BaseInv /\ SettledInv => IdleIsSettled
    <2> SUFFICES ASSUME BaseInv, SettledInv, Unclobbered, view.queue = <<>>,
                        ~streaming, ~requesting
                 PROVE  Settled(view.shown)
      BY DEF IdleIsSettled, Unclobbered, Settled
    <2>1. ~Open
      BY DEF BaseInv, RequestInv, Links, Open
    <2>2. Outcome(view, gen) = view.shown
      BY OutcomeIdle DEF BaseInv, ViewInv, PageInv
    <2> QED BY <2>1, <2>2 DEF SettledInv, Tidied, Tidy
  <1> QED BY <1>1, BaseHolds, SettledHolds, PTL

-----------------------------------------------------------------------------
(* A finished answer is whole.                                             *)

LEMMA EndedSteps ==
    ASSUME BaseInv, EndedInv, [Next]_vars
    PROVE  EndedInv'
  <1>0. gen \in Nat /\ source \in Nat /\ fetching \in Nat /\ source <= gen /\ fetching <= gen
    BY DEF BaseInv, RequestInv, Numbers
  <1>1. ASSUME gen' = gen, ended' = ended, Open' => Open PROVE EndedInv'
    BY <1>1 DEF EndedInv
  <1>2. ASSUME gen' = gen + 1, ended' \subseteq ended PROVE EndedInv'
    <2> SUFFICES ASSUME NEW e \in ended' PROVE e[1] \in 1 .. gen' /\ e[1] # gen'
      BY DEF EndedInv
    <2>1. e[1] \in 1 .. gen
      BY <1>2 DEF EndedInv
    <2> QED BY <1>0, <1>2, <2>1
  <1>3. CASE \/ Render \/ FlushTimer \/ StreamDelta \/ StreamCut \/ SaveEdit \/ DeleteMessages
             \/ KeyRevoked \/ ChooseKey \/ LoadMessages \/ SaveMessages \/ UNCHANGED vars
    <2>1. UNCHANGED <<gen, ended, source, fetching>>
      BY <1>3 DEF Render, FlushTimer, StreamDelta, StreamCut, SaveEdit, DeleteMessages,
                  KeyRevoked, ChooseKey, LoadMessages, SaveMessages, vars
    <2> QED BY <1>1, <2>1 DEF Open
  <1>4. CASE StreamError \/ FetchAnswer
    <2>1. /\ gen' = gen /\ ended' = ended /\ source' \in {0, source} /\ fetching' \in {0, fetching}
      BY <1>4 DEF StreamError, FetchAnswer
    <2> QED BY <1>1, <2>1 DEF Open
  <1>5. CASE StreamDone
    <2>1. /\ gen' = gen /\ source # 0 /\ source' = 0 /\ fetching' = fetching
          /\ ended' = IF source = gen THEN ended \cup {<<gen, sent>>} ELSE ended
      BY <1>5 DEF StreamDone
    <2>2. fetching' = 0
      BY <2>1 DEF BaseInv, RequestInv, Links
    <2>3. ~Open'
      BY <2>1, <2>2 DEF Open
    <2>4. CASE source # gen
      BY <1>1, <2>1, <2>3, <2>4
    <2>5. CASE source = gen
      <3> SUFFICES ASSUME NEW e \in ended' PROVE e[1] \in 1 .. gen
        BY <2>1, <2>3 DEF EndedInv
      <3>1. CASE e \in ended
        BY <3>1 DEF EndedInv
      <3>2. CASE e = <<gen, sent>>
        BY <1>0, <2>1, <2>5, <3>2
      <3> QED BY <2>1, <2>5, <3>1, <3>2
    <2> QED BY <2>4, <2>5
  <1>6. CASE SendMessage \/ SaveEditAndSubmit
    BY <1>2, <1>6 DEF SendMessage, SaveEditAndSubmit, SendChat
  <1>7. CASE StopGeneration \/ LeavePage \/ ReloadPage
    BY <1>2, <1>7 DEF StopGeneration, LeavePage, ReloadPage, Visit
  <1>8. ASSUME NEW i \in DOMAIN view.shown, RegenerateMessage(i) \/ EditMessage(i)
        PROVE  EndedInv'
    <2>1. CASE RegenerateMessage(i)
      BY <1>2, <2>1 DEF RegenerateMessage, SendChat
    <2>2. CASE EditMessage(i)
      <3>1. UNCHANGED <<gen, ended, source, fetching>>
        BY <2>2 DEF EditMessage
      <3> QED BY <1>1, <3>1 DEF Open
    <2> QED BY <1>8, <2>1, <2>2
  <1> QED BY <1>3, <1>4, <1>5, <1>6, <1>7, <1>8 DEF Next

\* A click that left the list l on the screen.
LEMMA ClickWhole ==
    ASSUME ViewInv', NEW l, view' = View(l, <<>>, l, loaded), loaded',
           Whole(l, ended'),
           source' = gen' /\ gen' # 0 => buffer'.gen = gen' /\ Counted(l, buffer'.chunks, sent')
    PROVE  AllWhole'
  <1>1. view'.shown = l /\ view'.latest = l /\ view'.queue = <<>>
    BY DEF View
  <1>2. view' \in Views
    BY DEF ViewInv, PageInv
  <1>3. Outcome(view', gen') = l
    BY <1>1, <1>2, OutcomeIdle
  <1>4. Whole(l, Before(gen)')
    BY DEF Whole, Before
  <1> QED BY <1>1, <1>3, <1>4 DEF AllWhole

LEMMA RenderWhole ==
    ASSUME RequestInv, ViewInv, ViewInv', Render, AllWhole
    PROVE  AllWhole'
  <1>0. /\ loaded \in BOOLEAN /\ busy \in BOOLEAN /\ view \in Views
        /\ PageInv(view, gen, moves, busy, editing)
    BY DEF RequestInv, Flags, ViewInv, PageInv
  <1>1. /\ view'.queue = <<>> /\ view'.latest = view'.shown
        /\ view'.shown = Outcome(view, gen)
    BY <1>0, PageRendered, OutcomeIs DEF Render
  <1>2. view' \in Views /\ UNCHANGED <<gen, stored, loaded, source, buffer, sent, ended>>
    BY DEF ViewInv, PageInv, Render
  <1>3. Outcome(view', gen') = view'.shown
    BY <1>1, <1>2, OutcomeIdle
  <1>4. Whole(Outcome(view, gen), Before(gen)) /\ Before(gen)' = Before(gen)
    BY <1>2 DEF AllWhole, Whole, Before
  <1> QED BY <1>1, <1>2, <1>3, <1>4 DEF AllWhole

LEMMA FlushTimerWhole ==
    ASSUME RequestInv, ViewInv, FlushTimer, Tidied, EndedInv, AllWhole
    PROVE  AllWhole'
  <1>1. PICK e \in BOOLEAN : view' = Flushed(view, e)
    BY DEF FlushTimer
  <1>2. PICK w : w = view'
    OBVIOUS
  <1>3. w.shown = view.shown /\ w.latest \in {view.latest, Outcome(w, gen)} /\ Flushing(w)
    BY <1>1, <1>2, FlushOutcome
  <1>4. PICK out \in Seq(Message) : out = Outcome(view, gen)
    BY OutcomeLists DEF RequestInv, Flags, ViewInv
  <1>5. Whole(Outcome(w, gen), ended)
    BY <1>3, FlushWhole DEF AllWhole
  <1>6. UNCHANGED <<gen, stored, loaded, source, sent, ended>>
    BY DEF FlushTimer
  <1>7. Whole(Outcome(w, gen), Before(gen)) /\ Before(gen)' = Before(gen)
    BY <1>5, <1>6 DEF Whole, Before
  <1>8. buffer'.gen = gen /\ buffer'.chunks = <<>>
    BY DEF FlushTimer, DiscardPendingStreamUpdates
  <1>9. ASSUME source = gen, gen # 0 PROVE Counted(Outcome(w, gen), buffer'.chunks, sent)
    <2>1. PICK next : next = Outcome(w, gen)
      OBVIOUS
    <2>2. buffer.chunks \in Seq(Signs) /\ sent \in Sent
      BY DEF RequestInv, BufferOK, Numbers
    <2>3. buffer.gen = gen /\ Counted(out, buffer.chunks, sent)
      BY <1>4, <1>9 DEF AllWhole
    <2>4. Counted(next, <<>>, sent)
      BY <1>3, <1>4, <1>9, <2>1, <2>2, <2>3, FlushCounted DEF Tidied
    <2> QED BY <1>8, <2>1, <2>4
  <1> QED BY <1>2, <1>3, <1>5, <1>6, <1>7, <1>8, <1>9 DEF AllWhole

\* A piece arrives.
LEMMA StreamDeltaWhole ==
    ASSUME RequestInv, ViewInv, StreamDelta, Tidied, AllWhole
    PROVE  AllWhole'
  <1>1. UNCHANGED <<view, gen, stored, loaded, source, ended>> /\ source # 0
    BY DEF StreamDelta
  <1>2. ASSUME source = gen, gen # 0
        PROVE  buffer'.gen = gen /\ Counted(Outcome(view, gen), buffer'.chunks, sent')
    <2>1. buffer.gen = gen /\ Counted(Outcome(view, gen), buffer.chunks, sent)
      BY <1>2 DEF AllWhole
    <2>2. PICK w \in Seq(Letters) :
            /\ sent' = [words |-> Append(sent.words, w), signs |-> sent.signs + Len(w)]
            /\ buffer' = [buffer EXCEPT !.chunks = Joined(@, Piece(gen, w))]
      BY <1>2, <2>1, DeltaSends DEF RequestInv
    <2>3. /\ buffer \in [gen : Gens, chunks : Seq(Signs)] /\ gen \in Gens
          /\ sent \in Sent /\ buffer.chunks \in Seq(Signs)
      BY PlaygroundBounds DEF RequestInv, BufferOK, Numbers, Gens
    <2>4. buffer'.gen = gen /\ buffer'.chunks = Joined(buffer.chunks, Piece(gen, w))
      BY <2>1, <2>2, <2>3
    <2>5. PICK out \in Seq(Message) : out = Outcome(view, gen)
      BY OutcomeLists DEF RequestInv, Flags, ViewInv
    <2>6. out # <<>> /\ out[Len(out)].req = gen
      <3>1. busy /\ busy \in BOOLEAN
        BY <1>2 DEF RequestInv, Links, Flags
      <3>2. out \in Lists(gen, moves, busy, editing)
        BY <2>5, OutcomeLists DEF RequestInv, Flags, ViewInv
      <3> QED BY <3>1, <3>2 DEF Lists, Answering
    <2>7. PICK m \in Message : m = out[Len(out)]
      BY <2>5, <2>6
    <2>8. Full(m.text, gen, buffer.chunks, sent)
      BY <2>1, <2>5, <2>6, <2>7 DEF Counted
    <2>9. Full(m.text, gen, Joined(buffer.chunks, Piece(gen, w)), sent')
      BY <2>2, <2>3, <2>8, MessageFields, FullGrows
    <2> QED BY <2>4, <2>5, <2>6, <2>7, <2>9 DEF Counted
  <1> QED BY <1>1, <1>2 DEF AllWhole, Before

\* The end of a request, by [DONE], by an error or by the answer of a fetch.
LEMMA ConcludedWhole ==
    ASSUME RequestInv, ViewInv, Tidied, EndedInv, AllWhole, NEW g \in {source, fetching}, g # 0,
           NEW op \in {"finish", "fail", "answer"}, Conclude(g, op),
           UNCHANGED <<gen, stored, loaded>>, source' = 0,
           \/ ended' = ended
           \/ op = "finish" /\ source = gen /\ g = gen /\ ended' = ended \cup {<<gen, sent>>}
    PROVE  AllWhole'
  <1>0. loaded /\ ~(source' = gen' /\ gen' # 0)
    BY NothingYet
  <1>1. CASE g # gen
    <2>1. view' = view /\ ended' = ended
      BY <1>1, ConcludeOutcome
    <2> QED BY <1>0, <2>1 DEF AllWhole, Before
  <1>2. CASE g = gen
    <2>0. Open /\ \E w : Concluding(w, op)
      BY <1>2, ConcludeOutcome
    <2>1. PICK w : Concluding(w, op)
      BY <2>0
    <2>2. Flushing(w) /\ Whole(Outcome(w, gen), ended)
      BY <2>1, FlushWhole DEF Concluding, AllWhole
    <2>3. PICK out \in Lists(gen, moves, TRUE, editing), next \in Lists(gen, moves, TRUE, editing) :
            out = Outcome(w, gen) /\ next = Outcome(view', gen)
      BY <2>1 DEF Concluding
    <2>4. PICK u \in Updates, m \in Message, a \in Message :
            /\ u.op = op /\ m = out[Len(out)] /\ m.req = gen
            /\ Amends(next, out, a)
            /\ Becomes(a, m, AnsweredStatus(u, m), AnsweredText(u, m))
      BY <2>1, <2>3 DEF Concluding, Amended
    <2>5. a.req = gen
      BY <2>4 DEF Becomes
    <2>6. Whole(next, ended)
      <3>1. \A e \in ended : e[1] # a.req
        BY <2>0, <2>5 DEF EndedInv
      <3> QED BY <2>2, <2>3, <2>4, <3>1, AmendsWhole
    <2>7. Whole(next, ended')
      <3>1. CASE ended' = ended
        BY <2>6, <3>1
      <3>2. CASE op = "finish" /\ source = gen /\ ended' = ended \cup {<<gen, sent>>}
        <4>1. Tidy(out, Open)
          BY <2>0, <2>1, <2>3, ConcludingSettled
        <4>2. Pending(m)
          BY <2>0, <2>4, <4>1 DEF Tidy
        <4>3. a.status = "complete" /\ a.text = m.text
          <5>1. AnsweredStatus(u, m) = "complete" /\ AnsweredText(u, m) = m.text
            BY <2>4, <3>2, <4>2 DEF AnsweredStatus, AnsweredText, Final, Pending
          <5> QED BY <2>4, <5>1 DEF Becomes
        <4>4. Counted(out, <<>>, sent)
          <5>1. PICK o \in Seq(Message) : o = Outcome(view, gen)
            BY OutcomeLists DEF RequestInv, Flags, ViewInv
          <5>2. buffer.chunks \in Seq(Signs) /\ sent \in Sent
            BY DEF RequestInv, BufferOK, Numbers
          <5>3. gen # 0 /\ source = gen
            BY <1>2, <3>2
          <5>4. buffer.gen = gen /\ Counted(o, buffer.chunks, sent)
            BY <5>1, <5>3 DEF AllWhole
          <5>5. Tidy(Outcome(view, gen), Open)
            BY DEF Tidied
          <5> QED BY <2>2, <2>3, <5>1, <5>2, <5>3, <5>4, <5>5, FlushCounted
        <4>5. Full(a.text, a.req, <<>>, sent)
          BY <2>4, <2>5, <4>3, <4>4 DEF Counted
        <4>6. \A i \in DOMAIN next : next[i].req = gen => next[i] = a
          <5> SUFFICES ASSUME NEW i \in DOMAIN next, next[i].req = gen PROVE i = Len(next)
            BY <2>4 DEF Amends
          <5>1. \A j \in DOMAIN next : j # Len(next) => next[j].req < gen
            BY <2>3 DEF Lists, Answering
          <5>2. gen \in Nat
            BY DEF RequestInv, Numbers
          <5> QED BY <5>1, <5>2
        <4> SUFFICES ASSUME NEW i \in DOMAIN next, NEW e \in ended',
                            next[i].role = "assistant", next[i].req = e[1]
                     PROVE  next[i].status = "complete" /\ Full(next[i].text, next[i].req, <<>>, e[2])
          BY DEF Whole
        <4>7. CASE e \in ended
          BY <2>6, <4>7 DEF Whole
        <4>8. CASE e = <<gen, sent>>
          <5>1. e[1] = gen /\ e[2] = sent
            BY <4>8
          <5> QED BY <4>3, <4>5, <4>6, <5>1
        <4> QED BY <3>2, <4>7, <4>8
      <3> QED BY <3>1, <3>2
    <2>8. Before(gen)' = Before(gen)
      <3>1. gen \in Nat
        BY DEF RequestInv, Numbers
      <3>2. ~(gen < gen)
        BY <3>1
      <3>3. \A e : e \in Before(gen)' <=> e \in Before(gen)
        <4>1. Before(gen)' = {e \in ended' : e[1] < gen}
          BY DEF Before
        <4>2. \A e \in ended' : e \in ended \/ e[1] = gen
          OBVIOUS
        <4>3. ended \subseteq ended'
          OBVIOUS
        <4> QED BY <3>2, <4>1, <4>2, <4>3 DEF Before
      <3> QED BY <3>3
    <2>9. Whole(view'.shown, Before(gen)) /\ Whole(view'.latest, Before(gen))
      <3>1. Whole(next, Before(gen)) /\ Whole(out, Before(gen))
        BY <2>2, <2>3, <2>6 DEF Whole, Before
      <3> QED BY <2>1, <2>3, <3>1 DEF Concluding, AllWhole
    <2> QED BY <1>0, <2>3, <2>7, <2>8, <2>9 DEF AllWhole
  <1> QED BY <1>1, <1>2

LEMMA SendsWhole ==
    ASSUME RequestInv, ViewInv, ViewInv', EndedInv, AllWhole, NEW front, NEW l, Sends(front, l),
           view' = View(AskedList(l), <<>>, AskedList(l), loaded)
    PROVE  AllWhole'
  <1>0. /\ l \in Seq(Message) /\ l # <<>> /\ Len(l) \in Nat /\ gen \in Nat
        /\ l[Len(l)].req = gen + 1 /\ l[Len(l)].text = <<>>
        /\ \A i \in DOMAIN l : i # Len(l) =>
                \/ l[i].role = "user" /\ l[i].status = "none"
                \/ \E j \in DOMAIN view.shown :
                      l[i] = view.shown[j] /\ (busy => j # Len(view.shown))
    BY FrontOf
  <1>1. \A e \in ended : e[1] \in Nat /\ e[1] <= gen /\ e[1] # gen + 1
    BY <1>0 DEF EndedInv
  <1>2. ASSUME NEW j \in DOMAIN view.shown, busy => j # Len(view.shown), NEW e \in ended,
               view.shown[j].role = "assistant", view.shown[j].req = e[1]
        PROVE  view.shown[j].status = "complete" /\ Full(view.shown[j].text, view.shown[j].req, <<>>, e[2])
    <2>0. view.shown \in Seq(Message)
      BY ListsTyped DEF ViewInv, PageInv
    <2>1. CASE busy
      <3>1. view.shown[j].req < gen
        BY <1>2, <2>1 DEF ViewInv, PageInv, Lists, Answering
      <3>2. e \in Before(gen)
        BY <1>2, <3>1 DEF Before
      <3> QED BY <1>2, <3>2 DEF AllWhole, Whole
    <2>2. CASE ~busy
      <3>1. view.shown # <<>>
        BY <2>0
      <3>2. Outcome(view, gen) = view.shown
        BY <2>2, <3>1, OutcomeShown
      <3> QED BY <1>2, <3>2 DEF AllWhole, Whole
    <2> QED BY <2>1, <2>2
  <1>3. Whole(l, ended)
    <2> SUFFICES ASSUME NEW i \in DOMAIN l, NEW e \in ended,
                        l[i].role = "assistant", l[i].req = e[1]
                 PROVE  l[i].status = "complete" /\ Full(l[i].text, l[i].req, <<>>, e[2])
      BY DEF Whole
    <2>1. i # Len(l)
      BY <1>0, <1>1
    <2>2. l[i].role # "user"
      OBVIOUS
    <2>3. PICK j \in DOMAIN view.shown : l[i] = view.shown[j] /\ (busy => j # Len(view.shown))
      BY <1>0, <2>1, <2>2
    <2> QED BY <1>2, <2>3
  <1>4. loaded' /\ ended' = ended /\ gen' = gen + 1
    BY DEF Sends, SendChat
  <1>5. CASE hasKey
    <2>1. buffer' = DiscardPendingStreamUpdates(gen + 1) /\ sent' = NothingSent
      BY <1>5 DEF Sends, SendChat
    <2>2. buffer'.gen = gen' /\ buffer'.chunks = <<>>
      BY <1>4, <2>1 DEF DiscardPendingStreamUpdates
    <2>3. Counted(l, buffer'.chunks, sent')
      BY <1>0, <2>1, <2>2 DEF Counted, Full, NothingSent
    <2>4. AskedList(l) = l
      BY <1>5 DEF AskedList
    <2> QED BY <1>3, <1>4, <2>2, <2>3, <2>4, ClickWhole
  <1>6. CASE ~hasKey
    <2>1. source' = source
      BY <1>6 DEF Sends, SendChat
    <2>2. source' # gen'
      BY <1>0, <1>4, <2>1 DEF RequestInv, Numbers
    <2>3. PICK a \in Message : Amends(AskedList(l), l, a) /\ a.req = gen + 1
      BY <1>0, <1>6, AskedAmends DEF Becomes
    <2>4. Whole(AskedList(l), ended)
      BY <1>1, <1>3, <2>3, AmendsWhole
    <2> QED BY <1>4, <2>2, <2>4, ClickWhole
  <1> QED BY <1>5, <1>6

LEMMA SaveEditWhole ==
    ASSUME RequestInv, ViewInv, ViewInv', EndedInv, AllWhole, SaveEdit, view.queue = <<>>
    PROVE  AllWhole'
  <1>0. /\ gen \in Nat /\ view \in Views /\ view.shown \in Seq(Sane(gen, moves))
        /\ view.shown \in Seq(Message)
    BY ListsTyped DEF RequestInv, Numbers, ViewInv, PageInv
  <1>1. PICK i \in DOMAIN view.shown :
             /\ view.shown[i].key = editing
             /\ view' = View(RewrittenList(view.shown, i), <<>>, RewrittenList(view.shown, i), loaded)
             /\ UNCHANGED <<loaded, gen, ended, source, buffer, sent>>
    BY SaveEditRenders
  <1>2. PICK r : r = RewrittenList(view.shown, i)
    OBVIOUS
  <1>3. /\ Len(r) = Len(view.shown) /\ DOMAIN r = DOMAIN view.shown
        /\ \A j \in DOMAIN view.shown : j # i => r[j] = view.shown[j]
        /\ r[i] = view.shown[i] \/ r[i].req = 0
    BY <1>0, <1>2, RewrittenListIs
  <1>4. Outcome(view, gen) = view.shown
    BY <1>0, OutcomeIdle
  <1>5. Whole(r, ended)
    <2> SUFFICES ASSUME NEW j \in DOMAIN r, NEW e \in ended,
                        r[j].role = "assistant", r[j].req = e[1]
                 PROVE  r[j].status = "complete" /\ Full(r[j].text, r[j].req, <<>>, e[2])
      BY DEF Whole
    <2>1. e[1] # 0
      BY <1>0 DEF EndedInv
    <2>2. r[j] = view.shown[j] /\ j \in DOMAIN view.shown
      BY <1>3, <2>1
    <2> QED BY <1>4, <2>2 DEF AllWhole, Whole
  <1>6. ASSUME source = gen, gen # 0
        PROVE  buffer.gen = gen /\ Counted(r, buffer.chunks, sent)
    <2>1. buffer.gen = gen /\ Counted(view.shown, buffer.chunks, sent)
      BY <1>4, <1>6 DEF AllWhole
    <2>2. busy
      BY <1>6 DEF RequestInv, Links
    <2>3. view.shown # <<>> /\ view.shown[Len(view.shown)].key # editing
      BY <2>2 DEF ViewInv, PageInv, Lists, Answering
    <2>4. Len(view.shown) \in DOMAIN view.shown /\ Len(view.shown) # i
      BY <1>0, <1>1, <2>3
    <2>5. r[Len(r)] = view.shown[Len(view.shown)]
      BY <1>3, <2>4
    <2> QED BY <2>1, <2>5 DEF Counted
  <1>7. view' = View(r, <<>>, r, loaded)
    BY <1>1, <1>2
  <1>8. loaded'
    BY <1>1, NothingYet
  <1>9. Whole(r, ended')
    BY <1>1, <1>5
  <1>10. source' = gen' /\ gen' # 0 => buffer'.gen = gen' /\ Counted(r, buffer'.chunks, sent')
    BY <1>1, <1>6
  <1> QED BY <1>7, <1>8, <1>9, <1>10, ClickWhole

LEMMA DeleteWhole ==
    ASSUME RequestInv, ViewInv, ViewInv', AllWhole, DeleteMessages
    PROVE  AllWhole'
  <1>1. PICK l \in Seq(Sane(gen, moves)) :
             /\ view' = View(l, <<>>, l, loaded) /\ ~busy /\ loaded
             /\ UNCHANGED <<loaded, gen, source, ended>>
             /\ l = <<>> \/ \E k : l = RemoveMessageByKey(view.shown, k)
    BY DeleteRenders
  <1>2. view.shown # <<>> /\ view.shown \in Seq(Message)
    BY ListsTyped DEF ViewInv, PageInv, DeleteMessages
  <1>3. Whole(view.shown, ended) /\ ~Open
    <2>1. Outcome(view, gen) = view.shown /\ ~Open
      BY <1>1, <1>2, OutcomeShown
    <2> QED BY <2>1 DEF AllWhole
  <1>4. Whole(l, ended)
    <2> DEFINE M == {m \in Message : \A e \in ended :
                        m.role = "assistant" /\ m.req = e[1]
                            => m.status = "complete" /\ Full(m.text, m.req, <<>>, e[2])}
    <2>1. \A j \in 1 .. Len(view.shown) : view.shown[j] \in M
      <3> SUFFICES ASSUME NEW j \in 1 .. Len(view.shown) PROVE view.shown[j] \in M
        OBVIOUS
      <3>1. j \in DOMAIN view.shown /\ view.shown[j] \in Message
        BY <1>2
      <3> QED BY <1>3, <3>1 DEF Whole
    <2>2. view.shown \in Seq(M)
      <3> HIDE DEF M
      <3> QED BY <1>2, <2>1
    <2>3. l \in Seq(M)
      <3> HIDE DEF M
      <3>1. <<>> \in Seq(M)
        BY EmptySeq
      <3> QED BY <1>1, <2>2, <3>1, RemovedIn
    <2>4. \A j \in DOMAIN l : l[j] \in M
      <3> HIDE DEF M
      <3> QED BY <2>3
    <2> QED BY <2>4 DEF Whole
  <1>5. ~(source' = gen' /\ gen' # 0)
    BY <1>1, <1>3 DEF Open
  <1>6. Whole(l, ended') /\ loaded'
    BY <1>1, <1>4
  <1> QED BY <1>1, <1>5, <1>6, ClickWhole

LEMMA StopWhole ==
    ASSUME RequestInv, ViewInv, ViewInv', EndedInv, AllWhole, StopGeneration
    PROVE  AllWhole'
  <1>0. gen \in Nat /\ gen + 1 \in Gens /\ busy = TRUE
    BY NextNumbers DEF RequestInv, Flags, StopGeneration
  <1>1. PICK e \in BOOLEAN, l \in Seq(Message) :
             /\ l = StoppedList(Flushed(view, e).latest, gen + 1) /\ loaded
             /\ view' = View(l, <<>>, l, loaded)
    BY StopLeaves
  <1>2. PICK w : w = Flushed(view, e)
    OBVIOUS
  <1>3. /\ w.latest \in {view.latest, Outcome(w, gen)} /\ Flushing(w)
        /\ PageInv(w, gen, moves, busy, editing)
    BY <1>2, FlushOutcome
  <1>4. Whole(w.latest, Before(gen))
    <2>1. Whole(Outcome(w, gen), ended)
      BY <1>3, FlushWhole DEF AllWhole
    <2>2. Whole(Outcome(w, gen), Before(gen))
      BY <2>1 DEF Whole, Before
    <2> QED BY <1>3, <2>2 DEF AllWhole
  <1>5. ended' = Before(gen)
    <2>1. ended' = {x \in ended : x[1] # gen}
      BY DEF StopGeneration
    <2>2. \A x \in ended : x[1] # gen <=> x[1] < gen
      BY <1>0 DEF EndedInv
    <2> QED BY <2>1, <2>2 DEF Before
  <1>6. PICK s \in Lists(gen, moves, TRUE, editing) : s = w.latest
    BY <1>0, <1>3 DEF PageInv
  <1>7. PICK h \in Gens : h = gen + 1
    BY <1>0
  <1>8. PICK a \in Message : Amends(StoppedList(s, h), s, a) /\ ~Pending(a) /\ a.req = gen
    <2>1. Stops(StoppedList(s, h), s, gen)
      BY <1>6, <1>7, StopAmends
    <2> QED BY <2>1 DEF Stops
  <1>9. \A x \in Before(gen) : x[1] # a.req
    BY <1>0, <1>8 DEF Before
  <1>10. l = StoppedList(s, h)
    BY <1>1, <1>2, <1>6, <1>7
  <1>11. Whole(l, ended')
    BY <1>4, <1>5, <1>6, <1>8, <1>9, <1>10, AmendsWhole
  <1>12. loaded' /\ source' = 0
    BY <1>1 DEF StopGeneration
  <1> QED BY <1>1, <1>11, <1>12, ClickWhole

LEMMA LoadWhole ==
    ASSUME RequestInv, ViewInv, AllWhole, LoadMessages
    PROVE  AllWhole'
  <1>1. PICK l \in Seq(Sane(gen, moves)) :
             /\ l = LoadedList(stored) /\ l \in Seq(Message)
             /\ view' = View(<<>>, <<Evaluated(l)>>, l, FALSE)
             /\ view' \in Views
    BY LoadLeaves
  <1>2. /\ DOMAIN l = DOMAIN stored
        /\ \A i \in DOMAIN stored : /\ l[i] = stored[i] \/ Pending(stored[i])
                                    /\ l[i].req = stored[i].req /\ l[i].role = stored[i].role
    BY <1>1, LoadedSane DEF ViewInv
  <1>3. Whole(stored, ended)
    BY DEF AllWhole, LoadMessages
  <1>4. Whole(l, ended)
    <2> SUFFICES ASSUME NEW i \in DOMAIN l, NEW e \in ended,
                        l[i].role = "assistant", l[i].req = e[1]
                 PROVE  l[i].status = "complete" /\ Full(l[i].text, l[i].req, <<>>, e[2])
      BY DEF Whole
    <2>1. stored[i].status = "complete" /\ Full(stored[i].text, stored[i].req, <<>>, e[2])
      BY <1>2, <1>3 DEF Whole
    <2>2. ~Pending(stored[i])
      BY <2>1 DEF Pending
    <2> QED BY <1>2, <2>1, <2>2
  <1>5. view'.shown = <<>> /\ view'.queue = <<Evaluated(l)>> /\ view'.latest = l
    BY <1>1 DEF View
  <1>6. Outcome(view', gen) = l
    BY <1>1, <1>5, OutcomeLoaded
  <1>7. gen' = gen /\ ended' = ended /\ loaded' /\ source' = 0
    BY NothingYet DEF LoadMessages
  <1>8. Whole(<<>>, Before(gen)) /\ Whole(l, Before(gen)) /\ Before(gen)' = Before(gen)
    BY <1>4, <1>7 DEF Whole, Before
  <1> QED BY <1>4, <1>5, <1>6, <1>7, <1>8 DEF AllWhole

LEMMA SaveWhole ==
    ASSUME RequestInv, ViewInv, SavedInv, AllWhole, SaveMessages
    PROVE  AllWhole'
  <1>1. /\ view'.shown = view.shown /\ view'.latest = view.latest
        /\ Outcome(view', gen) = Outcome(view, gen)
    BY SaveOutcome
  <1>2. UNCHANGED <<loaded, gen, source, buffer, sent, ended>>
    BY DEF SaveMessages
  <1>3. loaded
    BY NothingYet DEF SaveMessages
  <1> QED BY <1>1, <1>2, <1>3 DEF AllWhole, Before

\* The page is left or reloaded: what the page would show, if everything is
\* rendered, is what is stored.
LEMMA VisitWhole ==
    ASSUME RequestInv, ViewInv, SavedInv, ViewInv', AllWhole, LeavePage \/ ReloadPage
    PROVE  AllWhole'
  <1>0. Visit /\ ended' \in {ended, {}}
    BY DEF LeavePage, ReloadPage
  <1>1. /\ view'.shown = <<>> /\ view'.latest = <<>> /\ Outcome(view', gen') = <<>>
        /\ ~Open' /\ source' = 0
    BY <1>0, VisitOutcome
  <1>2. Whole(<<>>, Before(gen)') /\ Whole(<<>>, ended')
    BY DEF Whole
  <1>3. Whole(stored', ended')
    <2>1. CASE ended' = {}
      BY <2>1 DEF Whole
    <2>2. CASE ended' # {}
      <3>1. /\ LeavePage /\ view.queue = <<>> /\ ended' = ended
            /\ stored' = IF view.saving THEN view.latest ELSE stored
        BY <2>2 DEF LeavePage, ReloadPage
      <3>2. Outcome(view, gen) = view.shown
        BY <3>1, OutcomeIdle DEF ViewInv, PageInv
      <3>3. view.latest = view.shown
        BY <3>1 DEF ViewInv, PageInv, QueueInv
      <3>4. Whole(view.latest, ended)
        BY <3>2, <3>3 DEF AllWhole
      <3>5. CASE loaded
        <4>1. stored' = view.latest
          BY <3>1, <3>5 DEF SavedInv
        <4> QED BY <3>1, <3>4, <4>1
      <3>6. CASE ~loaded
        <4>1. stored' = stored
          BY <3>1, <3>6, NothingYet
        <4> QED BY <3>1, <3>6, <4>1 DEF AllWhole
      <3> QED BY <3>5, <3>6
    <2> QED BY <2>1, <2>2
  <1> QED BY <1>1, <1>2, <1>3 DEF AllWhole

LEMMA WholeSteps ==
    ASSUME BaseInv, BaseInv', SettledInv, EndedInv, WholeInv, [Next]_vars
    PROVE  WholeInv'
  <1> SUFFICES ASSUME Unclobbered' PROVE AllWhole'
    BY DEF WholeInv
  <1>a. Tidied /\ AllWhole
    BY StaysClobbered DEF SettledInv, WholeInv
  <1>b. RequestInv /\ ViewInv /\ SavedInv /\ RequestInv' /\ ViewInv' /\ SavedInv'
    BY DEF BaseInv
  <1>1. CASE Render
    BY <1>1, <1>a, <1>b, RenderWhole
  <1>2. CASE FlushTimer
    BY <1>2, <1>a, <1>b, FlushTimerWhole
  <1>3. CASE StreamDelta
    BY <1>3, <1>a, <1>b, StreamDeltaWhole
  <1>4. CASE StreamDone
    <2>1. /\ source # 0 /\ Conclude(source, "finish")
          /\ UNCHANGED <<gen, stored, loaded>> /\ source' = 0
          /\ ended' = IF source = gen THEN ended \cup {<<gen, sent>>} ELSE ended
      BY <1>4 DEF StreamDone
    <2>2. ended' = ended \/ (source = gen /\ ended' = ended \cup {<<gen, sent>>})
      BY <2>1
    <2> QED BY <1>a, <1>b, <2>1, <2>2, ConcludedWhole
  <1>5. CASE StreamError
    <2>1. /\ source # 0 /\ Conclude(source, "fail")
          /\ UNCHANGED <<gen, stored, loaded, ended>> /\ source' = 0
      BY <1>5 DEF StreamError
    <2> QED BY <1>a, <1>b, <2>1, ConcludedWhole
  <1>6. CASE FetchAnswer
    <2>1. fetching # 0 /\ UNCHANGED <<gen, stored, loaded, ended, source>>
      BY <1>6 DEF FetchAnswer
    <2>2. source' = 0
      BY <1>b, <2>1 DEF RequestInv, Links
    <2>3. PICK op \in {"answer", "fail"} : Conclude(fetching, op)
      BY <1>6 DEF FetchAnswer
    <2> QED BY <1>a, <1>b, <2>1, <2>2, <2>3, ConcludedWhole
  <1>7. CASE SendMessage \/ SaveEditAndSubmit \/ \E i \in DOMAIN view.shown : RegenerateMessage(i)
    <2>1. PICK front, l : Sends(front, l)
      BY <1>7, <1>b, Sending
    <2>2. view' = View(AskedList(l), <<>>, AskedList(l), loaded)
      BY <1>b, <2>1, SendsPage
    <2> QED BY <1>a, <1>b, <2>1, <2>2, SendsWhole
  <1>8. CASE SaveEdit
    <2>1. view.queue = <<>>
      BY <1>8 DEF SaveEdit, Unclobbered
    <2> QED BY <1>8, <1>a, <1>b, <2>1, SaveEditWhole
  <1>9. CASE DeleteMessages
    BY <1>9, <1>a, <1>b, DeleteWhole
  <1>10. CASE StopGeneration
    BY <1>10, <1>a, <1>b, StopWhole
  <1>11. CASE LoadMessages
    BY <1>11, <1>a, <1>b, LoadWhole
  <1>12. CASE SaveMessages
    BY <1>12, <1>a, <1>b, SaveWhole
  <1>13. CASE LeavePage \/ ReloadPage
    BY <1>13, <1>a, <1>b, VisitWhole
  <1>14. ASSUME \/ StreamCut \/ KeyRevoked \/ ChooseKey \/ UNCHANGED vars
                \/ \E i \in DOMAIN view.shown : EditMessage(i)
         PROVE  AllWhole'
    <2>1. UNCHANGED <<view, loaded, stored, gen, source, buffer, sent, ended>>
      BY <1>14 DEF StreamCut, KeyRevoked, ChooseKey, EditMessage, vars
    <2> QED BY <1>a, <2>1 DEF AllWhole, Before
  <1> QED BY <1>1, <1>2, <1>3, <1>4, <1>5, <1>6, <1>7, <1>8, <1>9, <1>10, <1>11, <1>12, <1>13,
             <1>14 DEF Next

LEMMA InitWhole == Init => EndedInv /\ WholeInv
  <1> SUFFICES ASSUME Init PROVE EndedInv /\ AllWhole
    BY DEF WholeInv
  <1>1. ended = {} /\ gen = 0
    BY DEF Init
  <1>2. Before(gen) = {}
    BY <1>1 DEF Before
  <1>3. \A ms : Whole(ms, {})
    BY DEF Whole
  <1> QED BY <1>1, <1>2, <1>3 DEF EndedInv, AllWhole

LEMMA WholeHolds == Spec => [](EndedInv /\ WholeInv)
  <1>1. BaseInv /\ EndedInv /\ [Next]_vars => EndedInv'
    BY EndedSteps
  <1>2. BaseInv /\ BaseInv' /\ SettledInv /\ EndedInv /\ WholeInv /\ [Next]_vars => WholeInv'
    BY WholeSteps
  <1> QED BY <1>1, <1>2, InitWhole, BaseHolds, SettledHolds, PTL DEF Spec

\* An answer that ended with [DONE] and was not stopped is shown complete: it
\* has every piece that arrived (a repeated one perhaps once) and is not longer
\* than all of them, however the pieces were compared, gathered, flushed, run
\* and rendered, and also after the user left the page and came back.
THEOREM AnswersWhole == Spec => []WholeAnswer
  <1>1. BaseInv /\ WholeInv => WholeAnswer
    <2> SUFFICES ASSUME BaseInv, WholeInv, Unclobbered, view.queue = <<>>
                 PROVE  WholeAnswer
      BY DEF WholeAnswer, Unclobbered
    <2>1. Outcome(view, gen) = view.shown
      BY OutcomeIdle DEF BaseInv, ViewInv, PageInv
    <2>2. Whole(view.shown, ended) /\ view.shown \in Seq(Message)
      BY <2>1, ListsTyped DEF WholeInv, AllWhole, BaseInv, ViewInv, PageInv
    <2>3. ASSUME NEW i \in DOMAIN view.shown, NEW e \in ended,
                 view.shown[i].role = "assistant", view.shown[i].req = e[1]
          PROVE  /\ view.shown[i].status = "complete"
                 /\ Len(view.shown[i].text) <= e[2].signs
                 /\ \A j \in DOMAIN e[2].words :
                      Piece(e[1], e[2].words[j]) \in SubSeqs(view.shown[i].text)
      <3>1. PICK m \in Message : m = view.shown[i]
        BY <2>2
      <3>2. m.req \in Gens /\ m.text \in Seq(Signs) /\ e[2] \in Sent
        BY MessageFields DEF BaseInv, RequestInv, Histories
      <3>3. m.status = "complete" /\ Full(m.text, m.req, <<>>, e[2])
        BY <2>2, <2>3, <3>1 DEF Whole
      <3>4. /\ Len(m.text) <= e[2].signs
            /\ \A j \in DOMAIN e[2].words : Piece(m.req, e[2].words[j]) \in SubSeqs(m.text)
        BY <3>2, <3>3, FullText
      <3> QED BY <2>3, <3>1, <3>3, <3>4
    <2> QED BY <2>3 DEF WholeAnswer
  <1> QED BY <1>1, BaseHolds, WholeHolds, PTL
=============================================================================
