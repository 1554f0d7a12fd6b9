----------------------------- MODULE TableProofs ------------------------------
(***************************************************************************)
(* The lemmas about the endpoint table that PlatformProofs draws on: what  *)
(* the steps of the main process keep, for any files, topics and names and *)
(* whatever the limits on channels, endpoints and queues are.              *)
(***************************************************************************)
EXTENDS ChannelTable, SequenceTheorems, TLAPS

ChannelRecs == [name : Links, attr : Attrs]
Entries == [name : Links, offset : Nat, attr : Buildable]

\* The stages follow each other, and each begins with what it works on empty.
StageInv ==
  /\ TableTypeOK
  /\ stage = "merge" \/ (file = <<>> /\ unread = <<>>)
  /\ stage = "merge" => channels = <<>>
  /\ stage = "order" \/ todo = {}
  /\ stage \in {"merge", "order"} => next = 1 /\ memory = TableSize
  /\ stage \in {"merge", "order", "measure"} => table = <<>> /\ offset = TableSize
  /\ next <= Len(channels) + 1

\* The queues whose sizes fit a word follow each other, in the memory and in what
\* has been given away of it.
EndOf(entry) == entry.offset + Size[entry.attr]

QueuesInv ==
  \A i \in DOMAIN table : Size[table[i].attr] < Word =>
    /\ EndOf(table[i]) <= memory
    /\ EndOf(table[i]) <= offset
    /\ \A j \in DOMAIN table : i < j => EndOf(table[i]) <= table[j].offset

\* A channel that a topic asks for.
Asks(k, ch) ==
  \E p \in DOMAIN config[k].pubers, s \in DOMAIN config[k].subers :
    ch = Channel(config[k], config[k].pubers[p], config[k].subers[s])

\* The channels are those of the topics taken so far, greatest first; a topic is
\* left out only when all that are there are as great.
ChannelsInv ==
  /\ \A i, j \in DOMAIN channels : i <= j => AtLeast(channels[i].attr, channels[j].attr)
  /\ \A i \in DOMAIN channels, k \in todo : AtLeast(channels[i].attr, config[k].attr)
  /\ \A i \in DOMAIN channels : \E k \in DOMAIN config : Asks(k, channels[i])
  /\ stage # "merge" =>
       \A k \in DOMAIN config \ todo :
         \/ \A ch \in ChannelRecs : Asks(k, ch) => \E i \in DOMAIN channels : channels[i] = ch
         \/ /\ rejected /\ todo = {}
            /\ \A i \in DOMAIN channels : AtLeast(channels[i].attr, config[k].attr)

\* The table is that of the channels before the next; there is none when the memory
\* could not be had.
RegisteredSoFar == \A j \in 1 .. next - 1 : Known(channels[j].name)

RegisterInv ==
  /\ \A i, j \in DOMAIN table : table[i].name = table[j].name => i = j
  /\ \A i \in DOMAIN table : \E j \in 1 .. next - 1 :
       table[i].name = channels[j].name /\ table[i].attr = channels[j].attr
  /\ stage = "register" => RegisteredSoFar
  /\ stage = "ready" => RegisteredSoFar \/ (rejected /\ table = <<>>)
  /\ stage = "ready" /\ ~rejected => next = Len(channels) + 1

-----------------------------------------------------------------------------
\* What centers give: topics with their attrs, and whom they name for a topic.
Has(list, x) == \E i \in DOMAIN list : list[i] = x

Offers(cs, t, x) == \E c \in cs : c.topic = t /\ c.attr = x
NamesPuber(cs, t, p) == \E c \in cs : c.topic = t /\ Has(c.pubers, p)
NamesSuber(cs, t, s) == \E c \in cs : c.topic = t /\ Has(c.subers, s)

SayTheSame(cs, ds) ==
  \A t \in Topics :
    /\ \A x \in Attrs : Offers(cs, t, x) <=> Offers(ds, t, x)
    /\ \A n \in Names : NamesPuber(cs, t, n) <=> NamesPuber(ds, t, n)
    /\ \A n \in Names : NamesSuber(cs, t, n) <=> NamesSuber(ds, t, n)

CentersOf(fs) ==
  {c \in Centers : \E i \in DOMAIN fs : fs[i] # Missing /\ Has(fs[i], c)}
Held == {c \in Centers : Has(config, c) \/ Has(file, c)} \cup CentersOf(unread)

\* Nothing is lost or invented when the files are merged.
MergeInv ==
  /\ \A k, m \in DOMAIN config : config[k].topic = config[m].topic => k = m
  /\ ~rejected =>
       /\ \A i \in DOMAIN files : files[i] = Missing => \E j \in DOMAIN unread : unread[j] = Missing
       /\ SayTheSame(CentersOf(files), Held)

-----------------------------------------------------------------------------
\* The places of the rows of n that ChannelsOf numbers: each has its row and
\* column, ...
LEMMA Places ==
  ASSUME NEW m \in Nat, NEW n \in Nat, NEW k \in 1 .. m * n
  PROVE  /\ n \in Nat \ {0}
         /\ ((k - 1) % n) + 1 \in 1 .. n
         /\ ((k - 1) \div n) + 1 \in 1 .. m
<1>1. n # 0
  OBVIOUS
<1> DEFINE q == (k - 1) \div n
           r == (k - 1) % n
<1>2. q \in Int /\ r \in 0 .. n - 1 /\ k - 1 = n * q + r
  BY <1>1
<1> HIDE DEF q, r
<1>3. q >= 0
  <2>1. SUFFICES ASSUME q <= -1 PROVE FALSE
    BY <1>2
  <2>2. n * q <= -n
    BY <1>2, <2>1
  <2> QED
    BY <1>2, <2>2
<1>4. q < m
  <2>1. SUFFICES ASSUME q >= m PROVE FALSE
    BY <1>2
  <2>2. n * q >= n * m /\ m * n = n * m
    BY <1>2, <2>1
  <2> QED
    BY <1>2, <2>2
<1> QED
  BY <1>1, <1>2, <1>3, <1>4 DEF q, r

\* ... and each row and column has its place.
LEMMA PlaceOf ==
  ASSUME NEW m \in Nat, NEW n \in Nat, NEW i \in 1 .. m, NEW j \in 1 .. n
  PROVE  LET k == (i - 1) * n + j IN
         /\ k \in 1 .. m * n
         /\ ((k - 1) % n) + 1 = j
         /\ ((k - 1) \div n) + 1 = i
<1> DEFINE k == (i - 1) * n + j
           q == (k - 1) \div n
           r == (k - 1) % n
<1>0. n \in Nat \ {0} /\ (i - 1) * n \in Nat
  OBVIOUS
<1>1. k \in Nat /\ k >= 1
  BY <1>0
<1>2. k <= m * n
  <2>1. (i - 1) * n = i * n - n
    OBVIOUS
  <2>2. i * n <= m * n
    OBVIOUS
  <2> QED
    BY <2>1, <2>2
<1>3. q \in Int /\ r \in 0 .. n - 1 /\ k - 1 = n * q + r
  BY <1>0, <1>1
<1>4. k - 1 = n * (i - 1) + (j - 1)
  OBVIOUS
<1> HIDE DEF k, q, r
<1>5. q = i - 1
  <2>1. n * (q - (i - 1)) = (j - 1) - r
    BY <1>3, <1>4
  <2>2. (j - 1) - r < n /\ (j - 1) - r > -n
    BY <1>3
  <2>3. CASE q > i - 1
    <3>1. n * (q - (i - 1)) >= n
      BY <1>3, <2>3, <1>0
    <3> QED
      BY <2>1, <2>2, <3>1, <1>3
  <2>4. CASE q < i - 1
    <3>1. n * (q - (i - 1)) <= -n
      BY <1>3, <2>4, <1>0
    <3> QED
      BY <2>1, <2>2, <3>1, <1>3
  <2> QED
    BY <2>3, <2>4, <1>3
<1>6. r = j - 1
  BY <1>3, <1>4, <1>5
<1> QED
  BY <1>1, <1>2, <1>5, <1>6, <1>0 DEF k, q, r

\* The channels of a topic are those it asks for.
LEMMA ChannelsOfTopic ==
  ASSUME NEW c \in Centers
  PROVE  /\ ChannelsOf(c) \in Seq(ChannelRecs)
         /\ \A i \in DOMAIN ChannelsOf(c) :
              \E p \in DOMAIN c.pubers, s \in DOMAIN c.subers :
                ChannelsOf(c)[i] = Channel(c, c.pubers[p], c.subers[s])
         /\ \A p \in DOMAIN c.pubers, s \in DOMAIN c.subers :
              \E i \in DOMAIN ChannelsOf(c) :
                ChannelsOf(c)[i] = Channel(c, c.pubers[p], c.subers[s])
<1> DEFINE n == Len(c.pubers)
           m == Len(c.subers)
           P(k) == ((k - 1) % n) + 1
           S(k) == ((k - 1) \div n) + 1
<1>1. c.pubers \in Seq(Names) /\ c.subers \in Seq(Names) /\ c.topic \in Topics /\ c.attr \in Attrs
  BY DEF Centers
<1>2. n \in Nat /\ m \in Nat /\ DOMAIN c.pubers = 1 .. n /\ DOMAIN c.subers = 1 .. m
  BY <1>1, LenProperties
<1>3. \A k \in 1 .. m * n : P(k) \in DOMAIN c.pubers /\ S(k) \in DOMAIN c.subers
  BY <1>2, Places
<1>4. \A p \in DOMAIN c.pubers, s \in DOMAIN c.subers :
        Channel(c, c.pubers[p], c.subers[s]) \in ChannelRecs
  BY <1>1 DEF Channel, Link, ChannelRecs, Links
<1>5. ChannelsOf(c) = [k \in 1 .. m * n |-> Channel(c, c.pubers[P(k)], c.subers[S(k)])]
  BY DEF ChannelsOf
<1>6. ASSUME NEW p \in 1 .. n, NEW s \in 1 .. m
      PROVE  \E k \in 1 .. m * n : P(k) = p /\ S(k) = s
  <2>1. m \in Nat /\ n \in Nat
    BY <1>2
  <2> HIDE DEF n, m
  <2> DEFINE k == (s - 1) * n + p
  <2>2. k \in 1 .. m * n /\ P(k) = p /\ S(k) = s
    BY <2>1, PlaceOf
  <2> HIDE DEF k, P, S
  <2> QED
    BY <2>2
<1> DEFINE len == m * n
<1>7. len \in Nat
  <2>1. m \in Nat /\ n \in Nat
    BY <1>2
  <2> HIDE DEF n, m
  <2> QED
    BY <2>1
<1>8. DOMAIN ChannelsOf(c) = 1 .. len
  BY <1>5
<1> HIDE DEF n, m, P, S, len
<1>9. \A k \in 1 .. len : ChannelsOf(c)[k] = Channel(c, c.pubers[P(k)], c.subers[S(k)])
  BY <1>5 DEF len
<1>10. \A k \in 1 .. len : P(k) \in DOMAIN c.pubers /\ S(k) \in DOMAIN c.subers
  BY <1>3 DEF len
<1>11. ChannelsOf(c) \in Seq(ChannelRecs)
  <2>1. ChannelsOf(c) \in [1 .. len -> ChannelRecs]
    BY <1>4, <1>5, <1>10 DEF len
  <2> QED
    BY <1>7, <2>1, IsASeq
<1>12. \A p \in DOMAIN c.pubers, s \in DOMAIN c.subers :
        \E k \in 1 .. len : P(k) = p /\ S(k) = s
  BY <1>2, <1>6 DEF len
<1> QED
  BY <1>8, <1>9, <1>10, <1>11, <1>12

-----------------------------------------------------------------------------
\* Appending to a list what it may have already.
LEMMA AddedHas ==
  ASSUME NEW list \in Seq(Names), NEW x \in Names
  PROVE  /\ Added(list, x) \in Seq(Names)
         /\ \A n : Has(Added(list, x), n) <=> (Has(list, n) \/ n = x)
<1>1. CASE Has(list, x)
  BY <1>1 DEF Added, Has
<1>2. CASE ~Has(list, x)
  <2>1. Added(list, x) = Append(list, x)
    BY <1>2 DEF Added, Has
  <2> QED
    BY <2>1, AppendProperties DEF Has
<1> QED
  BY <1>1, <1>2

\* The head of a list and its tail.
LEMMA HeadTailHas ==
  ASSUME NEW S, NEW list \in Seq(S), list # <<>>
  PROVE  /\ Head(list) \in S /\ Tail(list) \in Seq(S)
         /\ \A n : Has(list, n) <=> (Has(Tail(list), n) \/ n = Head(list))
<1>1. Head(list) \in S /\ Tail(list) \in Seq(S)
      /\ Head(list) = list[1] /\ Len(Tail(list)) = Len(list) - 1 /\ Len(list) >= 1
  OBVIOUS
<1>2. \A i \in 1 .. Len(list) - 1 : Tail(list)[i] = list[i + 1]
  OBVIOUS
<1>3. DOMAIN list = 1 .. Len(list) /\ DOMAIN Tail(list) = 1 .. Len(list) - 1
  BY <1>1
<1>4. ASSUME NEW n, Has(list, n)
      PROVE  Has(Tail(list), n) \/ n = Head(list)
  <2>1. PICK i \in 1 .. Len(list) : list[i] = n
    BY <1>3, <1>4 DEF Has
  <2>2. CASE i = 1
    BY <1>1, <2>1, <2>2
  <2>3. CASE i # 1
    <3>1. i - 1 \in 1 .. Len(list) - 1 /\ (i - 1) + 1 = i
      BY <1>1, <2>1, <2>3
    <3>2. Tail(list)[i - 1] = n
      BY <1>2, <2>1, <3>1
    <3> QED
      BY <1>3, <3>1, <3>2 DEF Has
  <2> QED
    BY <2>2, <2>3
<1>5. ASSUME NEW n, Has(Tail(list), n) \/ n = Head(list)
      PROVE  Has(list, n)
  BY <1>1, <1>2, <1>3, <1>5 DEF Has
<1> QED
  BY <1>1, <1>4, <1>5

\* Two centers that replace two others, and name together whom those named.
Share(e, f, c, d) ==
  /\ e.topic = c.topic /\ f.topic = d.topic
  /\ e.attr = c.attr /\ f.attr = d.attr
  /\ \A n \in Names :
       /\ Has(e.pubers, n) \/ Has(f.pubers, n) <=> Has(c.pubers, n) \/ Has(d.pubers, n)
       /\ Has(e.subers, n) \/ Has(f.subers, n) <=> Has(c.subers, n) \/ Has(d.subers, n)

\* json_config_center_merge moves a name from the file's center to the entry.
LEMMA MergeMoves ==
  ASSUME StageInv, NEW k \in DOMAIN config, MergeSuber(k) \/ MergePuber(k)
  PROVE  \E e, f \in Centers :
           /\ config' = [config EXCEPT ![k] = e]
           /\ file' = [file EXCEPT ![1] = f]
           /\ Share(e, f, config[k], file[1])
<1>1. config \in Seq(Centers) /\ file \in Seq(Centers) /\ file # <<>>
  BY DEF StageInv, TableTypeOK, MergeSuber, MergePuber, MergesWith, Merging
<1> DEFINE c == config[k]
           d == file[1]
<1>2. c \in Centers /\ d \in Centers /\ Incoming = d
  BY <1>1 DEF Incoming
<1>3. /\ c.pubers \in Seq(Names) /\ c.subers \in Seq(Names)
      /\ d.pubers \in Seq(Names) /\ d.subers \in Seq(Names)
  BY <1>2 DEF Centers
<1>4. CASE MergeSuber(k)
  <2>1. d.subers # <<>>
    BY <1>2, <1>4 DEF MergeSuber
  <2>2. PICK x : x = Head(d.subers)
    OBVIOUS
  <2>3. PICK rest : rest = Tail(d.subers)
    OBVIOUS
  <2>4. PICK more : more = Added(c.subers, x)
    OBVIOUS
  <2>5. x \in Names /\ rest \in Seq(Names) /\ \A n : Has(d.subers, n) <=> Has(rest, n) \/ n = x
    BY <1>3, <2>1, <2>2, <2>3, HeadTailHas
  <2>6. more \in Seq(Names) /\ \A n : Has(more, n) <=> Has(c.subers, n) \/ n = x
    BY <1>3, <2>4, <2>5, AddedHas
  <2> DEFINE e == [c EXCEPT !.subers = more]
             f == [d EXCEPT !.subers = rest]
  <2>7. config' = [config EXCEPT ![k] = e] /\ file' = [file EXCEPT ![1] = f]
    BY <1>2, <1>4, <2>2, <2>3, <2>4 DEF MergeSuber
  <2>8. /\ e \in Centers /\ e.topic = c.topic /\ e.attr = c.attr
        /\ e.pubers = c.pubers /\ e.subers = more
    BY <1>2, <2>6 DEF Centers
  <2>9. /\ f \in Centers /\ f.topic = d.topic /\ f.attr = d.attr
        /\ f.pubers = d.pubers /\ f.subers = rest
    BY <1>2, <2>5 DEF Centers
  <2> HIDE DEF e, f, c, d
  <2>10. Share(e, f, c, d)
    BY <2>5, <2>6, <2>8, <2>9 DEF Share
  <2> QED
    BY <2>7, <2>8, <2>9, <2>10 DEF c, d
<1>5. CASE MergePuber(k)
  <2>1. d.pubers # <<>>
    BY <1>2, <1>5 DEF MergePuber
  <2>2. PICK x : x = Head(d.pubers)
    OBVIOUS
  <2>3. PICK rest : rest = Tail(d.pubers)
    OBVIOUS
  <2>4. PICK more : more = Added(c.pubers, x)
    OBVIOUS
  <2>5. x \in Names /\ rest \in Seq(Names) /\ \A n : Has(d.pubers, n) <=> Has(rest, n) \/ n = x
    BY <1>3, <2>1, <2>2, <2>3, HeadTailHas
  <2>6. more \in Seq(Names) /\ \A n : Has(more, n) <=> Has(c.pubers, n) \/ n = x
    BY <1>3, <2>4, <2>5, AddedHas
  <2> DEFINE e == [c EXCEPT !.pubers = more]
             f == [d EXCEPT !.pubers = rest]
  <2>7. config' = [config EXCEPT ![k] = e] /\ file' = [file EXCEPT ![1] = f]
    BY <1>2, <1>5, <2>2, <2>3, <2>4 DEF MergePuber, WithPuber
  <2>8. /\ e \in Centers /\ e.topic = c.topic /\ e.attr = c.attr
        /\ e.subers = c.subers /\ e.pubers = more
    BY <1>2, <2>6 DEF Centers
  <2>9. /\ f \in Centers /\ f.topic = d.topic /\ f.attr = d.attr
        /\ f.subers = d.subers /\ f.pubers = rest
    BY <1>2, <2>5 DEF Centers
  <2> HIDE DEF e, f, c, d
  <2>10. Share(e, f, c, d)
    BY <2>5, <2>6, <2>8, <2>9 DEF Share
  <2> QED
    BY <2>7, <2>8, <2>9, <2>10 DEF c, d
<1> QED
  BY <1>4, <1>5
-----------------------------------------------------------------------------
\* The types and the order of the stages hold at first, ...
LEMMA StageInit ==
  ASSUME NEW fs \in Configurations \cup {<<>>}, TableInit(fs)
  PROVE  StageInv
<1>1. fs \in Seq(Files)
  <2>1. CASE fs = <<>>
    BY <2>1
  <2>2. CASE fs \in Configurations
    BY <2>2, TableAssumption
  <2> QED
    BY <2>1, <2>2
<1>2. MaxChannels \in Nat /\ MaxEndpoints \in Nat
  BY TableAssumption
<1>2a. TableSize \in Nat
  BY TableAssumption
<1>3. /\ <<>> \in Seq(Centers) /\ <<>> \in Seq(Entries) /\ <<>> \in Seq(ChannelRecs)
      /\ Len(<<>>) = 0
  OBVIOUS
<1>4. TableTypeOK
  <2>1. files \in Seq(Files) /\ unread \in Seq(Files)
    BY <1>1 DEF TableInit
  <2>2. file \in Seq(Centers) /\ config \in Seq(Centers)
    BY <1>3 DEF TableInit
  <2>3. channels \in Seq(ChannelRecs) /\ table \in Seq(Entries)
    BY <1>3 DEF TableInit
  <2>4. Len(channels) <= MaxChannels /\ Len(table) <= MaxEndpoints
    BY <1>2, <1>3 DEF TableInit
  <2>5. /\ stage = "merge" /\ rejected \in BOOLEAN /\ todo \subseteq DOMAIN config
        /\ next \in 1 .. MaxChannels + 1 /\ {memory, offset} \subseteq Nat
    <3>1. memory = TableSize /\ offset = TableSize /\ next = 1 /\ todo = {} /\ rejected = FALSE
      BY DEF TableInit
    <3>2. stage = "merge" /\ next \in 1 .. MaxChannels + 1
      BY <1>2, <3>1 DEF TableInit
    <3>3. rejected \in BOOLEAN
      BY <3>1
    <3>4. todo \subseteq DOMAIN config
      BY <3>1
    <3>5. {memory, offset} \subseteq Nat
      BY <1>2a, <3>1
    <3> QED
      BY <3>2, <3>3, <3>4, <3>5
  <2> QED
    BY <2>1, <2>2, <2>3, <2>4, <2>5 DEF TableTypeOK, Entries, ChannelRecs
<1> QED
  BY <1>3, <1>4 DEF TableInit, StageInv

\* KeptChannels keeps a list that is short enough, and the beginning of another.
LEMMA Kept ==
  ASSUME NEW S, NEW chs \in Seq(S)
  PROVE  /\ KeptChannels(chs) \in Seq(S)
         /\ Len(KeptChannels(chs)) = IF Len(chs) < MaxChannels THEN Len(chs) ELSE MaxChannels
         /\ \A i \in DOMAIN KeptChannels(chs) : i \in DOMAIN chs /\ KeptChannels(chs)[i] = chs[i]
<1> DEFINE n == IF Len(chs) < MaxChannels THEN Len(chs) ELSE MaxChannels
<1>1. n \in Nat /\ n <= Len(chs) /\ Len(chs) \in Nat /\ DOMAIN chs = 1 .. Len(chs)
  BY TableAssumption
<1>2. KeptChannels(chs) = SubSeq(chs, 1, n)
  BY DEF KeptChannels, FirstOf
<1> HIDE DEF n
<1>3. \A i \in 1 .. n : chs[i] \in S
  BY <1>1
<1>4. SubSeq(chs, 1, n) \in Seq(S) /\ Len(SubSeq(chs, 1, n)) = n
      /\ \A i \in 1 .. n : SubSeq(chs, 1, n)[i] = chs[i]
  BY <1>1, <1>3, SubSeqProperties
<1> QED
  BY <1>1, <1>2, <1>4 DEF n

\* What a word leaves of a number, and of one that fits it.
LEMMA InAWord ==
  ASSUME NEW x \in Nat
  PROVE  x % Word \in Nat /\ (x < Word => x % Word = x)
<1>1. Word \in Nat \ {0}
  BY TableAssumption
<1> QED
  BY <1>1

\* A channel has a name and an attr, which gives its queue a size.
LEMMA ChannelTyped ==
  ASSUME StageInv, NEW i \in DOMAIN channels
  PROVE  /\ channels[i] \in ChannelRecs /\ channels[i].name \in Links
         /\ channels[i].attr \in Attrs
         /\ Priority[channels[i].attr] \in Nat /\ Size[channels[i].attr] \in Nat
         /\ Need(channels[i]) \in Nat
         /\ Size[channels[i].attr] < Word => Need(channels[i]) = Size[channels[i].attr]
<1>1. channels \in Seq(ChannelRecs)
  BY DEF StageInv, TableTypeOK, ChannelRecs
<1>2. channels[i] \in ChannelRecs
  BY <1>1, ElementOfSeq
<1>3. channels[i].name \in Links /\ channels[i].attr \in Attrs
  BY <1>2 DEF ChannelRecs
<1>4. Priority[channels[i].attr] \in Nat /\ Size[channels[i].attr] \in Nat
  BY <1>3, TableAssumption
<1> QED
  BY <1>2, <1>3, <1>4, InAWord DEF Need

\* ... and every step keeps them.
LEMMA StageStep ==
  ASSUME StageInv, [TableNext]_tvars
  PROVE  StageInv'
<1> USE DEF StageInv, TableTypeOK
<1>0. MaxChannels \in Nat \ {0} /\ MaxEndpoints \in Nat \ {0}
  BY TableAssumption
<1>1. CASE UNCHANGED tvars
  BY <1>1 DEF tvars
<1>2. CASE ReadFile
  <2>1. Head(unread) \in Files /\ Tail(unread) \in Seq(Files)
    BY <1>2 DEF ReadFile
  <2>2. file' \in Seq(Centers) /\ unread' \in Seq(Files)
    BY <1>2, <2>1 DEF ReadFile, Files
  <2> QED
    BY <1>2, <2>2 DEF ReadFile, placing
<1>3. CASE FileMissing \/ MergeConflict
  <2>1. GiveUp /\ stage = "merge"
    BY <1>3 DEF FileMissing, MergeConflict, Merging
  <2> QED
    BY <2>1 DEF GiveUp, placing
<1>4. CASE CopyCenter
  <2>1. Incoming \in Centers /\ Tail(file) \in Seq(Centers)
    BY <1>4, HeadTailProperties DEF CopyCenter, Merging, Incoming
  <2>2. config' \in Seq(Centers) /\ file' \in Seq(Centers)
    BY <1>4, <2>1, AppendProperties DEF CopyCenter
  <2> QED
    BY <1>4, <2>2 DEF CopyCenter, Merging, MergeLeaves, placing
<1>5. ASSUME NEW k \in DOMAIN config, MergeSuber(k) \/ MergePuber(k)
      PROVE  StageInv'
  <2>1. PICK e \in Centers, f \in Centers :
          config' = [config EXCEPT ![k] = e] /\ file' = [file EXCEPT ![1] = f]
    BY <1>5, MergeMoves
  <2>2. config' \in Seq(Centers) /\ file' \in Seq(Centers)
    <3>1. file # <<>>
      BY <1>5 DEF MergeSuber, MergePuber, MergesWith, Merging
    <3>2. config \in Seq(Centers) /\ file \in Seq(Centers)
      OBVIOUS
    <3>3. k \in 1 .. Len(config) /\ 1 \in 1 .. Len(file)
      BY ONLY <3>1, <3>2, k \in DOMAIN config, LenProperties, EmptySeq
    <3>4. [config EXCEPT ![k] = e] \in Seq(Centers) /\ [file EXCEPT ![1] = f] \in Seq(Centers)
      BY <3>2, <3>3, ExceptSeq
    <3> QED
      BY <2>1, <3>4
  <2> QED
    BY <1>5, <2>2 DEF MergeSuber, MergePuber, MergesWith, Merging, MergeLeaves, placing
<1>6. ASSUME NEW k \in DOMAIN config, CenterMerged(k)
      PROVE  StageInv'
  <2>1. Tail(file) \in Seq(Centers)
    BY <1>6, HeadTailProperties DEF CenterMerged, MergesWith, Merging
  <2> QED
    BY <1>6, <2>1 DEF CenterMerged, MergesWith, Merging, MergeLeaves, placing
<1>7. CASE Validate
  BY <1>7 DEF Validate
<1>8. ASSUME NEW k \in todo, AddTopic(k)
      PROVE  StageInv'
  <2> DEFINE all == channels \o ChannelsOf(config[k])
  <2>1. channels \in Seq(ChannelRecs) /\ config[k] \in Centers
    BY DEF ChannelRecs
  <2>2. ChannelsOf(config[k]) \in Seq(ChannelRecs)
    BY <2>1, ChannelsOfTopic
  <2>3. all \in Seq(ChannelRecs)
    BY <2>1, <2>2, ConcatProperties
  <2>4. channels' = KeptChannels(all) /\ todo' \subseteq todo
    BY <1>8 DEF AddTopic
  <2> HIDE DEF all
  <2>5. channels' \in Seq(ChannelRecs) /\ Len(channels') <= MaxChannels
    <3>1. Len(all) \in Nat
      BY <2>3
    <3> QED
      BY <1>0, <2>3, <2>4, <3>1, Kept
  <2>6. Len(channels') \in Nat
    BY <2>5
  <2>7. rejected' \in BOOLEAN
    BY <1>8 DEF AddTopic
  <2> QED
    BY <1>0, <1>8, <2>4, <2>5, <2>6, <2>7 DEF AddTopic, ChannelRecs
<1>9. CASE TopicsAdded
  BY <1>9 DEF TopicsAdded, placing
<1>10. CASE Measure
  <2>1. memory' \in Nat
    <3>1. next \in DOMAIN channels /\ memory \in Nat
      BY <1>10 DEF Measure
    <3>2. PICK need : need = Need(channels[next])
      OBVIOUS
    <3>3. need \in Nat
      BY <3>1, <3>2, ChannelTyped
    <3>4. memory' = (memory + need) % Word
      BY <1>10, <3>2 DEF Measure
    <3> QED
      BY ONLY <3>1, <3>3, <3>4, InAWord
  <2>2. Len(channels) \in Nat /\ next' <= Len(channels) + 1 /\ next' \in 1 .. MaxChannels + 1
    BY <1>0, <1>10 DEF Measure
  <2> QED
    BY <1>10, <2>1, <2>2 DEF Measure
<1>11. CASE Measured
  BY <1>0, <1>11 DEF Measured
<1>11a. CASE NoMemory
  BY <1>11a DEF NoMemory, placing
<1>12. CASE RegisterEndpoint
  <2>1. PICK ch : ch = channels[next]
    OBVIOUS
  <2>2. next \in DOMAIN channels
    BY <1>12 DEF RegisterEndpoint, Registering
  <2>2a. ch.name \in Links /\ Need(ch) \in Nat
    BY <2>1, <2>2, ChannelTyped
  <2>3. ch.attr \in Buildable /\ Len(table) < MaxEndpoints
    BY <1>12, <2>1 DEF RegisterEndpoint, CanBuild, HasRoom, QueueInits
  <2>4. Endpoint(ch) \in Entries /\ table \in Seq(Entries)
    BY <2>2a, <2>3 DEF Endpoint, Entries
  <2>5. table' \in Seq(Entries) /\ Len(table') = Len(table) + 1
    BY <1>12, <2>1, <2>4, AppendProperties DEF RegisterEndpoint
  <2>6. Len(table') <= MaxEndpoints /\ offset' \in Nat
    <3>1. Len(table) \in Nat /\ offset \in Nat
      OBVIOUS
    <3>2. offset' = offset + Need(ch)
      BY <1>12, <2>1 DEF RegisterEndpoint
    <3> QED
      <4>1. Len(table') <= MaxEndpoints
        BY <1>0, <2>3, <2>5, <3>1
      <4>2. offset' \in Nat
        BY ONLY <2>2a, <3>1, <3>2
      <4> QED
        BY <4>1, <4>2
  <2>7. next' <= Len(channels) + 1 /\ next' \in 1 .. MaxChannels + 1
    BY <1>0, <1>12 DEF RegisterEndpoint, Registering
  <2> QED
    BY <1>12, <2>5, <2>6, <2>7 DEF RegisterEndpoint, Registering, Entries
<1>13. CASE PassOver
  BY <1>0, <1>13 DEF PassOver, Registering
<1>14. CASE RegisterFails
  BY <1>14 DEF RegisterFails, Registering, placing
<1>15. CASE Loaded
  BY <1>15 DEF Loaded, placing
<1> QED
  BY <1>1, <1>2, <1>3, <1>4, <1>5, <1>6, <1>7, <1>8, <1>9, <1>10, <1>11, <1>11a, <1>12,
     <1>13, <1>14, <1>15 DEF TableNext

-----------------------------------------------------------------------------
\* The table is empty at first, ...
LEMMA QueuesInit ==
  ASSUME NEW fs, TableInit(fs)
  PROVE  QueuesInv
  BY DEF TableInit, QueuesInv

\* ... and a queue is put behind the others, if there is room for it.
LEMMA QueuesStep ==
  ASSUME StageInv, QueuesInv, [TableNext]_tvars
  PROVE  QueuesInv'
<1>1. {memory, offset} \subseteq Nat /\ table \in Seq(Entries)
  BY DEF StageInv, TableTypeOK, Entries
<1>2. CASE RegisterEndpoint
  <2>1. PICK ch, size, need : /\ ch = channels[next] /\ size = Size[ch.attr]
                              /\ need = Need(ch)
    OBVIOUS
  <2>2. next \in DOMAIN channels
    BY <1>2 DEF RegisterEndpoint, Registering, StageInv, TableTypeOK
  <2>3. size \in Nat /\ need \in Nat /\ (size < Word => need = size)
    BY <2>1, <2>2, ChannelTyped
  <2>4. offset + need <= memory
    <3>1. (offset + need) % Word <= memory /\ offset + need < Word
      BY <1>2, <2>1 DEF RegisterEndpoint, CanBuild, HasRoom, QueueInits
    <3>2. (offset + need) % Word = offset + need
      BY ONLY <1>1, <2>3, <3>1, InAWord
    <3> QED
      BY <3>1, <3>2
  <2>5. PICK new : new = Endpoint(ch)
    OBVIOUS
  <2>6. new.offset = offset /\ new.attr = ch.attr
    BY <2>5 DEF Endpoint
  <2>7. table' = Append(table, new) /\ offset' = offset + need /\ memory' = memory
    BY <1>2, <2>1, <2>5 DEF RegisterEndpoint
  <2>8. PICK n : n = Len(table)
    OBVIOUS
  <2>9. /\ n \in Nat /\ DOMAIN table = 1 .. n /\ DOMAIN table' = 1 .. n + 1
        /\ table'[n + 1] = new /\ \A i \in 1 .. n : table'[i] = table[i]
    BY <1>1, <2>7, <2>8
  <2>10. \A i \in 1 .. n : EndOf(table[i]) \in Nat
    <3>1. \A i \in 1 .. n : table[i] \in Entries
      BY <1>1, <2>9, ElementOfSeq
    <3> QED
      BY <3>1, TableAssumption DEF Entries, EndOf
  <2>11. EndOf(new) = offset + size
    BY <2>1, <2>6 DEF EndOf
  <2>12. ASSUME NEW i \in 1 .. n, Size[table[i].attr] < Word
         PROVE  /\ EndOf(table[i]) <= memory
                /\ EndOf(table[i]) <= offset
                /\ \A j \in 1 .. n : i < j => EndOf(table[i]) <= table[j].offset
    BY <2>9, <2>12 DEF QueuesInv
  <2>13. ASSUME NEW i \in 1 .. n + 1, Size[table'[i].attr] < Word
         PROVE  /\ EndOf(table'[i]) <= memory'
                /\ EndOf(table'[i]) <= offset'
                /\ \A j \in 1 .. n + 1 : i < j => EndOf(table'[i]) <= table'[j].offset
    <3>1. CASE i = n + 1
      <4>1. table'[i] = new /\ size < Word
        BY <2>1, <2>6, <2>9, <2>13, <3>1
      <4>2. need = size
        BY <2>3, <4>1
      <4> QED
        BY <2>4, <2>7, <2>9, <2>11, <3>1, <4>1, <4>2
    <3>2. CASE i \in 1 .. n
      <4>1. table'[i] = table[i] /\ Size[table[i].attr] < Word
        BY <2>9, <2>13, <3>2
      <4>2. EndOf(table[i]) \in Nat /\ offset \in Nat /\ need \in Nat
        BY <1>1, <2>3, <2>10, <3>2
      <4>3. EndOf(table'[i]) <= offset'
        BY <2>7, <2>12, <3>2, <4>1, <4>2
      <4>4. \A j \in 1 .. n + 1 : i < j => EndOf(table'[i]) <= table'[j].offset
        <5>1. SUFFICES ASSUME NEW j \in 1 .. n + 1, i < j
                       PROVE  EndOf(table'[i]) <= table'[j].offset
          OBVIOUS
        <5>2. CASE j = n + 1
          BY <2>6, <2>9, <2>12, <3>2, <4>1, <5>2
        <5>3. CASE j \in 1 .. n
          BY <2>9, <2>12, <3>2, <4>1, <5>1, <5>3
        <5> QED
          BY <2>9, <5>2, <5>3
      <4> QED
        BY <2>7, <2>12, <3>2, <4>1, <4>3, <4>4
    <3> QED
      BY <2>9, <3>1, <3>2
  <2> QED
    BY <2>9, <2>13 DEF QueuesInv, EndOf
<1>3. CASE stage = "measure"
  <2>1. table' = <<>>
    BY <1>3 DEF StageInv, TableNext, tvars, placing, ReadFile, FileMissing, CopyCenter,
      MergeConflict, MergeSuber, MergePuber, CenterMerged, MergesWith, Merging, Validate,
      AddTopic, TopicsAdded, Measure, Measured, NoMemory, RegisterEndpoint, PassOver,
      RegisterFails, Registering, Loaded
  <2> QED
    BY <2>1 DEF QueuesInv
<1>4. CASE ~(RegisterEndpoint \/ Measure)
  <2>1. UNCHANGED <<memory, offset, table>>
    BY <1>4 DEF TableNext, tvars, placing, ReadFile, FileMissing, GiveUp, CopyCenter,
      MergeConflict, MergeSuber, MergePuber, CenterMerged, MergeLeaves, Validate, AddTopic,
      TopicsAdded, Measured, NoMemory, PassOver, RegisterFails, Loaded
  <2> QED
    BY <2>1 DEF QueuesInv, EndOf
<1> QED
  BY <1>2, <1>3, <1>4 DEF Measure
-----------------------------------------------------------------------------
\* There are no channels at first, ...
LEMMA ChannelsInit ==
  ASSUME NEW fs, TableInit(fs)
  PROVE  ChannelsInv
  BY DEF TableInit, ChannelsInv

\* A step that leaves the channels and the topics alone keeps what is said of them.
LEMMA ChannelsStay ==
  ASSUME ChannelsInv, UNCHANGED <<config, todo, channels>>,
         stage' # "merge" => stage # "merge", rejected => rejected'
  PROVE  ChannelsInv'
  BY DEF ChannelsInv, Asks

\* ... the topics bring theirs in the order of their priority, ...
LEMMA ChannelsAdded ==
  ASSUME StageInv, ChannelsInv, NEW k \in todo, AddTopic(k)
  PROVE  ChannelsInv'
<1> DEFINE chs == ChannelsOf(config[k])
           all == channels \o chs
           n == Len(channels)
           x == config[k].attr
<1>1. /\ channels \in Seq(ChannelRecs) /\ config \in Seq(Centers) /\ config[k] \in Centers
      /\ k \in DOMAIN config
  BY DEF StageInv, TableTypeOK, ChannelRecs
<1>2. /\ chs \in Seq(ChannelRecs)
      /\ \A i \in DOMAIN chs : Asks(k, chs[i]) /\ chs[i].attr = x
      /\ \A ch : Asks(k, ch) => \E i \in DOMAIN chs : chs[i] = ch
  <2> HIDE DEF chs
  <2>1. /\ chs \in Seq(ChannelRecs)
        /\ \A i \in DOMAIN chs : Asks(k, chs[i])
        /\ \A ch : Asks(k, ch) => \E i \in DOMAIN chs : chs[i] = ch
    BY <1>1, ChannelsOfTopic DEF Asks, chs
  <2>2. \A ch : Asks(k, ch) => ch.attr = x
    BY DEF Asks, Channel
  <2> QED
    BY <2>1, <2>2
<1>3. /\ channels' = KeptChannels(all) /\ config' = config
      /\ stage = "order" /\ stage' = "order" /\ ByPriority(k)
      /\ rejected' = (rejected \/ Len(all) > MaxChannels)
      /\ todo' = IF Len(all) > MaxChannels THEN {} ELSE todo \ {k}
  BY <1>1 DEF AddTopic
<1> HIDE DEF chs
<1>4. /\ all \in Seq(ChannelRecs) /\ Len(all) = n + Len(chs)
      /\ n \in Nat /\ Len(chs) \in Nat /\ n <= MaxChannels /\ MaxChannels \in Nat
      /\ DOMAIN channels = 1 .. n /\ DOMAIN chs = 1 .. Len(chs)
      /\ \A i \in 1 .. n + Len(chs) : all[i] = IF i <= n THEN channels[i] ELSE chs[i - n]
  <2>1. n <= MaxChannels /\ MaxChannels \in Nat
    BY TableAssumption DEF StageInv, TableTypeOK
  <2>2. n \in Nat /\ Len(chs) \in Nat /\ DOMAIN channels = 1 .. n /\ DOMAIN chs = 1 .. Len(chs)
    BY <1>1, <1>2, LenProperties
  <2>3. /\ all \in Seq(ChannelRecs) /\ Len(all) = n + Len(chs)
        /\ \A i \in 1 .. Len(channels) + Len(chs) :
             all[i] = IF i <= Len(channels) THEN channels[i] ELSE chs[i - Len(channels)]
    BY <1>1, <1>2, ConcatProperties
  <2> QED
    BY <2>1, <2>2, <2>3
<1> HIDE DEF all, n, x
<1>5. PICK len : len = Len(channels')
  OBVIOUS
<1>6. /\ len \in Nat /\ DOMAIN channels' = 1 .. len /\ n <= len
      /\ \A i \in 1 .. n : channels'[i] = channels[i]
      /\ \A i \in n + 1 .. len : i - n \in DOMAIN chs /\ channels'[i] = chs[i - n]
      /\ Len(all) <= MaxChannels => len = n + Len(chs)
  <2>1. /\ channels' \in Seq(ChannelRecs)
        /\ len = IF Len(all) < MaxChannels THEN Len(all) ELSE MaxChannels
        /\ \A i \in DOMAIN channels' : i \in DOMAIN all /\ channels'[i] = all[i]
    BY <1>3, <1>4, <1>5, Kept
  <2>2. len \in Nat /\ DOMAIN channels' = 1 .. len
    BY <1>5, <2>1, LenProperties
  <2>3. len <= n + Len(chs) /\ n <= len /\ (Len(all) <= MaxChannels => len = n + Len(chs))
    <3>1. PICK l : l = Len(chs)
      OBVIOUS
    <3>2. Len(all) = n + l /\ l \in Nat /\ n \in Nat /\ MaxChannels \in Nat /\ n <= MaxChannels
      BY <1>4, <3>1
    <3>3. len = IF n + l < MaxChannels THEN n + l ELSE MaxChannels
      BY <2>1, <3>2
    <3> QED
      BY <3>1, <3>2, <3>3
  <2>4. \A i \in 1 .. len : channels'[i] = IF i <= n THEN channels[i] ELSE chs[i - n]
    BY <1>4, <2>1, <2>2, <2>3
  <2> QED
    BY <1>4, <2>2, <2>3, <2>4
<1>7. \A i \in n + 1 .. len : Asks(k, channels'[i]) /\ channels'[i].attr = x
  BY <1>2, <1>6
<1>8. \A i \in 1 .. n : Priority[channels'[i].attr] \in Nat /\ AtLeast(channels'[i].attr, x)
  BY <1>4, <1>6, ChannelTyped DEF ChannelsInv, x
<1>9. /\ Priority[x] \in Nat
      /\ \A m \in todo : Priority[config[m].attr] \in Nat /\ AtLeast(x, config[m].attr)
  <2>1. \A m \in todo : config[m] \in Centers
    BY <1>1 DEF StageInv, TableTypeOK
  <2>2. \A m \in todo : Priority[config[m].attr] \in Nat
    BY <2>1, TableAssumption DEF Centers
  <2> QED
    BY <1>3, <2>2 DEF ByPriority, x
<1>10. \A i, j \in DOMAIN channels' : i <= j => AtLeast(channels'[i].attr, channels'[j].attr)
  <2>1. SUFFICES ASSUME NEW i \in 1 .. len, NEW j \in 1 .. len, i <= j
                 PROVE  AtLeast(channels'[i].attr, channels'[j].attr)
    BY <1>6
  <2>2. CASE j \in 1 .. n
    <3>1. i \in 1 .. n
      BY <1>4, <2>1, <2>2
    <3> QED
      BY <1>4, <1>6, <2>1, <2>2, <3>1 DEF ChannelsInv
  <2>3. CASE j \in n + 1 .. len
    BY <1>4, <1>6, <1>7, <1>8, <1>9, <2>1, <2>3 DEF AtLeast
  <2> QED
    BY <1>4, <1>6, <2>2, <2>3
<1>11. \A i \in DOMAIN channels' :
         Priority[channels'[i].attr] \in Nat /\ AtLeast(channels'[i].attr, x)
  BY <1>4, <1>6, <1>7, <1>8, <1>9 DEF AtLeast
<1>12. \A i \in DOMAIN channels', m \in todo : AtLeast(channels'[i].attr, config'[m].attr)
  BY <1>3, <1>9, <1>11 DEF AtLeast
<1>13. \A i \in DOMAIN channels' : \E m \in DOMAIN config : Asks(m, channels'[i])
  <2>1. \A i \in 1 .. n : \E m \in DOMAIN config : Asks(m, channels'[i])
    BY <1>4, <1>6 DEF ChannelsInv
  <2>2. \A i \in n + 1 .. len : \E m \in DOMAIN config : Asks(m, channels'[i])
    BY <1>1, <1>7
  <2>3. \A i \in DOMAIN channels' : i \in 1 .. n \/ i \in n + 1 .. len
    BY <1>4, <1>6
  <2> QED
    BY <2>1, <2>2, <2>3
<1>14. ASSUME NEW m \in DOMAIN config \ todo'
       PROVE  \/ \A ch \in ChannelRecs : Asks(m, ch) =>
                   \E i \in DOMAIN channels' : channels'[i] = ch
              \/ /\ rejected' /\ todo' = {}
                 /\ \A i \in DOMAIN channels' : AtLeast(channels'[i].attr, config[m].attr)
  <2>1. CASE m \notin todo
    <3>1. \A ch \in ChannelRecs : Asks(m, ch) => \E i \in DOMAIN channels : channels[i] = ch
      BY <1>3, <1>14, <2>1 DEF ChannelsInv
    <3>2. \A i \in DOMAIN channels : i \in DOMAIN channels' /\ channels'[i] = channels[i]
      BY <1>4, <1>6
    <3> QED
      BY <3>1, <3>2
  <2>2. CASE m \in todo /\ Len(all) > MaxChannels
    BY <1>3, <1>12, <2>2
  <2>3. CASE m \in todo /\ ~(Len(all) > MaxChannels)
    <3>1. m = k
      BY <1>3, <1>14, <2>3
    <3>2. \A i \in DOMAIN chs : i + n \in DOMAIN channels' /\ channels'[i + n] = chs[i]
      <4>1. len = n + Len(chs)
        BY <1>4, <1>6, <2>3
      <4> SUFFICES ASSUME NEW i \in 1 .. Len(chs)
                   PROVE  i + n \in DOMAIN channels' /\ channels'[i + n] = chs[i]
        BY <1>4
      <4>2. i + n \in n + 1 .. len /\ (i + n) - n = i
        BY <1>4, <4>1
      <4> QED
        BY <1>4, <1>6, <4>2
    <3> QED
      BY <1>2, <3>1, <3>2
  <2> QED
    BY <2>1, <2>2, <2>3
<1>15. \A i \in DOMAIN channels', m \in todo' : AtLeast(channels'[i].attr, config'[m].attr)
  BY <1>3, <1>12
<1>16. (\A i \in DOMAIN channels : \E m \in DOMAIN config : Asks(m, channels[i]))'
  BY <1>3, <1>13 DEF Asks
<1>17. (\A m \in DOMAIN config \ todo :
         \/ \A ch \in ChannelRecs : Asks(m, ch) => \E i \in DOMAIN channels : channels[i] = ch
         \/ /\ rejected /\ todo = {}
            /\ \A i \in DOMAIN channels : AtLeast(channels[i].attr, config[m].attr))'
  BY <1>3, <1>14 DEF Asks
<1> QED
  BY <1>10, <1>15, <1>16, <1>17 DEF ChannelsInv

\* ... and no other step changes them.
LEMMA ChannelsStep ==
  ASSUME StageInv, ChannelsInv, [TableNext]_tvars
  PROVE  ChannelsInv'
<1>1. ASSUME NEW k \in todo, AddTopic(k)
      PROVE  ChannelsInv'
  BY <1>1, ChannelsAdded
<1>2. CASE Validate
  <2>1. /\ channels = <<>> /\ channels' = channels /\ config' = config
        /\ todo' = IF rejected' THEN {} ELSE DOMAIN config
    BY <1>2 DEF Validate, StageInv
  <2>2. ASSUME NEW m \in DOMAIN config \ todo'
        PROVE  rejected' /\ todo' = {}
    BY <2>1, <2>2
  <2> QED
    BY <2>1, <2>2 DEF ChannelsInv
<1>3. CASE stage = "merge" /\ stage' = "merge"
  <2>1. channels = <<>> /\ todo = {} /\ channels' = <<>> /\ todo' = {}
    BY <1>3, StageStep DEF StageInv
  <2> QED
    BY <1>3, <2>1 DEF ChannelsInv
<1>4. CASE \/ TopicsAdded \/ Measure \/ Measured \/ NoMemory \/ RegisterEndpoint
           \/ PassOver \/ RegisterFails \/ Loaded \/ UNCHANGED tvars
  <2>1. /\ UNCHANGED <<config, todo, channels>>
        /\ stage' # "merge" => stage # "merge"
        /\ rejected => rejected'
    BY <1>4 DEF TopicsAdded, Measure, Measured, NoMemory, RegisterEndpoint, PassOver,
      RegisterFails, Loaded, Registering, placing, tvars
  <2> QED
    BY <2>1, ChannelsStay
<1>5. CASE \/ ReadFile \/ FileMissing \/ CopyCenter \/ MergeConflict
           \/ \E k \in DOMAIN config : MergeSuber(k) \/ MergePuber(k) \/ CenterMerged(k)
  <2>1. stage = "merge" /\ stage' = "merge"
    BY <1>5 DEF ReadFile, FileMissing, CopyCenter, MergeConflict, MergeSuber, MergePuber,
      CenterMerged, MergesWith, Merging, MergeLeaves, GiveUp
  <2> QED
    BY <1>3, <2>1
<1> QED
  BY <1>1, <1>2, <1>4, <1>5 DEF TableNext
-----------------------------------------------------------------------------
\* Nothing is registered at first, ...
LEMMA RegisterInit ==
  ASSUME NEW fs, TableInit(fs)
  PROVE  RegisterInv
  BY DEF TableInit, RegisterInv, RegisteredSoFar

\* ... and each channel is registered, passed over because its name is there, or
\* the last that was looked at.
LEMMA RegisterStep ==
  ASSUME StageInv, RegisterInv, [TableNext]_tvars
  PROVE  RegisterInv'
<1>0. StageInv' /\ next \in Nat \ {0} /\ Len(channels) \in Nat /\ next <= Len(channels) + 1
      /\ table \in Seq(Entries) /\ stage \in {"merge", "order", "measure", "register", "ready"}
      /\ DOMAIN channels = 1 .. Len(channels)
  <2>1. StageInv'
    BY StageStep
  <2>2. next \in Nat \ {0}
    BY DEF StageInv, TableTypeOK
  <2>3. Len(channels) \in Nat /\ DOMAIN channels = 1 .. Len(channels) /\ next <= Len(channels) + 1
    BY DEF StageInv, TableTypeOK
  <2>4. table \in Seq(Entries) /\ stage \in {"merge", "order", "measure", "register", "ready"}
    BY DEF StageInv, TableTypeOK, Entries
  <2> QED
    BY <2>1, <2>2, <2>3, <2>4
<1>1. CASE stage' \notin {"register", "ready"}
  <2>1. table' = <<>> /\ DOMAIN table' = {}
    BY <1>0, <1>1 DEF StageInv, TableTypeOK
  <2> QED
    BY <1>1, <2>1 DEF RegisterInv
<1>2. CASE Measured
  <2>1. table' = <<>> /\ next' = 1 /\ stage' = "register"
    BY <1>2 DEF Measured, StageInv
  <2> QED
    BY <2>1 DEF RegisterInv, RegisteredSoFar
<1>2a. CASE NoMemory
  <2>1. table' = <<>> /\ rejected' /\ stage' = "ready"
    BY <1>2a DEF NoMemory, StageInv, placing
  <2> QED
    BY <2>1 DEF RegisterInv
<1>3. CASE RegisterEndpoint
  <2>1. PICK ch : ch = channels[next]
    OBVIOUS
  <2>2. PICK new : new = Endpoint(ch)
    OBVIOUS
  <2>3. new.name = ch.name /\ new.attr = ch.attr
    BY <2>2 DEF Endpoint
  <2>4. /\ ~Known(ch.name) /\ table' = Append(table, new) /\ next' = next + 1
        /\ stage = "register" /\ stage' = "register" /\ channels' = channels
    BY <1>3, <2>1, <2>2 DEF RegisterEndpoint, Registering
  <2>5. PICK n : n = Len(table)
    OBVIOUS
  <2>6. /\ n \in Nat /\ DOMAIN table = 1 .. n /\ DOMAIN table' = 1 .. n + 1
        /\ table'[n + 1] = new /\ \A i \in 1 .. n : table'[i] = table[i]
    BY <1>0, <2>4, <2>5
  <2>7. \A i \in 1 .. n : table[i].name # new.name
    BY <2>3, <2>4, <2>6 DEF Known
  <2>8. \A i, j \in DOMAIN table' : table'[i].name = table'[j].name => i = j
    BY <2>6, <2>7 DEF RegisterInv
  <2>9. ASSUME NEW i \in 1 .. n + 1
        PROVE  \E j \in 1 .. next' - 1 :
                 table'[i].name = channels[j].name /\ table'[i].attr = channels[j].attr
    <3>1. CASE i = n + 1
      <4>1. next \in 1 .. next' - 1
        BY <1>0, <2>4
      <4> QED
        BY <2>1, <2>3, <2>6, <3>1, <4>1
    <3>2. CASE i \in 1 .. n
      <4>1. PICK j \in 1 .. next - 1 :
              table[i].name = channels[j].name /\ table[i].attr = channels[j].attr
        BY <2>6, <3>2 DEF RegisterInv
      <4>2. j \in 1 .. next' - 1
        BY <1>0, <2>4
      <4> QED
        BY <2>6, <3>2, <4>1, <4>2
    <3> QED
      BY <2>6, <3>1, <3>2
  <2>10. ASSUME NEW j \in 1 .. next' - 1
         PROVE  \E i \in DOMAIN table' : table'[i].name = channels[j].name
    <3>1. CASE j = next
      BY <2>1, <2>3, <2>6, <3>1
    <3>2. CASE j # next
      <4>1. j \in 1 .. next - 1
        BY <1>0, <2>4, <3>2
      <4>2. PICK i \in 1 .. n : table[i].name = channels[j].name
        BY <2>4, <2>6, <4>1 DEF RegisterInv, RegisteredSoFar, Known
      <4> QED
        BY <2>6, <4>2
    <3> QED
      BY <3>1, <3>2
  <2> QED
    <3>1. RegisteredSoFar'
      BY <2>4, <2>10 DEF RegisteredSoFar, Known
    <3>2. \A i \in DOMAIN table' : \E j \in 1 .. next' - 1 :
            table'[i].name = channels'[j].name /\ table'[i].attr = channels'[j].attr
      BY <2>4, <2>6, <2>9
    <3> QED
      BY <2>4, <2>8, <3>1, <3>2 DEF RegisterInv
<1>4. CASE PassOver
  <2>1. /\ Known(channels[next].name) /\ next' = next + 1
        /\ stage = "register" /\ stage' = "register" /\ UNCHANGED <<channels, table>>
    BY <1>4 DEF PassOver, Registering
  <2>2. \A i \in DOMAIN table : \E j \in 1 .. next' - 1 :
          table[i].name = channels[j].name /\ table[i].attr = channels[j].attr
    <3>1. \A j \in 1 .. next - 1 : j \in 1 .. next' - 1
      BY <1>0, <2>1
    <3> QED
      BY <3>1 DEF RegisterInv
  <2>3. \A j \in 1 .. next' - 1 : Known(channels[j].name)
    <3>1. \A j \in 1 .. next' - 1 : j = next \/ j \in 1 .. next - 1
      BY <1>0, <2>1
    <3> QED
      BY <2>1, <3>1 DEF RegisterInv, RegisteredSoFar
  <2> QED
    BY <2>1, <2>2, <2>3 DEF RegisterInv, RegisteredSoFar, Known
<1>5. CASE RegisterFails \/ Loaded
  <2>1. /\ stage = "register" /\ stage' = "ready" /\ UNCHANGED <<channels, table, next>>
        /\ rejected' \/ next = Len(channels) + 1
    BY <1>0, <1>5 DEF RegisterFails, Registering, Loaded, placing
  <2> QED
    BY <2>1 DEF RegisterInv, RegisteredSoFar, Known
<1>6. CASE UNCHANGED tvars
  BY <1>6 DEF RegisterInv, RegisteredSoFar, Known, tvars
<1>7. CASE \/ ReadFile \/ FileMissing \/ CopyCenter \/ MergeConflict \/ Validate
           \/ \E k \in DOMAIN config : MergeSuber(k) \/ MergePuber(k) \/ CenterMerged(k)
           \/ \E k \in todo : AddTopic(k)
           \/ TopicsAdded \/ Measure
  <2>1. stage' \in {"merge", "order", "measure"}
    BY <1>7 DEF ReadFile, FileMissing, CopyCenter, MergeConflict, MergeSuber, MergePuber,
      CenterMerged, MergesWith, Merging, MergeLeaves, GiveUp, Validate, AddTopic, TopicsAdded,
      Measure
  <2> QED
    BY <1>1, <2>1
<1> QED
  BY <1>2, <1>2a, <1>3, <1>4, <1>5, <1>6, <1>7 DEF TableNext

-----------------------------------------------------------------------------
\* Who is left out when the table is ready has no channel before the last that
\* was looked at, so everyone in the table has one as great.
LEMMA TheLowPay ==
  ASSUME StageInv, ChannelsInv, RegisterInv
  PROVE  LowPriorityPays
<1> SUFFICES ASSUME stage = "ready",
                    NEW k \in DOMAIN config,
                    NEW p \in DOMAIN config[k].pubers, NEW s \in DOMAIN config[k].subers,
                    ~Known(Link(config[k], config[k].pubers[p], config[k].subers[s])),
                    NEW i \in DOMAIN table
             PROVE  AtLeast(table[i].attr, config[k].attr)
  BY DEF LowPriorityPays
<1>1. PICK ch : ch = Channel(config[k], config[k].pubers[p], config[k].subers[s])
  OBVIOUS
<1>2. /\ config[k] \in Centers /\ todo = {}
      /\ next \in Nat /\ next <= Len(channels) + 1 /\ Len(channels) \in Nat
      /\ DOMAIN channels = 1 .. Len(channels)
  BY DEF StageInv, TableTypeOK
<1>3. /\ ch \in ChannelRecs /\ Asks(k, ch) /\ ~Known(ch.name) /\ ch.attr = config[k].attr
  <2>1. /\ config[k].pubers \in Seq(Names) /\ config[k].subers \in Seq(Names)
        /\ config[k].topic \in Topics /\ config[k].attr \in Attrs
    BY <1>2 DEF Centers
  <2>2. config[k].pubers[p] \in Names /\ config[k].subers[s] \in Names
    BY <2>1
  <2> QED
    BY <1>1, <2>1, <2>2 DEF Channel, Link, ChannelRecs, Links, Asks
<1>4. PICK j \in 1 .. next - 1 : table[i].name = channels[j].name /\ table[i].attr = channels[j].attr
  BY DEF RegisterInv
<1>5. j \in DOMAIN channels
  BY <1>2, <1>4
<1>6. CASE \A m \in DOMAIN channels : AtLeast(channels[m].attr, config[k].attr)
  BY <1>4, <1>5, <1>6
<1>7. CASE \E m \in DOMAIN channels : channels[m] = ch
  <2>1. PICK m \in DOMAIN channels : channels[m] = ch
    BY <1>7
  <2>2. ~(m \in 1 .. next - 1)
    BY <1>3, <2>1 DEF RegisterInv, RegisteredSoFar
  <2>3. j <= m
    BY <1>2, <1>4, <2>1, <2>2
  <2> QED
    BY <1>3, <1>4, <1>5, <2>1, <2>3 DEF ChannelsInv
<1> QED
  BY <1>2, <1>3, <1>6, <1>7 DEF ChannelsInv
-----------------------------------------------------------------------------
\* To say the same is transitive.
LEMMA SameTransitive ==
  ASSUME NEW cs, NEW ds, NEW es, SayTheSame(cs, ds), SayTheSame(ds, es)
  PROVE  SayTheSame(cs, es)
  BY DEF SayTheSame

\* At first all that is given is unread.
LEMMA MergeInit ==
  ASSUME NEW fs, TableInit(fs)
  PROVE  MergeInv
<1>1. /\ files = fs /\ unread = fs /\ config = <<>> /\ file = <<>>
      /\ DOMAIN config = {} /\ DOMAIN file = {}
  BY DEF TableInit
<1>2. Held = CentersOf(files)
  BY <1>1 DEF Held, Has
<1> QED
  BY <1>1, <1>2 DEF MergeInv, SayTheSame

\* Centers that share what two others named can replace them.
LEMMA ShareReplaces ==
  ASSUME NEW cs, NEW c, NEW d, NEW e, NEW f, Share(e, f, c, d), c.topic = d.topic
  PROVE  SayTheSame(cs \cup {c, d}, cs \cup {e, f})
<1>1. ASSUME NEW t, NEW x
      PROVE  Offers(cs \cup {c, d}, t, x) <=> Offers(cs \cup {e, f}, t, x)
  BY DEF Share, Offers
<1>2. ASSUME NEW t, NEW n \in Names
      PROVE  NamesPuber(cs \cup {c, d}, t, n) <=> NamesPuber(cs \cup {e, f}, t, n)
  <2>1. \A bs, a, b : NamesPuber(bs \cup {a, b}, t, n) <=>
          NamesPuber(bs, t, n) \/ (a.topic = t /\ Has(a.pubers, n)) \/ (b.topic = t /\ Has(b.pubers, n))
    BY DEF NamesPuber
  <2> QED
    BY <2>1 DEF Share
<1>3. ASSUME NEW t, NEW n \in Names
      PROVE  NamesSuber(cs \cup {c, d}, t, n) <=> NamesSuber(cs \cup {e, f}, t, n)
  <2>1. \A bs, a, b : NamesSuber(bs \cup {a, b}, t, n) <=>
          NamesSuber(bs, t, n) \/ (a.topic = t /\ Has(a.subers, n)) \/ (b.topic = t /\ Has(b.subers, n))
    BY DEF NamesSuber
  <2> QED
    BY <2>1 DEF Share
<1> QED
  BY <1>1, <1>2, <1>3 DEF SayTheSame

\* Replacing an element of a list.
LEMMA ReplacedHas ==
  ASSUME NEW S, NEW list \in Seq(S), NEW k \in DOMAIN list, NEW e
  PROVE  \A c : Has([list EXCEPT ![k] = e], c) <=>
                  c = e \/ \E i \in DOMAIN list \ {k} : list[i] = c
  BY DEF Has

\* What the merging of a name into an entry leaves.
LEMMA MovesKeep ==
  ASSUME StageInv, NEW k \in DOMAIN config, MergeSuber(k) \/ MergePuber(k)
  PROVE  /\ SayTheSame(Held, Held')
         /\ \A i \in DOMAIN config : config'[i].topic = config[i].topic
         /\ DOMAIN config' = DOMAIN config
<1>1. PICK e \in Centers, f \in Centers :
        /\ config' = [config EXCEPT ![k] = e]
        /\ file' = [file EXCEPT ![1] = f]
        /\ Share(e, f, config[k], file[1])
  BY MergeMoves
<1>2. /\ config \in Seq(Centers) /\ file \in Seq(Centers) /\ file # <<>>
      /\ config[k].topic = file[1].topic /\ unread' = unread
  BY DEF StageInv, TableTypeOK, MergeSuber, MergePuber, MergesWith, Merging, MergeLeaves,
    IsEntry, Incoming
<1>3. 1 \in DOMAIN file /\ config[k] \in Centers /\ file[1] \in Centers
  BY <1>2
<1> DEFINE cs == {c \in Centers : \/ \E i \in DOMAIN config \ {k} : config[i] = c
                                 \/ \E i \in DOMAIN file \ {1} : file[i] = c}
                 \cup CentersOf(unread)
<1>4. Held = cs \cup {config[k], file[1]}
  BY <1>3 DEF Held, Has
<1>5. Held' = cs \cup {e, f}
  <2>1. \A c : Has(config', c) <=> c = e \/ \E i \in DOMAIN config \ {k} : config[i] = c
    <3>1. \A c : Has([config EXCEPT ![k] = e], c) <=>
                  c = e \/ \E i \in DOMAIN config \ {k} : config[i] = c
      BY <1>2, ReplacedHas
    <3> QED
      BY <1>1, <3>1
  <2>2. \A c : Has(file', c) <=> c = f \/ \E i \in DOMAIN file \ {1} : file[i] = c
    <3>1. \A c : Has([file EXCEPT ![1] = f], c) <=>
                  c = f \/ \E i \in DOMAIN file \ {1} : file[i] = c
      BY <1>2, <1>3, ReplacedHas
    <3> QED
      BY <1>1, <3>1
  <2>3. Held' = {c \in Centers : Has(config', c) \/ Has(file', c)} \cup CentersOf(unread)
    BY <1>2 DEF Held, CentersOf, Has
  <2> HIDE DEF CentersOf, Has
  <2> QED
    BY <2>1, <2>2, <2>3
<1>6. SayTheSame(Held, Held')
  <2> HIDE DEF cs
  <2> QED
    BY <1>1, <1>2, <1>4, <1>5, ShareReplaces
<1>7. \A i \in DOMAIN config : config'[i].topic = config[i].topic
  BY <1>1 DEF Share
<1> QED
  BY <1>1, <1>6, <1>7

\* Merging loses nothing and invents nothing, unless it gives up.
LEMMA MergeStep ==
  ASSUME StageInv, MergeInv, [TableNext]_tvars
  PROVE  MergeInv'
<1>0. /\ config \in Seq(Centers) /\ file \in Seq(Centers) /\ unread \in Seq(Files)
  BY DEF StageInv, TableTypeOK
<1>1. ASSUME UNCHANGED <<files, unread>>, ~rejected' => ~rejected, SayTheSame(Held, Held'),
             \A k, m \in DOMAIN config' : config'[k].topic = config'[m].topic => k = m
      PROVE  MergeInv'
  <2>1. ~rejected' => SayTheSame(CentersOf(files), Held')
    BY <1>1, SameTransitive DEF MergeInv
  <2>2. CentersOf(files)' = CentersOf(files)
    BY <1>1 DEF CentersOf, Has
  <2>3. SayTheSame(CentersOf(files), Held)' <=> SayTheSame(CentersOf(files)', Held')
    BY DEF SayTheSame, Offers, NamesPuber, NamesSuber
  <2> QED
    BY <1>1, <2>1, <2>2, <2>3 DEF MergeInv
<1>2. ASSUME UNCHANGED <<files, unread, config, file>>, ~rejected' => ~rejected
      PROVE  MergeInv'
  <2>1. Held' = Held
    BY <1>2 DEF Held, CentersOf, Has
  <2>2. SayTheSame(Held, Held')
    BY <2>1 DEF SayTheSame
  <2>3. \A k, m \in DOMAIN config' : config'[k].topic = config'[m].topic => k = m
    BY <1>2 DEF MergeInv
  <2> QED
    BY <1>1, <1>2, <2>2, <2>3
<1>3. CASE ReadFile
  <2>1. /\ Head(unread) # Missing /\ unread # <<>> /\ file = <<>>
        /\ file' = Head(unread) /\ unread' = Tail(unread)
        /\ files' = files /\ config' = config /\ rejected' = rejected
    BY <1>3 DEF ReadFile
  <2>2. \A f : Has(unread, f) <=> (Has(unread', f) \/ f = file')
    BY <1>0, <2>1, HeadTailHas
  <2>3. \A c : ~Has(file, c)
    BY <2>1 DEF Has
  <2>4. \A c \in Centers : \A fs : c \in CentersOf(fs) <=> \E f : Has(fs, f) /\ f # Missing /\ Has(f, c)
    BY DEF CentersOf, Has
  <2>5. \A c \in Centers : c \in CentersOf(unread) <=> c \in CentersOf(unread') \/ Has(file', c)
    BY <2>1, <2>2, <2>4
  <2>6. Held' = Held
    <3>1. CentersOf(unread) \subseteq Centers /\ CentersOf(unread') \subseteq Centers
      BY DEF CentersOf
    <3>2. Held' = {c \in Centers : Has(config, c) \/ Has(file', c)} \cup CentersOf(unread')
      BY <2>1 DEF Held, CentersOf, Has
    <3> QED
      BY <2>3, <2>5, <3>1, <3>2 DEF Held
  <2>7. Has(unread, Missing) <=> Has(unread', Missing)
    BY <2>1, <2>2
  <2>8. CentersOf(files)' = CentersOf(files)
    BY <2>1 DEF CentersOf, Has
  <2>9. SayTheSame(CentersOf(files), Held)' <=> SayTheSame(CentersOf(files), Held)
    BY <2>6, <2>8 DEF SayTheSame, Offers, NamesPuber, NamesSuber
  <2> QED
    BY <2>1, <2>7, <2>9 DEF MergeInv, Has
<1>4. CASE FileMissing \/ MergeConflict
  <2>1. rejected' /\ config' = <<>>
    BY <1>4 DEF FileMissing, MergeConflict, GiveUp
  <2> QED
    BY <2>1 DEF MergeInv
<1>5. CASE CopyCenter
  <2>1. PICK x : x = Head(file)
    OBVIOUS
  <2>2. /\ file # <<>> /\ config' = Append(config, x) /\ file' = Tail(file)
        /\ UNCHANGED <<files, unread, rejected>>
        /\ \A k \in DOMAIN config : config[k].topic # x.topic
    BY <1>5, <2>1 DEF CopyCenter, Merging, MergeLeaves, IsEntry, Incoming
  <2>3. x \in Centers /\ \A c : Has(file, c) <=> (Has(file', c) \/ c = x)
    BY <1>0, <2>1, <2>2, HeadTailHas
  <2>4. /\ DOMAIN config' = DOMAIN config \cup {Len(config) + 1} /\ config'[Len(config) + 1] = x
        /\ \A i \in DOMAIN config : config'[i] = config[i]
    BY <1>0, <2>2, <2>3, AppendProperties
  <2>5. \A c : Has(config', c) <=> (Has(config, c) \/ c = x)
    BY <2>4 DEF Has
  <2>6. Held' = Held
    <3>1. CentersOf(unread)' = CentersOf(unread)
      BY <2>2 DEF CentersOf, Has
    <3>2. Held' = {c \in Centers : Has(config', c) \/ Has(file', c)} \cup CentersOf(unread)
      BY <3>1 DEF Held, Has
    <3> QED
      BY <2>3, <2>5, <3>2 DEF Held
  <2>7. SayTheSame(Held, Held')
    BY <2>6 DEF SayTheSame
  <2>8. \A k, m \in DOMAIN config' : config'[k].topic = config'[m].topic => k = m
    BY <2>2, <2>4 DEF MergeInv
  <2> QED
    BY <1>1, <2>2, <2>7, <2>8
<1>6. ASSUME NEW k \in DOMAIN config, MergeSuber(k) \/ MergePuber(k)
      PROVE  MergeInv'
  <2>1. UNCHANGED <<files, unread, rejected>>
    BY <1>6 DEF MergeSuber, MergePuber, MergeLeaves
  <2>2. SayTheSame(Held, Held')
    BY <1>6, MovesKeep
  <2>3. \A i, m \in DOMAIN config' : config'[i].topic = config'[m].topic => i = m
    BY <1>6, MovesKeep DEF MergeInv
  <2> QED
    BY <1>1, <2>1, <2>2, <2>3
<1>7. ASSUME NEW k \in DOMAIN config, CenterMerged(k)
      PROVE  MergeInv'
  <2>1. PICK d : d = Head(file)
    OBVIOUS
  <2>2. /\ file # <<>> /\ file' = Tail(file) /\ UNCHANGED <<config, files, unread, rejected>>
        /\ config[k].topic = d.topic /\ config[k].attr = d.attr
        /\ d.pubers = <<>> /\ d.subers = <<>>
    BY <1>7, <2>1 DEF CenterMerged, MergesWith, Merging, MergeLeaves, IsEntry, Incoming
  <2>3. d \in Centers /\ \A c : Has(file, c) <=> (Has(file', c) \/ c = d)
    BY <1>0, <2>1, <2>2, HeadTailHas
  <2>4. Held = Held' \cup {d} /\ config[k] \in Held'
    <3>1. CentersOf(unread)' = CentersOf(unread)
      BY <2>2 DEF CentersOf, Has
    <3>2. Held' = {c \in Centers : Has(config, c) \/ Has(file', c)} \cup CentersOf(unread)
      BY <2>2, <3>1 DEF Held, Has
    <3>3. config[k] \in Centers /\ Has(config, config[k])
      BY <1>0 DEF Has
    <3> QED
      BY <2>3, <3>2, <3>3 DEF Held
  <2>5. \A n : ~Has(d.pubers, n) /\ ~Has(d.subers, n)
    BY <2>2 DEF Has
  <2>6. SayTheSame(Held, Held')
    <3>1. PICK cs : cs = Held'
      OBVIOUS
    <3>2. SayTheSame(cs \cup {d}, cs)
      BY <2>2, <2>4, <2>5, <3>1 DEF SayTheSame, Offers, NamesPuber, NamesSuber
    <3> QED
      BY <2>4, <3>1, <3>2
  <2>7. \A i, m \in DOMAIN config' : config'[i].topic = config'[m].topic => i = m
    BY <2>2 DEF MergeInv
  <2> QED
    BY <1>1, <2>2, <2>6, <2>7
<1>8. CASE \/ Validate \/ \E k \in todo : AddTopic(k)
           \/ TopicsAdded \/ Measure \/ Measured \/ NoMemory \/ RegisterEndpoint \/ PassOver
           \/ RegisterFails \/ Loaded \/ UNCHANGED tvars
  <2>1. UNCHANGED <<files, unread, config, file>>
    BY <1>8 DEF Validate, AddTopic, TopicsAdded, Measure, Measured, NoMemory,
      RegisterEndpoint, PassOver, RegisterFails, Loaded, tvars
  <2>2. ~rejected' => ~rejected
    BY <1>8 DEF Validate, AddTopic, TopicsAdded, Measure, Measured, NoMemory,
      RegisterEndpoint, PassOver, RegisterFails, Loaded, tvars
  <2> QED
    BY <1>2, <2>1, <2>2
<1> QED
  BY <1>3, <1>4, <1>5, <1>6, <1>7, <1>8 DEF TableNext
-----------------------------------------------------------------------------
\* When everything was merged, the configuration has what the files give.
LEMMA AllMerged ==
  ASSUME StageInv, MergeInv, stage = "ready", ~rejected
  PROVE  /\ Given \subseteq Centers
         /\ \A t \in Topics : Pubers(Given, t) \subseteq Names /\ Subers(Given, t) \subseteq Names
         /\ \A t \in Topics, x \in Attrs :
              Offers(Given, t, x) <=> \E k \in DOMAIN config : config[k].topic = t /\ config[k].attr = x
         /\ \A t \in Topics, n \in Names :
              n \in Pubers(Given, t) <=> \E k \in DOMAIN config : config[k].topic = t /\ Has(config[k].pubers, n)
         /\ \A t \in Topics, n \in Names :
              n \in Subers(Given, t) <=> \E k \in DOMAIN config : config[k].topic = t /\ Has(config[k].subers, n)
<1>1. /\ file = <<>> /\ unread = <<>> /\ files \in Seq(Files) /\ config \in Seq(Centers)
  BY DEF StageInv, TableTypeOK
<1>2. \A i \in DOMAIN files : files[i] # Missing /\ files[i] \in Seq(Centers)
  <2>1. \A i \in DOMAIN files : files[i] # Missing
    BY <1>1 DEF MergeInv
  <2>2. \A i \in DOMAIN files : files[i] \in Files
    BY <1>1
  <2> QED
    BY <2>1, <2>2 DEF Files
<1>3. \A c : c \in Given <=> \E i \in DOMAIN files : Has(files[i], c)
  BY DEF Given, Has
<1>4. \A i \in DOMAIN files : \A c : Has(files[i], c) => c \in Centers
  BY <1>2 DEF Has
<1>5. Given = CentersOf(files) /\ Given \subseteq Centers
  BY <1>2, <1>3, <1>4 DEF CentersOf
<1>6. Held = {config[k] : k \in DOMAIN config}
  <2>1. CentersOf(unread) = {} /\ \A c : ~Has(file, c)
    BY <1>1 DEF CentersOf, Has
  <2>2. \A k \in DOMAIN config : config[k] \in Centers
    BY <1>1
  <2> QED
    BY <2>1, <2>2 DEF Held, Has
<1>7. SayTheSame(Given, Held)
  BY <1>5 DEF MergeInv
<1>8. \A t : \A n : n \in Pubers(Given, t) <=> NamesPuber(Given, t, n)
  BY DEF Pubers, NamesPuber, Has
<1>9. \A t : \A n : n \in Subers(Given, t) <=> NamesSuber(Given, t, n)
  BY DEF Subers, NamesSuber, Has
<1>10. \A c \in Given : \A n : Has(c.pubers, n) \/ Has(c.subers, n) => n \in Names
  <2>1. \A c \in Given : c.pubers \in Seq(Names) /\ c.subers \in Seq(Names)
    BY <1>5 DEF Centers
  <2> QED
    BY <2>1 DEF Has
<1>11. \A t \in Topics : Pubers(Given, t) \subseteq Names /\ Subers(Given, t) \subseteq Names
  BY <1>8, <1>9, <1>10 DEF NamesPuber, NamesSuber
<1>12. \A t \in Topics, x \in Attrs :
         Offers(Given, t, x) <=> \E k \in DOMAIN config : config[k].topic = t /\ config[k].attr = x
  BY <1>6, <1>7 DEF SayTheSame, Offers
<1>13. \A t \in Topics, n \in Names :
         n \in Pubers(Given, t) <=> \E k \in DOMAIN config : config[k].topic = t /\ Has(config[k].pubers, n)
  <2>1. \A t \in Topics, n \in Names : NamesPuber(Given, t, n) <=> NamesPuber(Held, t, n)
    BY <1>7 DEF SayTheSame
  <2>2. \A t, n : NamesPuber(Held, t, n) <=>
          \E k \in DOMAIN config : config[k].topic = t /\ Has(config[k].pubers, n)
    BY <1>6 DEF NamesPuber
  <2> QED
    BY <1>8, <2>1, <2>2
<1>14. \A t \in Topics, n \in Names :
         n \in Subers(Given, t) <=> \E k \in DOMAIN config : config[k].topic = t /\ Has(config[k].subers, n)
  <2>1. \A t \in Topics, n \in Names : NamesSuber(Given, t, n) <=> NamesSuber(Held, t, n)
    BY <1>7 DEF SayTheSame
  <2>2. \A t, n : NamesSuber(Held, t, n) <=>
          \E k \in DOMAIN config : config[k].topic = t /\ Has(config[k].subers, n)
    BY <1>6 DEF NamesSuber
  <2> QED
    BY <1>9, <2>1, <2>2
<1> QED
  BY <1>5, <1>11, <1>12, <1>13, <1>14

\* The table serves what the files give, no more and nobody twice.
LEMMA AllServed ==
  ASSUME StageInv, ChannelsInv, RegisterInv, MergeInv
  PROVE  TableServesConfig
<1> SUFFICES ASSUME stage = "ready", ~rejected
             PROVE  TableServesConfig
  BY DEF TableServesConfig
<1>1. /\ config \in Seq(Centers) /\ todo = {} /\ next = Len(channels) + 1
      /\ Len(channels) \in Nat /\ DOMAIN channels = 1 .. Len(channels)
  BY DEF StageInv, TableTypeOK, RegisterInv
<1>2. \A k \in DOMAIN config :
        /\ config[k] \in Centers /\ config[k].topic \in Topics /\ config[k].attr \in Attrs
        /\ config[k].pubers \in Seq(Names) /\ config[k].subers \in Seq(Names)
  <2>1. \A k \in DOMAIN config : config[k] \in Centers
    BY <1>1
  <2> QED
    BY <2>1 DEF Centers
<1>3. \A j \in DOMAIN channels : Known(channels[j].name)
  BY <1>1 DEF RegisterInv, RegisteredSoFar
<1>4. \A i \in DOMAIN table : \E j \in DOMAIN channels :
        table[i].name = channels[j].name /\ table[i].attr = channels[j].attr
  BY <1>1 DEF RegisterInv
<1>5. ASSUME NEW c \in Given, NEW p \in Pubers(Given, c.topic), NEW s \in Subers(Given, c.topic)
      PROVE  \E i \in DOMAIN table : table[i].name = Link(c, p, s) /\ table[i].attr = c.attr
  <2>1. c.topic \in Topics /\ c.attr \in Attrs /\ p \in Names /\ s \in Names
    BY AllMerged DEF Centers
  <2>2. PICK k \in DOMAIN config : config[k].topic = c.topic /\ config[k].attr = c.attr
    BY <2>1, AllMerged DEF Offers
  <2>3. PICK q \in DOMAIN config[k].pubers : config[k].pubers[q] = p
    <3>1. PICK m \in DOMAIN config : config[m].topic = c.topic /\ Has(config[m].pubers, p)
      BY <2>1, AllMerged
    <3> QED
      BY <2>2, <3>1 DEF MergeInv, Has
  <2>4. PICK r \in DOMAIN config[k].subers : config[k].subers[r] = s
    <3>1. PICK m \in DOMAIN config : config[m].topic = c.topic /\ Has(config[m].subers, s)
      BY <2>1, AllMerged
    <3> QED
      BY <2>2, <3>1 DEF MergeInv, Has
  <2>5. PICK ch : ch = Channel(config[k], p, s)
    OBVIOUS
  <2>6. ch \in ChannelRecs /\ Asks(k, ch) /\ ch.name = Link(c, p, s)
    BY <1>2, <2>1, <2>2, <2>3, <2>4, <2>5 DEF Asks, Channel, Link, ChannelRecs, Links
  <2>7. PICK j \in DOMAIN channels : channels[j] = ch
    BY <1>1, <2>6 DEF ChannelsInv
  <2>8. PICK i \in DOMAIN table : table[i].name = Link(c, p, s)
    BY <1>3, <2>6, <2>7 DEF Known
  <2>9. PICK l \in DOMAIN channels : table[i].name = channels[l].name /\ table[i].attr = channels[l].attr
    BY <1>4
  <2>10. PICK m \in DOMAIN config : Asks(m, channels[l])
    BY DEF ChannelsInv
  <2>11. channels[l].name.topic = config[m].topic /\ channels[l].attr = config[m].attr
    BY <2>10 DEF Asks, Channel, Link
  <2>12. channels[l].name.topic = c.topic
    BY <2>8, <2>9 DEF Link
  <2>13. m = k
    BY <2>2, <2>11, <2>12 DEF MergeInv
  <2> QED
    BY <2>2, <2>8, <2>9, <2>11, <2>13
<1>6. ASSUME NEW i \in DOMAIN table
      PROVE  \E c \in Given : \E p \in Pubers(Given, c.topic), s \in Subers(Given, c.topic) :
               table[i].name = Link(c, p, s)
  <2>1. PICK j \in DOMAIN channels : table[i].name = channels[j].name
    BY <1>4
  <2>2. PICK k \in DOMAIN config : Asks(k, channels[j])
    BY DEF ChannelsInv
  <2>3. PICK q \in DOMAIN config[k].pubers, r \in DOMAIN config[k].subers :
          channels[j] = Channel(config[k], config[k].pubers[q], config[k].subers[r])
    BY <2>2 DEF Asks
  <2>4. PICK p, s, t, x : /\ p = config[k].pubers[q] /\ s = config[k].subers[r]
                          /\ t = config[k].topic /\ x = config[k].attr
    OBVIOUS
  <2>5. /\ p \in Names /\ s \in Names /\ t \in Topics /\ x \in Attrs
        /\ Has(config[k].pubers, p) /\ Has(config[k].subers, s)
    BY <1>2, <2>4 DEF Has
  <2>6. p \in Pubers(Given, t) /\ s \in Subers(Given, t) /\ Offers(Given, t, x)
    BY <2>4, <2>5, AllMerged
  <2>7. PICK c \in Given : c.topic = t
    BY <2>6 DEF Offers
  <2>8. table[i].name = Link(c, p, s)
    BY <2>1, <2>3, <2>4, <2>7 DEF Channel, Link
  <2> QED
    BY <2>6, <2>7, <2>8
<1> QED
  BY <1>5, <1>6 DEF TableServesConfig, RegisterInv
===============================================================================
