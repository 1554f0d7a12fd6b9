----------------------------- MODULE ChannelTable -----------------------------
(***************************************************************************)
(* How the main process turns configuration files into the endpoint table  *)
(* in shared memory: json_config_merge_files and json_config_validate,     *)
(* config_pub_sub, pubsub_cal_mem and pubsub_init (pubsub.c, shm_comm.c,   *)
(* shm_endpoint.c).  The other processes read the same files and find each *)
(* channel in the table by its name.                                       *)
(*                                                                         *)
(* It is one thread; a step is one turn of one of its loops.               *)
(*                                                                         *)
(* An attr stands for what a topic says of its queues: its priority, how   *)
(* large and how many the slots are.  Some attrs json_config_validate      *)
(* accepts and shm_queue_init does not: one slot, or slots that with the   *)
(* header exceed 1 MB.  The size of a queue is computed in words of 32     *)
(* bits, into which 4096 slots of 1 MB do not fit.  Names are taken to fit *)
(* their buffers.                                                          *)
(***************************************************************************)
EXTENDS Naturals, Sequences, FiniteSets

CONSTANTS
  Topics,         \* the topics, and ...
  Names,          \* ... the publishers and subscribers that files can name
  Attrs,          \* what a topic can say of its queues, ...
  Priority,       \* ... its priority, ...
  Size,           \* ... the bytes that the slots of such a queue take, ...
  Buildable,      \* ... and the attrs whose queues can be built
  Configurations, \* bound: the lists of files that are considered
  MaxChannels,    \* MAX_NODE_NUM: channels in a configuration
  MaxEndpoints,   \* MAX_ENDPOINTS: endpoints in the table
  Word,           \* how many values a uint32_t has
  TableSize,      \* sizeof(shm_endpoint_table_t)
  Missing         \* a file that cannot be read

\* A file is a sequence of centers: a topic with its publishers and subscribers.
Centers == [topic : Topics, attr : Attrs, pubers : Seq(Names), subers : Seq(Names)]
Files == {Missing} \cup Seq(Centers)

ASSUME TableAssumption ==
  /\ Priority \in [Attrs -> Nat]
  /\ Size \in [Attrs -> Nat \ {0}]
  /\ Buildable \subseteq Attrs
  /\ {MaxChannels, MaxEndpoints, Word, TableSize} \subseteq Nat \ {0}
  /\ Configurations \subseteq Seq(Files)

VARIABLES
  files,     \* the configuration files
  unread,    \* the files that are still to be read
  file,      \* what is still to be merged of the one that was read
  stage,     \* "merge", "order", "measure", "register", "ready"
  config,    \* pcfg->pcfg_json_obj.center
  rejected,  \* whether pub_init_config_files or shm_comm_load_config has failed
  todo,      \* the topics of the configuration that have no channels yet
  channels,  \* pcfg->shm_comm_config.channels
  next,      \* the channel that is measured, or registered, next
  memory,    \* the size of the shared memory, ...
  offset,    \* ... and how much of it the table and its queues have been given
  table      \* the endpoint table: names, and where their queues are

tvars == <<files, unread, file, stage, config, rejected, todo, channels, next, memory,
           offset, table>>

Links == [topic : Topics, puber : Names, suber : Names]

TableTypeOK ==
  /\ files \in Seq(Files)
  /\ unread \in Seq(Files)
  /\ file \in Seq(Centers)
  /\ stage \in {"merge", "order", "measure", "register", "ready"}
  /\ config \in Seq(Centers)
  /\ rejected \in BOOLEAN
  /\ todo \subseteq DOMAIN config
  /\ channels \in Seq([name : Links, attr : Attrs]) /\ Len(channels) <= MaxChannels
  /\ next \in 1 .. MaxChannels + 1
  /\ {memory, offset} \subseteq Nat
  /\ table \in Seq([name : Links, offset : Nat, attr : Buildable])
  /\ Len(table) <= MaxEndpoints

TableInit(fs) ==
  /\ files = fs
  /\ unread = fs
  /\ file = <<>>
  /\ stage = "merge"
  /\ config = <<>>
  /\ rejected = FALSE
  /\ todo = {}
  /\ channels = <<>>
  /\ next = 1
  /\ memory = TableSize
  /\ offset = TableSize
  /\ table = <<>>

placing == <<todo, channels, next, memory, offset, table>>

-----------------------------------------------------------------------------
\* A file that cannot be read, or that does not agree with those before it,
\* ends json_config_merge_files, and nothing of the configuration is left.
GiveUp ==
  /\ config' = <<>>
  /\ rejected' = TRUE
  /\ unread' = <<>>
  /\ file' = <<>>
  /\ UNCHANGED <<files, stage, placing>>

\* json_config_from_file: the next file.
ReadFile ==
  /\ stage = "merge"
  /\ file = <<>>
  /\ unread # <<>>
  /\ Head(unread) # Missing
  /\ file' = Head(unread)
  /\ unread' = Tail(unread)
  /\ UNCHANGED <<files, stage, config, rejected, placing>>

FileMissing ==
  /\ stage = "merge"
  /\ file = <<>>
  /\ unread # <<>>
  /\ Head(unread) = Missing
  /\ GiveUp

\* json_config_merge: the next center of the file, and the entry it belongs to.
Incoming == Head(file)
IsEntry(k) == k \in DOMAIN config /\ config[k].topic = Incoming.topic

Merging == stage = "merge" /\ file # <<>>
MergeLeaves == UNCHANGED <<files, unread, stage, rejected, placing>>

\* A topic that is not there yet is copied as it is.
CopyCenter ==
  /\ Merging
  /\ \A k \in DOMAIN config : ~IsEntry(k)
  /\ config' = Append(config, Incoming)
  /\ file' = Tail(file)
  /\ MergeLeaves

MergeConflict ==
  /\ Merging
  /\ \E k \in DOMAIN config : IsEntry(k) /\ config[k].attr # Incoming.attr
  /\ GiveUp

\* json_config_center_merge: first the subscribers, then the publishers that
\* the entry has not yet are appended to it, one after the other.
MergesWith(k) == Merging /\ IsEntry(k) /\ config[k].attr = Incoming.attr

Added(list, x) == IF \E i \in DOMAIN list : list[i] = x THEN list ELSE Append(list, x)

MergeSuber(k) ==
  /\ MergesWith(k)
  /\ Incoming.subers # <<>>
  /\ config' = [config EXCEPT ![k].subers = Added(@, Head(Incoming.subers))]
  /\ file' = [file EXCEPT ![1].subers = Tail(@)]
  /\ MergeLeaves

WithPuber_Kept(entry, x) == entry
WithPuber(entry, x) == [entry EXCEPT !.pubers = Added(@, x)]

MergePuber(k) ==
  /\ MergesWith(k)
  /\ Incoming.subers = <<>> /\ Incoming.pubers # <<>>
  /\ config' = [config EXCEPT ![k] = WithPuber(@, Head(Incoming.pubers))]
  /\ file' = [file EXCEPT ![1].pubers = Tail(@)]
  /\ MergeLeaves

CenterMerged(k) ==
  /\ MergesWith(k)
  /\ Incoming.subers = <<>> /\ Incoming.pubers = <<>>
  /\ file' = Tail(file)
  /\ UNCHANGED config
  /\ MergeLeaves

\* json_config_validate: at least one topic, each with both sides.
Valid(cfg) == cfg # <<>> /\ \A k \in DOMAIN cfg : cfg[k].pubers # <<>> /\ cfg[k].subers # <<>>

\* What was merged is looked at.  main goes on if it is rejected, without
\* any channels.
Validate ==
  /\ stage = "merge"
  /\ file = <<>> /\ unread = <<>>
  /\ rejected' = (rejected \/ ~Valid(config))
  /\ todo' = IF rejected' THEN {} ELSE DOMAIN config
  /\ stage' = "order"
  /\ UNCHANGED <<files, unread, file, config, channels, next, memory, offset, table>>

-----------------------------------------------------------------------------
Link(c, p, s) == [topic |-> c.topic, puber |-> p, suber |-> s]
Channel(c, p, s) == [name |-> Link(c, p, s), attr |-> c.attr]

\* The channels of a topic: for each subscriber, one from each publisher.
ChannelsOf(c) ==
  LET n == Len(c.pubers) IN
  [k \in 1 .. Len(c.subers) * n |->
     Channel(c, c.pubers[((k - 1) % n) + 1], c.subers[((k - 1) \div n) + 1])]

FirstOf(seq, n) == SubSeq(seq, 1, IF Len(seq) < n THEN Len(seq) ELSE n)

Channels_Unlimited(chs) == chs
KeptChannels(chs) == FirstOf(chs, MaxChannels)

\* cmp_vec_topic.
AtLeast(x, y) == Priority[x] >= Priority[y]

ByPriority_LowFirst(k) == \A j \in todo : AtLeast(config[j].attr, config[k].attr)
ByPriority(k) == \A j \in todo : AtLeast(config[k].attr, config[j].attr)

\* config_pub_sub: the topics by priority.  The first channel that there is no
\* room for ends it.
AddTopic(k) ==
  /\ stage = "order"
  /\ k \in todo
  /\ ByPriority(k)
  /\ LET all == channels \o ChannelsOf(config[k]) IN
     /\ channels' = KeptChannels(all)
     /\ rejected' = (rejected \/ Len(all) > MaxChannels)
     /\ todo' = IF Len(all) > MaxChannels THEN {} ELSE todo \ {k}
  /\ UNCHANGED <<files, unread, file, stage, config, next, memory, offset, table>>

TopicsAdded ==
  /\ stage = "order"
  /\ todo = {}
  /\ stage' = "measure"
  /\ UNCHANGED <<files, unread, file, config, rejected, placing>>

\* data_size * size in a uint32_t.
Need(ch) == Size[ch.attr] % Word

\* shm_comm_cal_mem: what the channels take, in an int.
Measure ==
  /\ stage = "measure"
  /\ next <= Len(channels)
  /\ memory' = (memory + Need(channels[next])) % Word
  /\ next' = next + 1
  /\ UNCHANGED <<files, unread, file, stage, config, rejected, todo, channels, offset, table>>

\* That int is positive and the table fits; shm_comm_init_main prepares it.
HoldsTable == memory \in TableSize .. (Word \div 2) - 1

Measured ==
  /\ stage = "measure"
  /\ next > Len(channels)
  /\ HoldsTable
  /\ next' = 1
  /\ stage' = "register"
  /\ UNCHANGED <<files, unread, file, config, rejected, todo, channels, memory, offset, table>>

\* Else pubsub_init fails, or there is no such memory to begin with.
NoMemory ==
  /\ stage = "measure"
  /\ next > Len(channels)
  /\ ~HoldsTable
  /\ rejected' = TRUE
  /\ stage' = "ready"
  /\ UNCHANGED <<files, unread, file, config, placing>>

-----------------------------------------------------------------------------
Known(name) == \E i \in DOMAIN table : table[i].name = name

\* shm_endpoint_register_base looks for room first, then for the name.
HasRoom(ch) == (offset + Need(ch)) % Word <= memory /\ Len(table) < MaxEndpoints

QueueInits_AnyOffset(ch) == ch.attr \in Buildable

\* shm_queue_init; it also looks whether the end of the queue fits a word.
QueueInits(ch) == ch.attr \in Buildable /\ offset + Need(ch) < Word

CanBuild(ch) == HasRoom(ch) /\ (Known(ch.name) \/ QueueInits(ch))

Endpoint(ch) == [name |-> ch.name, offset |-> offset, attr |-> ch.attr]

Registering == stage = "register" /\ next <= Len(channels)

\* The next channel of shm_comm_load_config; it passes over a known name, ...
RegisterEndpoint ==
  /\ Registering
  /\ CanBuild(channels[next])
  /\ ~Known(channels[next].name)
  /\ table' = Append(table, Endpoint(channels[next]))
  /\ offset' = offset + Need(channels[next])
  /\ next' = next + 1
  /\ UNCHANGED <<files, unread, file, stage, config, rejected, todo, channels, memory>>

PassOver ==
  /\ Registering
  /\ CanBuild(channels[next])
  /\ Known(channels[next].name)
  /\ next' = next + 1
  /\ UNCHANGED <<files, unread, file, stage, config, rejected, todo, channels, memory,
                 offset, table>>

\* ... and any other failure ends it.
RegisterFails ==
  /\ Registering
  /\ ~CanBuild(channels[next])
  /\ rejected' = TRUE
  /\ stage' = "ready"
  /\ UNCHANGED <<files, unread, file, config, placing>>

Loaded ==
  /\ stage = "register"
  /\ next > Len(channels)
  /\ stage' = "ready"
  /\ UNCHANGED <<files, unread, file, config, rejected, placing>>

TableNext ==
  \/ ReadFile \/ FileMissing
  \/ CopyCenter \/ MergeConflict
  \/ \E k \in DOMAIN config : MergeSuber(k) \/ MergePuber(k) \/ CenterMerged(k)
  \/ Validate
  \/ \E k \in todo : AddTopic(k)
  \/ TopicsAdded \/ Measure \/ Measured \/ NoMemory
  \/ RegisterEndpoint \/ PassOver \/ RegisterFails \/ Loaded

-----------------------------------------------------------------------------
\* The centers that the files give, and whom they name for a topic.
Given == UNION {{files[i][j] : j \in DOMAIN files[i]} : i \in DOMAIN files}

Pubers(cs, t) == UNION {{c.pubers[i] : i \in DOMAIN c.pubers} : c \in {d \in cs : d.topic = t}}
Subers(cs, t) == UNION {{c.subers[i] : i \in DOMAIN c.subers} : c \in {d \in cs : d.topic = t}}

\* A configuration nothing was wrong with is served completely: for each topic
\* there is exactly one endpoint from every publisher to every subscriber that
\* any of the files names, with the queue its topic asked for, and no other.
\* Publishers and subscribers find each other through these names only.
TableServesConfig ==
  stage = "ready" /\ ~rejected =>
    /\ \A c \in Given : \A p \in Pubers(Given, c.topic), s \in Subers(Given, c.topic) :
         \E i \in DOMAIN table : table[i].name = Link(c, p, s) /\ table[i].attr = c.attr
    /\ \A i \in DOMAIN table : \E c \in Given :
         \E p \in Pubers(Given, c.topic), s \in Subers(Given, c.topic) :
           table[i].name = Link(c, p, s)
    /\ \A i, j \in DOMAIN table : table[i].name = table[j].name => i = j

\* Whatever went wrong, a queue whose size a word can hold keeps to a place of its
\* own, before that of every later one and within the memory: its writer reaches
\* into no other queue, also when sizes that wrapped were measured and registered
\* before it.  (One whose size wraps gets less room than its slots take.)
QueuesApart ==
  \A i \in DOMAIN table : Size[table[i].attr] < Word =>
    LET end == table[i].offset + Size[table[i].attr]
    IN  end <= memory /\ \A j \in DOMAIN table : i < j => end <= table[j].offset

\* When the channels or the endpoints run out, or a queue cannot be built, the
\* topics of low priority pay: whoever is left out has no higher priority than
\* anyone who is served.
LowPriorityPays ==
  stage = "ready" =>
    \A k \in DOMAIN config :
      \A p \in DOMAIN config[k].pubers, s \in DOMAIN config[k].subers :
        ~Known(Link(config[k], config[k].pubers[p], config[k].subers[s])) =>
          \A i \in DOMAIN table : AtLeast(table[i].attr, config[k].attr)
===============================================================================
