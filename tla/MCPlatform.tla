--------------------------- MODULE MCPlatform --------------------------------
(* The instance of Platform for TLC. *)
EXTENDS Platform

CONSTANTS t1, t2, a, b, c

\* Startup: the second file may be missing or add to, agree with or contradict
\* the first one, which gives up to two topics.
Center(t, attr, ps, ss) == [topic |-> t, attr |-> attr, pubers |-> ps, subers |-> ss]

\* A small queue, a large one, one that cannot be built, one whose size is 0 in a
\* word, and one for which the room that is left seems to be enough in a word.
MCPriority == <<1, 2, 3, 2, 2>>
MCSize == <<1, 7, 2, 32, 31>>

FirstCenters ==
  {Center(d[1], d[2], l[1], l[2]) : d \in ({t1} \X (1 .. 3)) \cup ({t2} \X Attrs),
     l \in {<<<<a>>, <<c, c>>>>, <<<<a, b>>, <<b, c>>>>, <<<<a>>, <<b>>>>}}
SecondCenters ==
  {Center(t1, x, l[1], l[2]) : x \in 1 .. 2, l \in {<<<<b>>, <<>>>>, <<<<a, b>>, <<c>>>>}}

FilesOf(centers, n) == UNION {[1 .. k -> centers] : k \in 0 .. n}

MCConfigurations ==
  {<<f, g>> : f \in FilesOf(FirstCenters, 2), g \in FilesOf(SecondCenters, 1) \cup {Missing}}

\* Shared memory: a publishes t1 to c, which is listed twice, and to b; b publishes
\* t2 to c, from its application and from its callback for t1, or else from its
\* application again and again.
Chan(t, p, s) == [topic |-> t, puber |-> p, suber |-> s]
MCChannels == <<Chan(t1, a, c), Chan(t1, a, c), Chan(t1, a, b), Chan(t2, b, c)>>

Msg(id, by, thread, t) == [id |-> id, by |-> by, thread |-> thread, topic |-> t]
FromA == Msg(1, a, "app", t1)
FromB == Msg(2, b, "app", t2)
FromCallback == Msg(3, b, "rx", t2)
Often == Msg(4, b, "app", t2)

MCMessages == {FromA, FromB, FromCallback, Often}
MCRepeated == {Often}
MCWorkloads == {{FromA, FromB, FromCallback}, {FromA, Often}}

\* Crpc: a service that posts, and deletes its client, and its callbacks.
Item(id, by) == [id |-> id, by |-> by]
MCPosts == {Item(1, "app"), Item(2, "callback")}
=============================================================================
