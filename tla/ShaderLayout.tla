---------------------------- MODULE ShaderLayout ----------------------------
(***************************************************************************)
(* The code of a shader library is laid out in a file by three parties.    *)
(* A producer names the shaders in the order of the file: first those      *)
(* several maps use, then for each map those only it uses, between two     *)
(* marks, and last those no map uses.  Workers compress them.  The         *)
(* consumer writes what the workers return, in the order of the producer,  *)
(* and notes where.  The regions become the preload entries of the maps.   *)
(***************************************************************************)
EXTENDS Integers, SequencesExt

CONSTANTS Capacity,     \* messages the channel holds (ten in the code)
          InFlight      \* messages the workers hold at a time

ASSUME RoomForOne == Capacity \in Nat \ {0} /\ InFlight \in Nat \ {0}

VARIABLES extracted,      \* the shaders' sizes, the shaders of each map, if they are compressed
          sent,         \* messages the producer has sent
          producer,     \* "running", "done", "stopped" by an error or "panicked"
          channel,
          receiving,    \* the receiving end of the channel exists
          inflight,     \* what the workers hold, in the order they got it
          consumer,     \* "running", "ended" or "failed"
          start,        \* where the current map starts
          file,         \* the bytes written
          regions,      \* <<offset, size, unique>> of each shader
          mapRegions,   \* <<offset, size>> of each map
          preload,      \* the preload entries of each map
          result        \* what the caller gets

layoutVars == <<extracted, sent, producer, channel, receiving, inflight, consumer, start, file,
          regions, mapRegions, preload, result>>

ShaderIds == DOMAIN extracted.sizes
MapIds == DOMAIN extracted.maps
References(k) ==
    UNION {{<<m, i>> : i \in {i \in DOMAIN extracted.maps[m] : extracted.maps[m][i] = k}} : m \in MapIds}

Compress(k, unique) == [kind |-> "compress", of |-> k, unique |-> unique]
Mark(kind, m) == [kind |-> kind, of |-> m, unique |-> FALSE]

\* The elements of a list that are in a set, in order.
Among(list, S) == FlattenSeq([i \in DOMAIN list |-> IF list[i] \in S THEN <<list[i]>> ELSE <<>>])

Shared == {k \in ShaderIds : Cardinality(References(k)) > 1}
Unique == {k \in ShaderIds : Cardinality(References(k)) = 1}
Detached == {k \in ShaderIds : References(k) = {}}

\* What the producer sends, in order.
Codes(list, unique) == [i \in DOMAIN list |-> Compress(list[i], unique)]
Section(m) ==
    <<Mark("start", m)>> \o Codes(Among(extracted.maps[m], Unique), TRUE) \o <<Mark("end", m)>>
Plan ==
    LET all == [k \in ShaderIds |-> k]
    IN  Codes(Among(all, Shared), FALSE)
        \o FlattenSeq([m \in MapIds |-> Section(m)])
        \o Codes(Among(all, Detached), FALSE)

------------------------------------------------------------------------------
\* The producer.

Send ==
    /\ producer = "running" /\ receiving /\ sent < Len(Plan) /\ Len(channel) < Capacity
    /\ channel' = Append(channel, Plan[sent + 1])
    /\ sent' = sent + 1
    /\ UNCHANGED <<extracted, producer, receiving, inflight, consumer, start, file, regions,
                   mapRegions, preload, result>>

\* A variant of SendFails that tries again.
SendFailsRetrying ==
    /\ producer = "running" /\ ~receiving /\ sent < Len(Plan)
    /\ UNCHANGED layoutVars

\* Nobody receives any more.  A shader that cannot be sent is an error, a mark
\* that cannot be sent a panic.
SendFails ==
    /\ producer = "running" /\ ~receiving /\ sent < Len(Plan)
    /\ producer' = IF Plan[sent + 1].kind = "compress" THEN "stopped" ELSE "panicked"
    /\ UNCHANGED <<extracted, sent, channel, receiving, inflight, consumer, start, file, regions,
                   mapRegions, preload, result>>

Close ==
    /\ producer = "running" /\ sent = Len(Plan)
    /\ producer' = "done"
    /\ UNCHANGED <<extracted, sent, channel, receiving, inflight, consumer, start, file, regions,
                   mapRegions, preload, result>>

------------------------------------------------------------------------------
\* The workers.

\* A size of -2: not yet worked on; of -1: the compression failed.
TakeUp ==
    /\ consumer = "running" /\ channel # <<>> /\ Len(inflight) < InFlight
    /\ inflight' = Append(inflight, [message |-> Head(channel), size |-> -2])
    /\ channel' = Tail(channel)
    /\ UNCHANGED <<extracted, sent, producer, receiving, consumer, start, file, regions,
                   mapRegions, preload, result>>

\* Compressed data is kept if it is smaller.
CompressOne(i) ==
    /\ inflight[i].size = -2
    /\ LET message == inflight[i].message
           size == extracted.sizes[message.of]
           sizes == IF message.kind # "compress" THEN {0}
                    ELSE IF extracted.compress THEN {-1, size} \cup (1 .. size - 1) ELSE {size}
       IN  \E s \in sizes : inflight' = [inflight EXCEPT ![i].size = s]
    /\ UNCHANGED <<extracted, sent, producer, channel, receiving, consumer, start, file, regions,
                   mapRegions, preload, result>>

------------------------------------------------------------------------------
\* The consumer.

\* Writes the code of a shader where the file ends, or notes where a map starts
\* or how long it is.
Consume(message, size) ==
    CASE message.kind = "start" ->
            start' = Len(file) /\ UNCHANGED <<file, regions, mapRegions>>
      [] message.kind = "end" ->
            /\ mapRegions' = [mapRegions EXCEPT ![message.of] = <<start, Len(file) - start>>]
            /\ UNCHANGED <<start, file, regions>>
      [] message.kind = "compress" ->
            /\ regions' = [regions EXCEPT ![message.of] = <<Len(file), size, message.unique>>]
            /\ file' = file \o [b \in 1 .. size |-> message.of]
            /\ UNCHANGED <<start, mapRegions>>

\* A variant of Emit that takes what is ready first.
EmitUnordered ==
    /\ consumer = "running"
    /\ \E i \in DOMAIN inflight :
          /\ inflight[i].size # -2
          /\ IF inflight[i].size = -1
             THEN /\ consumer' = "failed" /\ receiving' = FALSE /\ channel' = <<>> /\ inflight' = <<>>
                  /\ UNCHANGED <<start, file, regions, mapRegions>>
             ELSE /\ Consume(inflight[i].message, inflight[i].size)
                  /\ inflight' = RemoveAt(inflight, i)
                  /\ UNCHANGED <<channel, receiving, consumer>>
    /\ UNCHANGED <<extracted, sent, producer, preload, result>>

\* The first error ends the iteration, and with it the receiving end.
Emit ==
    /\ consumer = "running" /\ inflight # <<>> /\ Head(inflight).size # -2
    /\ IF Head(inflight).size = -1
       THEN /\ consumer' = "failed" /\ receiving' = FALSE /\ channel' = <<>> /\ inflight' = <<>>
            /\ UNCHANGED <<start, file, regions, mapRegions>>
       ELSE /\ Consume(Head(inflight).message, Head(inflight).size)
            /\ inflight' = Tail(inflight)
            /\ UNCHANGED <<channel, receiving, consumer>>
    /\ UNCHANGED <<extracted, sent, producer, preload, result>>

Finish ==
    /\ consumer = "running" /\ producer = "done" /\ channel = <<>> /\ inflight = <<>>
    /\ consumer' = "ended" /\ receiving' = FALSE
    /\ UNCHANGED <<extracted, sent, producer, channel, inflight, start, file, regions,
                   mapRegions, preload, result>>

------------------------------------------------------------------------------
\* rebuild_shader_library_from_io_store: the preload entries of a map.
PreloadOf(m) ==
    LET others == Among(extracted.maps[m], {k \in ShaderIds : ~regions[k][3]})
    IN  (IF mapRegions[m][2] > 0 THEN <<mapRegions[m]>> ELSE <<>>)
        \o [i \in DOMAIN others |-> <<regions[others[i]][1], regions[others[i]][2]>>]

\* A panic of the producer goes before the consumer's error; the error the
\* producer returns is dropped.
Join ==
    /\ producer # "running" /\ consumer # "running" /\ result = "none"
    /\ result' = CASE producer = "panicked" -> "panic"
                   [] producer # "panicked" /\ consumer = "failed" -> "error"
                   [] producer # "panicked" /\ consumer # "failed"
                      /\ \E k \in ShaderIds : regions[k][1] < 0 -> "missing"
                   [] OTHER -> "ok"
    /\ preload' = IF result' = "ok" THEN [m \in MapIds |-> PreloadOf(m)] ELSE preload
    /\ UNCHANGED <<extracted, sent, producer, channel, receiving, inflight, consumer, start, file,
                   regions, mapRegions>>

Returned == result # "none" /\ UNCHANGED layoutVars

------------------------------------------------------------------------------

Nowhere == [sizes |-> <<>>, maps |-> <<>>, compress |-> FALSE]

NoLayout ==
    /\ extracted = Nowhere /\ sent = 0 /\ producer = "idle" /\ channel = <<>>
    /\ receiving = FALSE /\ inflight = <<>> /\ consumer = "idle" /\ start = 0 /\ file = <<>>
    /\ regions = <<>> /\ mapRegions = <<>> /\ preload = <<>> /\ result = "idle"

\* The maps list shaders that are there.
LibraryOK ==
    /\ extracted.sizes \in Seq(Nat)
    /\ extracted.maps \in Seq(Seq(ShaderIds))

\* rebuild_shader_library_from_io_store begins, with the library it is given.
Begin ==
    /\ sent' = 0 /\ producer' = "running" /\ channel' = <<>> /\ receiving' = TRUE
    /\ inflight' = <<>> /\ consumer' = "running" /\ start' = 0 /\ file' = <<>>
    /\ regions' = [k \in DOMAIN extracted'.sizes |-> <<-1, 0, FALSE>>]
    /\ mapRegions' = [m \in DOMAIN extracted'.maps |-> <<-1, 0>>]
    /\ preload' = <<>> /\ result' = "none"

\* It may begin with any library.
BeginAny == result = "idle" /\ Begin /\ LibraryOK'

Produce == Send \/ SendFails \/ Close
SomeWork == \E i \in DOMAIN inflight : CompressOne(i)

LayoutNext == Produce \/ TakeUp \/ SomeWork \/ Emit \/ Finish \/ Join \/ Returned

LayoutSpec ==
    NoLayout /\ [][BeginAny \/ (result # "idle" /\ LayoutNext)]_layoutVars

\* Each thread goes on as long as it can.
LayoutFairness ==
    /\ WF_layoutVars(Produce) /\ WF_layoutVars(SomeWork)
    /\ WF_layoutVars(TakeUp) /\ WF_layoutVars(Emit) /\ WF_layoutVars(Finish) /\ WF_layoutVars(Join)

------------------------------------------------------------------------------
\* The channel and the workers hold no more than they may; what is noted lies
\* within the file.
WithinLimits ==
    /\ producer \in {"running", "done", "stopped", "panicked"}
    /\ consumer \in {"running", "ended", "failed"}
    /\ result \in {"none", "ok", "error", "missing", "panic"}
    /\ Len(channel) <= Capacity /\ Len(inflight) <= InFlight
    /\ start \in 0 .. Len(file)

Bytes(region) == region[1] + 1 .. region[1] + region[2]

\* The regions of the shaders written so far tile the file: no two overlap, and
\* each holds the code of its shader.
RegionsTile ==
    LET written == {k \in ShaderIds : regions[k][1] >= 0}
    IN  /\ UNION {Bytes(regions[k]) : k \in written} = DOMAIN file
        /\ \A k \in written : \A b \in Bytes(regions[k]) : b \in DOMAIN file /\ file[b] = k

\* Loading the preload entries of a map loads the code of all its shaders and of
\* no other, whatever the workers finished first.
PreloadCoversMap ==
    result = "ok" =>
        \A m \in MapIds :
            UNION {Bytes(preload[m][i]) : i \in DOMAIN preload[m]}
                = {b \in DOMAIN file : file[b] \in ToSet(extracted.maps[m])}

\* A library is returned if and only if every shader was compressed and written.
\* Otherwise the caller gets the error or, if the producer met the closed channel
\* at a mark, a panic; that a shader was not written is never what it gets.
OkMeansComplete ==
    /\ result = "ok" => consumer = "ended" /\ \A k \in ShaderIds : regions[k][1] >= 0
    /\ result \in {"error", "panic"} => consumer = "failed"
    /\ result # "missing"

\* In whatever order producer, workers and consumer run, the regions tile the file
\* and the preload entries of a map cover its code and no other; a library is
\* returned only whole, and an error never as something else.
LayoutSound ==
    result # "idle" =>
        LibraryOK /\ WithinLimits /\ RegionsTile /\ PreloadCoversMap /\ OkMeansComplete

=============================================================================
