---------------------------- MODULE MCServerParts ----------------------------
(* Small instances of the seven parts of ServerParts, all in one run.         *)
EXTENDS ServerParts, TLC

\* the streams, players, hosts and settings of the pipeline
Source(codec, depth, transfer, primaries, width) ==
    [codec |-> codec, depth |-> depth, transfer |-> transfer, primaries |-> primaries, width |-> width]
MCSources ==
    {Source("h264", 8, "sdr", "bt709", w) : w \in 1..2} \cup {Source("h264", 10, "sdr", "bt709", 1)}
    \cup {Source("hevc", d, "sdr", "bt709", 1) : d \in {8, 10}}
    \cup {Source("hevc", 10, "pq", "bt2020", w) : w \in 1..2}
    \cup {Source("hevc", 10, "sdr", "bt2020", 1), Source("av1", 10, "pq", "bt709", 1),
          Source("av1", 8, "sdr", "bt709", 2)}
MCNodes == <<"D128", "D129">>
MCHosts ==
    {h \in [nodes : {{}, {"D129"}, {"D128", "D129"}}, env : {Nothing, "D129"}, nvidia : BOOLEAN,
            encoders : {{"libx264"}, {"h264_vaapi"}, {"h264_vaapi", "libx264"}},
            decodes : {{<<"h264", 8>>, <<"hevc", 8>>}, {"h264", "hevc", "av1"} \X {8, 10}}] :
       h.nvidia => h.nodes = {}}
MCConfigs ==
    [mode : {"auto"}, direct : {{"h264"}, {"h264", "hevc"}}, device : {Nothing, "D128"}]
    \cup [mode : {"off"}, direct : {{"h264"}}, device : {Nothing}]

MCPlayers == [codecs : {{"h264"}, {"h264", "hevc", "av1"}}, maxWidth : 1..2]
MCAccelerators == {{}, {"device", "encode", "decode10"}}
MCProfileIds == <<"vaapi", "vaapi-full">>

\* What there are two or three of is interchangeable.
Sym == Permutations(Clients) \cup Permutations(Ids)
=============================================================================
