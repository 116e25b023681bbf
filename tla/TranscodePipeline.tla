-------------------------- MODULE TranscodePipeline --------------------------
(****************************************************************************)
(* The command that encodes what a player asked for: the probe, the decision  *)
(* to copy or to transcode (transcode/probe.py, fingerprint.py), the command  *)
(* the converter builds for the hardware found at startup (profiler.py,       *)
(* converter.build_hls_cmd), what the ffmpeg wrapper makes of it              *)
(* (docker/ffmpeg_wrapper.py), and what WebAdmin reads from the wrapper's log *)
(* and from the process (webadmin/transcoding_policy_parser.py,               *)
(* transcoding_config.py).  A command has the options before its input and    *)
(* those after it, each a map of names to words: a word is a codec, a device, *)
(* a filter; -c:v and -c:a are vcodec and acodec.  Explicit profiles are left *)
(* out: app.py runs the converter with "auto" only, as the wrapper's main does.*)
(****************************************************************************)
EXTENDS Naturals, Sequences, SequencesExt

CONSTANTS
    Sources,        \* streams: codec, bit depth, transfer, primaries, width
    Clients,        \* players: the codecs they declare, their greatest width
    Hosts,          \* nodes, VAAPI_DEVICE, NVIDIA, encoders, what the GPU decodes
    Configs,        \* admin-settings.json, as the wrapper reads it
    Nodes,          \* render nodes, in the order of their names
    DefaultNode,    \* VAAPI_DEVICE_DEFAULT of the wrapper
    Nothing

VARIABLES
    host,
    config,
    backend,        \* Converter.backend, detected at startup
    lost,           \* history: a device went away after startup
    job             \* the one HLS job followed: source, what ffprobe told of it, client,
                    \*   commands, log

pipeVars == <<host, config, backend, lost, job>>

NoJob == [pc |-> "none", source |-> Nothing, seen |-> Nothing, client |-> Nothing, action |-> Nothing,
          built |-> Nothing, run |-> Nothing, log |-> Nothing, flaked |-> FALSE]

TypeOK ==
    /\ host.nodes \subseteq Range(Nodes) /\ config \in Configs
    /\ backend \in [name : {"vaapi", "nvenc", "none"}, device : Range(Nodes) \cup {Nothing}]
    /\ job.pc \in {"none", "probed", "built", "runs"}

----------------------------------------------------------------------------
(* The server.                                                              *)

\* a render node that is there, and none before it
First(h, i) == Nodes[i] \in h.nodes /\ \A k \in 1..(i - 1) : Nodes[k] \notin h.nodes

\* detect_backend: the device of the environment if it exists, else the first
\* node, else NVIDIA
DetectBackend(h) ==
    IF h.env \in h.nodes THEN [name |-> "vaapi", device |-> h.env]
    ELSE IF \E i \in DOMAIN Nodes : First(h, i)
    THEN [name |-> "vaapi", device |-> Nodes[CHOOSE i \in DOMAIN Nodes : First(h, i)]]
    ELSE [name |-> IF h.nvidia THEN "nvenc" ELSE "none", device |-> Nothing]

\* map_probe: PQ and HLG transfers and BT.2020 primaries are HDR
IsHdr(s) == s.transfer = "pq" \/ s.primaries = "bt2020"

\* mutant: the client's codecs decide alone
DecideByCodec(s, c) == IF s.codec \notin c.codecs \/ s.width > c.maxWidth THEN "transcode" ELSE "copy"

Decide(s, c) ==
    IF s.codec \notin c.codecs \/ s.width > c.maxWidth \/ IsHdr(s) THEN "transcode" ELSE "copy"

ScaleWidth(s, c) == IF s.width < c.maxWidth THEN s.width ELSE c.maxWidth

\* options with others added, and the words of one; the last of two of a name counts
NoOptions == [name \in {} |-> <<>>]
With(options, extra) ==
    [name \in DOMAIN options \cup DOMAIN extra |-> IF name \in DOMAIN extra THEN extra[name] ELSE options[name]]
Words(options, name) == IF name \in DOMAIN options THEN options[name] ELSE <<>>

\* mutant: the frames of the hardware decoder are uploaded once more
UploadedFilters(s, c) == <<"tonemap_vaapi", "format", "hwupload">>

\* frames that are decoded on the GPU stay there; they are scaled only if smaller
HdrFilters(s, c) ==
    IF ScaleWidth(s, c) < s.width THEN <<"tonemap_vaapi", "scale_vaapi">> ELSE <<"tonemap_vaapi">>

\* the decoder leaves its frames on the device
OnDevice(device) ==
    [hwaccel |-> <<"vaapi">>, hwaccel_device |-> <<device>>, hwaccel_output_format |-> <<"vaapi">>]

\* the video options of build_hls_cmd; the decision on a stream has a width to scale to
VideoOf(s, c, action, b) ==
    CASE action = "copy" -> [vcodec |-> <<"copy">>]
      [] action = "transcode" /\ b.name = "vaapi" ->
            [vf |-> IF IsHdr(s) THEN HdrFilters(s, c) ELSE <<"scale", "format", "hwupload">>,
             vcodec |-> <<"h264_vaapi">>]
      [] action = "transcode" /\ b.name = "nvenc" ->
            [vf |-> <<"scale", "format">>, vcodec |-> <<"h264_nvenc">>, preset |-> <<"p4">>]
      [] action = "transcode" /\ b.name = "none" ->
            [vf |-> <<"scale">>, vcodec |-> <<"libx264">>, preset |-> <<"veryfast">>]

\* the same without a decision: it is not a copy, and has nothing of a transcode but
\* the encoder
UndecidedVideo(b) ==
    CASE b.name = "vaapi" -> [vf |-> <<"format", "hwupload">>, vcodec |-> <<"h264_vaapi">>]
      [] b.name = "nvenc" -> [vf |-> <<"format">>, vcodec |-> <<"h264_nvenc">>, preset |-> <<"p4">>]
      [] b.name = "none" -> [vcodec |-> <<"libx264">>, preset |-> <<"veryfast">>]
UndecidedCmd(b) ==
    [input |-> [i |-> <<"source">>], output |-> With([map |-> <<"video">>, f |-> <<"hls">>], UndecidedVideo(b))]

\* build_hls_cmd under "auto"
BuildHlsCmd(s, c, action, b) ==
    LET hw == action = "transcode" /\ b.name = "vaapi"
        device == IF hw THEN [vaapi_device |-> <<b.device>>] ELSE NoOptions
        decoder == IF hw /\ IsHdr(s) THEN OnDevice(b.device) ELSE NoOptions
    IN [input |-> With(With([i |-> <<"source">>], device), decoder),
        output |-> With([map |-> <<"video", "audio">>, acodec |-> <<"aac">>, f |-> <<"hls">>],
                        VideoOf(s, c, action, b))]

----------------------------------------------------------------------------
(* The wrapper, which is the ffmpeg the converter finds on its path.         *)

VideoCodec(argv) == Words(argv.output, "vcodec")

\* mutant: the core's decision is not asked
AnyVideo(argv) == VideoCodec(argv) # <<>>

Copies(argv) == VideoCodec(argv) = <<"copy">>

Without(options, names) == [name \in DOMAIN options \ names |-> options[name]]
RemoveOption(argv, names) == [input |-> Without(argv.input, names), output |-> Without(argv.output, names)]
ReplaceOption(argv, name, words) == [argv EXCEPT !.output[name] = words]
InsertBeforeInput(argv, extra) == [argv EXCEPT !.input = With(@, extra)]
InsertBeforeCodec(argv, extra) == [argv EXCEPT !.output = With(@, extra)]

EncoderTuning == {"preset", "tune", "crf", "cq", "qp", "global_quality", "rc", "rc_mode", "low_power",
                  "b:v", "maxrate", "minrate", "bufsize", "profile:v", "level:v"}
HwDecode == {"hwaccel", "hwaccel_device", "hwaccel_output_format", "vaapi_device"}
VideoOptions == EncoderTuning \cup HwDecode \cup {"vf", "vcodec"}

VaapiDevice ==
    IF config.device # Nothing THEN config.device ELSE IF host.env # Nothing THEN host.env ELSE DefaultNode

\* PROFILES, those AUTO resolves to
Profile(name) ==
    CASE name = "vaapi-full-h264" -> [encoder |-> "h264_vaapi", engine |-> "vaapi", decode |-> "vaapi"]
      [] name = "cpu-h264" -> [encoder |-> "libx264", engine |-> "cpu", decode |-> "software"]

\* what the wrapper learns from its subprocesses, each of which may fail
AvailableEncoders(works) == IF works THEN host.encoders ELSE {}
ProbeVideoCodec(s, works) == IF works THEN s.codec ELSE Nothing
ProbeVideoFormat(s, works) == IF works THEN s ELSE [s EXCEPT !.codec = Nothing, !.depth = 0]
DirectVideoCodecs == config.direct

UnsafeFullDecode(details) == details.codec \in {"hevc", "h264"} /\ details.depth = 10

\* a line of the log: the profile it names, the codec of its arrow, its wording
Line(profile, to, wording) == [profile |-> profile, to |-> to, wording |-> wording]

\* mutant: the profile that was asked for is logged
RanAsked(name, decode) == name

RanAs(name, decode) == IF name = "vaapi-full-h264" /\ decode = "software" THEN "vaapi-h264" ELSE name

\* the command of a profile: the old video options go, the decoder's options come
\* before the input, the others before the codec
Rewritten(argv, p, decode) ==
    LET old == Words(argv.output, "vf")
        scaled == \E i \in DOMAIN old : old[i] \in {"scale", "scale_vaapi"}
        plain == ReplaceOption(RemoveOption(argv, EncoderTuning \cup HwDecode \cup {"vf"}), "vcodec", <<p.encoder>>)
        rated == [low_power |-> <<"1">>, rc_mode |-> <<"CQP">>, qp |-> <<"quality">>]
        software == [preset |-> <<"veryfast">>, crf |-> <<"quality">>]
    IN CASE decode = "vaapi" ->
              InsertBeforeCodec(InsertBeforeInput(plain, OnDevice(VaapiDevice)),
                                With([vf |-> <<"scale_vaapi">>], rated))
         [] p.engine = "vaapi" /\ decode = "software" ->
              InsertBeforeCodec(InsertBeforeInput(plain, [vaapi_device |-> <<VaapiDevice>>]),
                                With([vf |-> IF scaled THEN <<"scale", "format", "hwupload">> ELSE <<"format", "hwupload">>], rated))
         [] p.engine = "cpu" ->
              InsertBeforeCodec(plain, IF scaled THEN With([vf |-> <<"scale">>], software) ELSE software)

\* _apply_profile on a command that copies: the source is probed again, the
\* encoders listed again, and the format probed for a full GPU pipeline
ApplyProfile(argv, name, codec, found, details) ==
    LET p == Profile(name)
        decode == IF p.decode = "vaapi" /\ UnsafeFullDecode(details) THEN "software" ELSE p.decode
    IN CASE codec \in DirectVideoCodecs \cup {Nothing} -> [argv |-> argv, log |-> Line(name, Nothing, "copy preserved")]
         [] codec \notin DirectVideoCodecs \cup {Nothing} /\ p.encoder \notin found ->
              [argv |-> argv, log |-> Line(name, Nothing, "unavailable encoder")]
         [] codec \notin DirectVideoCodecs \cup {Nothing} /\ p.encoder \in found
            /\ p.engine = "vaapi" /\ VaapiDevice \notin host.nodes ->
              [argv |-> argv, log |-> Line(name, Nothing, "device unavailable")]
         [] OTHER ->
              [argv |-> Rewritten(argv, p, decode), log |-> Line(RanAs(name, decode), <<p.encoder>>, "rewritten")]

AutoProfile(found) ==
    IF "h264_vaapi" \in found /\ VaapiDevice \in host.nodes THEN "vaapi-full-h264"
    ELSE IF "libx264" \in found THEN "cpu-h264" ELSE Nothing

\* _auto_apply: w says which of the subprocesses work
AutoApply(argv, s, w) ==
    LET name == AutoProfile(AvailableEncoders(w.encoders)) IN
      IF ~Copies(argv) THEN [argv |-> argv, log |-> Line(Nothing, Nothing, "unchanged")]
      ELSE IF ProbeVideoCodec(s, w.codec) \in DirectVideoCodecs \cup {Nothing} \/ name = Nothing
      THEN [argv |-> argv, log |-> Line(Nothing, Nothing, "copy preserved")]
      ELSE ApplyProfile(argv, name, ProbeVideoCodec(s, w.codecAgain), AvailableEncoders(w.encodersAgain),
                        ProbeVideoFormat(s, w.format))

----------------------------------------------------------------------------
(* ffmpeg: where each stage of a command takes its frames and leaves them.   *)
(* A decoder that the hardware lacks is replaced by the software one.         *)

Decoded(argv, s) ==
    IF Words(argv.input, "hwaccel_output_format") # <<"vaapi">> THEN "cpu"
    ELSE IF \E d \in Range(Words(argv.input, "hwaccel_device")) : d \notin host.nodes THEN "broken"
    ELSE IF <<s.codec, s.depth>> \in host.decodes THEN "gpu" ELSE "cpu"

Takes(stage) == IF stage \in {"scale_vaapi", "tonemap_vaapi", "h264_vaapi"} THEN "gpu" ELSE "cpu"
Gives(filter) == IF filter \in {"scale_vaapi", "tonemap_vaapi", "hwupload"} THEN "gpu" ELSE "cpu"

\* the frames reach the encoder through the filters, and what is uploaded has a device
Encodes(argv, s) ==
    LET filters == Words(argv.output, "vf")
        after(i) == IF i < Len(filters) THEN filters[i + 1] ELSE VideoCodec(argv)[1]
        device == Words(argv.input, "vaapi_device")
    IN IF Copies(argv) THEN filters = <<>>
       ELSE /\ Takes(after(0)) = Decoded(argv, s)
            /\ \A i \in 1..Len(filters) : Takes(after(i)) = Gives(filters[i])
            /\ "hwupload" \in Range(filters) => device # <<>> /\ Range(device) \subseteq host.nodes

----------------------------------------------------------------------------
(* WebAdmin's reading of a job.                                             *)

\* parse_policy_log; a line that leaves the command alone names no codec
Parsed(log) ==
    [profile |-> log.profile,
     target |-> IF log.wording = "copy preserved" THEN <<"copy">> ELSE log.to,
     action |-> CASE log.wording = "copy preserved" -> "direct-stream"
                  [] log.wording = "unavailable encoder" -> "fallback-preserve-core"
                  [] OTHER -> Nothing]

\* _session_from_command: the engine of the process that runs
Engine(argv) ==
    LET codec == VideoCodec(argv)[1] IN
      CASE codec = "h264_vaapi" -> "vaapi" [] codec = "h264_nvenc" -> "nvenc"
        [] codec = "libx264" -> "cpu" [] codec = "copy" -> "copy"

----------------------------------------------------------------------------
Init ==
    /\ host \in Hosts /\ config \in Configs
    /\ backend = DetectBackend(host)
    /\ lost = FALSE
    /\ job = NoJob

\* master.m3u8: ffprobe tells the streams, or fails, which is read as a file without
\* any; one that does not answer in time ends the request with 504
Probe ==
    /\ job.pc = "none"
    /\ \E s \in Sources, c \in Clients : \E seen \in {s, Nothing} :
         job' = [job EXCEPT !.pc = "probed", !.source = s, !.seen = seen, !.client = c]
    /\ UNCHANGED <<host, config, backend, lost>>

Build ==
    /\ job.pc = "probed" /\ job.seen # Nothing
    /\ LET action == Decide(job.seen, job.client)
       IN job' = [job EXCEPT !.pc = "built", !.action = action,
                             !.built = BuildHlsCmd(job.seen, job.client, action, backend)]
    /\ UNCHANGED <<host, config, backend, lost>>

\* without a video stream there is no decision, and the route goes on
BuildUndecided ==
    /\ job.pc = "probed" /\ job.seen = Nothing
    /\ job' = [job EXCEPT !.pc = "built", !.action = "undecided", !.built = UndecidedCmd(backend)]
    /\ UNCHANGED <<host, config, backend, lost>>

\* the wrapper's main
RunWrapper ==
    /\ job.pc = "built"
    /\ \E w \in [{"codec", "encoders", "codecAgain", "encodersAgain", "format"} -> BOOLEAN] :
         LET out == IF config.mode = "auto" THEN AutoApply(job.built, job.source, w)
                    ELSE [argv |-> job.built, log |-> Line(Nothing, Nothing, "unchanged")]
         IN job' = [job EXCEPT !.pc = "runs", !.run = out.argv, !.log = out.log,
                               !.flaked = \E k \in DOMAIN w : ~w[k]]
    /\ UNCHANGED <<host, config, backend, lost>>

\* a render node goes away under the running server
LoseDevice ==
    /\ \E n \in host.nodes : host' = [host EXCEPT !.nodes = @ \ {n}]
    /\ lost' = TRUE
    /\ UNCHANGED <<config, backend, job>>

Next == Probe \/ Build \/ BuildUndecided \/ RunWrapper \/ LoseDevice

Spec == Init /\ [][Next]_pipeVars

----------------------------------------------------------------------------
Runs == job.pc = "runs"
GpuDecodes == <<job.source.codec, job.source.depth>> \in host.decodes

\* Every stage of the command that is run gets its frames where it takes them,
\* on a device that is there, whichever of the two programs built it: as long as
\* no device went away, a GPU that is asked to decode can decode the source, and
\* ffprobe told what the source is where VAAPI encodes it.
PipelineConnects ==
    Runs /\ ~lost /\ GpuDecodes /\ (job.seen # Nothing \/ backend.name # "vaapi") => Encodes(job.run, job.source)

\* The wrapper changes nothing but the video pipeline of a command, and only
\* turns a copy into H.264, with an encoder the ffmpeg has.
RewriteIsConfined ==
    Runs => /\ RemoveOption(job.run, VideoOptions) = RemoveOption(job.built, VideoOptions)
            /\ job.run # job.built => /\ job.action = "copy"
                                      /\ VideoCodec(job.run)[1] \in host.encoders \cap {"h264_vaapi", "libx264"}

\* What reaches a player is what it can show: HDR is never copied, also when ffprobe
\* failed, and VAAPI, which alone can, maps the tones of what ffprobe told to be HDR;
\* and when every probe of the wrapper answers and the software encoder is there, a
\* copy is of a codec the settings call direct.
PlayerCanShow ==
    Runs =>
        /\ IsHdr(job.source) =>
             /\ ~Copies(job.run)
             /\ job.seen # Nothing /\ Engine(job.run) = "vaapi"
                  => "tonemap_vaapi" \in Range(Words(job.run.output, "vf"))
        /\ ~lost /\ ~job.flaked /\ config.mode = "auto" /\ "libx264" \in host.encoders
             => ~Copies(job.run) \/ job.source.codec \in config.direct

\* What the dashboard reads in the log is what runs: the codec it names, a copy
\* that is kept, and where the source of a rewritten command is decoded; and no
\* command is rewritten without a word.
ReportIsTrue ==
    Runs => LET told == Parsed(job.log) IN
        /\ told.target # Nothing => told.target = VideoCodec(job.run)
        /\ told.action # Nothing => Engine(job.run) = "copy"
        /\ job.run # job.built =>
             /\ told.target # Nothing
             /\ told.profile = "vaapi-full-h264" <=> Words(job.run.input, "hwaccel") # <<>>

(* What the code does not keep:                                             *)

\* A copy is never promoted to a transcode by AUTO, as the comments of build_hls_cmd
\* and WebAdmin say.
NeverPromoted == Runs => (job.action = "copy" => Copies(job.run))

\* The command for a source that ffprobe could not read has a device to upload to.
UnreadConnects == Runs /\ ~lost /\ job.seen = Nothing => Encodes(job.run, job.source)

\* HDR reaches a player with its tones mapped, whatever encodes it.
HdrIsMapped ==
    Runs /\ job.seen # Nothing /\ IsHdr(job.source) => "tonemap_vaapi" \in Range(Words(job.run.output, "vf"))
=============================================================================
