# Verification of the Stremio libtorrent server

This directory holds TLA+ models of the server under `src/src/stremiosrv` and of
the programs around it, the TLC configurations that check them, and proofs
checked by TLAPS. The server turns BitTorrent swarms into HTTP: it adds
torrents, fetches the files that are played, downloaded or pinned, streams byte
ranges of them, transcodes them to HLS, and evicts what nobody needs. It runs
one thread per request beside a handful of background threads, and keeps most of
its state in dictionaries that some of them lock and others do not. That is
where its hard questions are, and what the models are about.

## 1. The system

### Components, state and operations

| Component | State | Operations |
|---|---|---|
| Encoder registry (`transcode/converter.py`, used by `api/hls.py`) | encoders by workload, workload by session, sessions by workload, last access; the HLS directories | `ensure_job`, `touch`, `stop`, `stop_all`; the GC thread: `reap_idle`, `sweep` |
| Torrent engine (`torrent/engine.py`, `api/pins.py`, `api/playback.py`, `library/api.py`) | handles with their wanted files and focus, pinned hashes, wanted selectors, which selectors were applied | `add`, `want`, `unwant`, `pin`, `unpin`, `remove`, `focus_file`; the alerts loop; reload at start |
| Stream activity (`torrent/engine.py`, `api/playback.py`) | open streams per torrent, file priority, download caps, paused torrents | `note_stream_open`, `note_stream_close`; the seed policy and prefetch loops |
| Registries on disk (`pins.py`, `wanted.py`, `library/labels.py`) | one JSON file each and its temporary file | load, change, save |
| Cache evictor (`cache.py`, `api/cache.py`) | the cache root, the claim of its owner, `.resume`, the name index | claim, eviction pass, resume sweep, removal by hand |
| Playback sessions (`playback_sessions.py`) | sessions and HLS jobs with activity times | open, note bytes, close, register, touch, end, prune |
| Range reader (`stream/fileserver.py`, `stream/ranges.py`, `torrent/picker.py`, `torrent/prefetch.py`) | position, boosted pieces, deadlines | `wait_and_read`, `parse_range`, prefetch plan |
| Library (`library/`) | owner, sessions, addon token, rate limit windows, labels | sign-in, download, remove, catalogue |
| Subtitles (`subs/`, `api/subs.py`, `api/embedded_ass.py`) | discovery cache, fonts directory, work slots | discover, extract, convert |
| Media proxy (`proxy/`, `api/proxy.py`, `api/media_fetch.py`) | places in use, reader tickets | admit, follow redirects, stream, rewrite playlists |
| WebAdmin (`src/webadmin`) | configuration files, update checkpoint, containers, result file | configure, restart, update, roll back, VPN |
| VPN supervisor (`src/vpn/entrypoint.sh`) | requested state, Gluetun and DNS proxy processes | poll, start, stop, restart |
| Pipeline (`transcode/probe.py`, `fingerprint.py`, `profiler.py`, `converter.build_hls_cmd`, `docker/ffmpeg_wrapper.py`) | the backend found at start; one command line | probe, decide, build, rewrite, report |
| Packaging (`src/docker`, `src/start.sh`), tools | none at run time | start scripts |

### How they interact

* A stream (`api/playback.py`) calls `Engine.add`/`get`, `focus_file`, then
  `note_stream_open`; its body runs `wait_and_read` and ends with
  `note_stream_close`. The request threads share handles with each other and
  with the alerts, seed policy, prefetch, adaptive and evictor threads.
* An HLS session calls `ensure_job`; ffmpeg then reads the same file through the
  server's own stream route, so one viewer is two consumers.
* The library's download adds, wants and pins; its remove unwants and unpins and
  drops the handle. `wanted.json` and `pins.json` are read back at start.
* The evictor asks the engine and the registries what is in use, removes the
  handle and deletes the files. It shares the cache root with other servers
  through a claim file and the name index with the alerts loop.
* WebAdmin replaces the server's container while it runs, and switches the VPN
  by a file that the supervisor polls.

### What is hard

* Decisions taken under a lock and acted on after it (`stop`, `reap_idle`,
  `mark_idle`), or taken with no lock at all (priorities, pins, caps, pause).
* Snapshots that are used later: the sweep's live set, the eviction pass's
  `in_use`, the bandwidth policy's `any_active`.
* Two records of one fact: memory and JSON file, `_wanted` and
  `_wanted_applied`, the session's paused state and `Handle._paused`.
* Handles replaced in the table while other threads hold the old one.
* Crashes and restarts between a change in memory and its save.
* Waiting: an encoder nobody reads must end, its directory must go.

What makes each component correct: an encoder is shared, never lost, and ends
when nobody needs it; the files somebody asked for, and only those, are fetched;
the side effects of a stream end with it; a registry file is never torn and no
answered request is lost; the evictor deletes nothing in use; an update either
commits or leaves the old server running.

## 2. Plan

In order of importance; everything but the last row is built. The theorems of a part
of `ServerParts` or `TorrentParts` are in `ServerPartsProofs` or `TorrentPartsProofs`.

| Modules | About | State |
|---|---|---|
| `TranscodeRegistry`, `TranscodeRegistryProofs` | encoder registry with requests and GC | checked, proved |
| `FileSelection`, `FileSelectionProofs` | which files are fetched: want, pin, play, remove, restart | checked, proved |
| `RegistryFile` implements `AtomicRegistry`; `RegistryFileProofs` | registries on disk | checked, proved |
| `StreamActivity`, `StreamActivityProofs` | open streams, priority, caps, pause and resume | checked, proved |
| `EvictPass` | one eviction pass against the server that goes on | checked, proved |
| `PlaybackWindow` | range requests over pieces that arrive, rushed windows, adaptive order, prefetch | checked, proved |
| `EvictorClaim` | claim of the cache root by one of several servers | checked, proved |
| `CacheSweep` | resume sweep, name index, torrents that share a name | checked, proved |
| `TorrentParts`, `TorrentPartsProofs` | the four rows above, which share no state here, as one specification; `MCTorrentParts` is its instance for TLC | checked, proved |
| `ServerUpdate`, `ServerUpdateProofs` | update as a transaction with failures at every step; restarts; settings | checked, proved |
| `VpnGateway`, `VpnGatewayProofs` | supervisor and Gluetun against the administration | checked, proved |
| `PlaybackSessions` | session life, window, retention | checked, proved |
| `LibraryAccess` | first owner, sessions, addon token | checked, proved |
| `RateLimiter` | sign-in limit | checked, proved |
| `TranscodePipeline` | probe, decision, command line, wrapper, log | checked, proved |
| `TranscodingAdmin` | hardware tests, their cache, the settings file | checked, proved |
| `EmbeddedAss` | discovery cache, file locks, slots, font eviction | checked, proved |
| `MediaProxy` | admission, redirects, end of a request | checked, proved |
| `ServerParts`, `ServerPartsProofs` | the seven rows from `PlaybackSessions` to `MediaProxy`, which share no state, as one specification; `MCServerParts` is its instance for TLC | checked, proved |
| pure algorithms (`parse_range`, file matching, tracker merge), tickets of the local reader | against reference definitions | planned |

Modules to be proved about use no recursive operators and take their parameters
as constants with named assumptions. Every module but `AtomicRegistry` states a type invariant;
it is checked by adding `INVARIANT TypeOK` to a configuration, and proved, as it
stands or in the shape the proof needs, in the modules that have a proof module.

## 3. The models

Every module's comments name the functions an action stands for; `PROJECT.json`
gives the lines. An action is what one thread does between two points where
another can get in: a section under a lock, or one call of libtorrent or of the
file system. Threads carry a program counter and what they have read so far.
History variables (marked so) serve only the properties.

### TranscodeRegistry

`jobs`, `alias`, `owners` and `seen` are the converter's four dictionaries;
`running`, `writes` and `dir` are the processes and the workload directories.
Request threads call `ensure_job`, `touch`, `stop`; the GC thread alternates
`reap_idle` and `sweep`. Each lock section is one action, and so is each wait
for a process to end, each look at the age of a directory and each deletion of one,
which the code does outside the lock. Time is abstracted: an idle encoder is one the reaper may find idle
unless it was touched since; a directory is old or not.

* `transcode_registry`: `OwnersAreAliases`, `NoLostEncoder`,
  `HeldIsDetached`, `SweepSparesLive` (with a listing and a snapshot that are both
  stale, the sweep condemns no directory of a live encoder; that one starts between
  the look at the age and the deletion is what the code does not exclude). Two sessions,
  two workloads, two processes, two request threads and the GC: enough for
  sharing, for handing over a session between workloads, and for a stop, a
  start and a reap to overlap.
* `transcode_live`: an encoder nobody wants ends and an abandoned directory is
  deleted. Fairness: a thread inside a call takes its next step (it waits at
  most five seconds for a process it has killed), and the GC thread, an
  unconditional loop, runs again. No fairness is asked of requests, and
  none of processes ending by themselves.

### FileSelection

One handle per `add`, because a download replaces the handle in the engine's
table while other threads keep the old one: a thread holds the one in the table,
a removed one, or a copy. A handle has its focus, its wanted set, its `pinned`
flag and the priorities last given to libtorrent. Computing a priority list and
applying it are two steps, for a pin's check of what is wanted too. `pinsFile` and
`wantedFile` are what a restart reads: both registries are loaded whole in one step and
saved whole in a later one, which may fail, by these requests and by `Elsewhere`, a
request about any torrent outside `Torrents`. `lost` remembers the torrents whose record
a failed save left behind or another save undid. A torrent has two files, and a
selector names one or, as a film's does, does not narrow; metadata
arrives at any time after an `add`.

* `file_selection`: two clients, the alerts thread, restarts and the evictor's
  removal. `WantedIsFetched` (what the handle wants has a priority, unless two
  threads applied lists at once), `RemovedStaysGone` (after a removal has been
  answered nothing brings the title back but a new request, or a save that failed or
  wrote back what it had loaded before: `lost`), `PinNeverWidens` (a pin adds no file to
  a torrent of which one was chosen by the time its list is applied, unless another
  thread changed the priorities meanwhile).
  The state constraint `OneOrEpisode` keeps the instance small: two clients, or one
  beside a request about another torrent, only use the selector that names one file,
  and two clients unpin nothing.

### RegistryFile and AtomicRegistry

A registry is a map from a key to a value in one file. A change loads the file,
changes the map, opens and truncates a temporary file, writes it, and renames it;
any write may fail and the process may crash. `Guarded` chooses between
`labels.py` (a lock, a temporary name per thread) and `pins.py`/`wanted.py`
(neither). `AtomicRegistry` is the promise: the file's content changes by one
whole call at a time.

* `registry_guarded`: the guarded form implements `AtomicRegistry` under the
  identity mapping of the published content; that it is never torn is proved.
* `MCRegistryFileBare.cfg` is not among the listed runs: the unguarded form keeps
  the promise (`AloneIsAtomic`) for calls that no other overlaps, whatever an
  earlier failed call left behind.

### StreamActivity

The table leads from a torrent to its Handle; `Engine.add` puts a fresh one there, with
no count, no focus and no flag, also while streams go on with the one they hold.
`active` is the count of each Handle, changed under the lock; `high` (the files of a torrent with
the active priority), `capped`, `paused` and `flag` (`Handle._paused`) are set
afterwards by the thread that decided. `raced` records the settings whose last
writers overlapped, that were decided through a Handle that is no longer the table's,
or that `add` left behind; a later decision by one thread alone clears it. A stream is let in, focuses a file - the
priorities, the sequential mode and the focus are steps of their own - resumes the torrent if
need be, is counted, applies the bandwidth policy torrent by torrent, and undoes
it when it ends. The seed policy decides on what it read a step earlier.
Torrents are unpinned (the seed policy never pauses pinned ones).

* `stream_activity`: two torrents, two copies of a Handle, two files, two streams. `ActiveCountsStreams` holds in
  every interleaving; `SettledAgrees`: whatever happened before, once a thread alone
  has decided on a setting and written it, the file in focus has the active priority
  exactly while a stream is open, the others are capped while one is played, and the
  flag tells whether the session paused the torrent.
  The state constraint `FewAtOnce` unites several instances: of two torrents, a replaced
  Handle that is in use, two files, and the background (the seed policy, the prefetcher
  and the swarm), a state has one, or the second and third together.

### Four modules in one run: `torrent_parts`

`PlaybackWindow`, `EvictPass`, `EvictorClaim` and `CacheSweep` are about the data of
torrents, each about another part of what is done with it, and share no state here.
`TorrentParts` takes them as alternatives: the variable `part` is chosen at the start
and the others' variables stay `Off`. Its properties say of each part what the
part's own property says, as long as that part runs. `MCTorrentParts` gives the
parameters small values for TLC; `TorrentPartsProofs` proves the properties for all.

### EvictPass

One pass of `evict_once` reads, one step each, the cache directory, the recent
and the pinned names, the name map of the engine, `pins.json` and the name index,
chooses its victims, and then stops and deletes them one by one: the handle, the
data, the partfile. Between any two of these steps the server opens torrents,
learns their metadata, writes, saves resume records, pins, unpins, removes, or
restarts; a read of the engine's tables may fail because they change under it, and
every deletion may fail unnoticed.
A torrent has two entries of size 1, its data and its partfile, and a name of
its own. Modification times are left out: any listed entries may be within the
grace, and of the others any may be the oldest. `kept` is the history of what has
been protected ever since the pass began; it serves only the properties.

* `torrent_parts`: `PinsAreSpared` (a pin that `pins.json` or the name index gives a
  name for all through the pass loses nothing), `ServedAreSpared` (nor does a
  torrent with a recent request), `NothingLeftBehind` (of a torrent that was
  evicted and not opened again neither data nor partfile is left but what could not be
  deleted, `kept.stuck`: a deletion that fails does not keep the other from being tried). The cache
  holds two entries and is shrunk to one. The state constraint `OneKnown` lets
  one of two torrents be pinned, have a resume record and a partfile; the other
  only has data and competes for the space.

### PlaybackWindow

One torrent of three files, of which two share a piece, read by viewers and by
the extractor of embedded subtitles. A request parses its range, focuses its
file, drops the deadlines of other windows (`refocus`), and then per chunk:
slides its window of rushed pieces, waits for the piece it is at, sends what is
contiguous, and goes on when its client has taken it. A wait ends when the piece is
there or its time budget is used up; how long the budgets of the first piece and of
later ones are is left out, so that any time may pass in either. `prio`, `due`, `boosted`, `have` are libtorrent's priorities and
deadlines, `Handle._boosted` and the pieces on disk; a piece arrives only if it has
a priority or a deadline, and may never. The adaptive tick and the prefetch of
the next episode run between any two steps.

* `torrent_parts`: `OnlyVerifiedBytes` (a byte goes out only if all pieces under
  it were there), `WaitedIsRushed` (what a stream waits for has a deadline unless
  a later request dropped it).
* `playback_window`: `StreamsEnd`, on the same instance: every stream ends, unless its
  client for ever neither takes its chunk nor goes away. Fairness: a thread inside a
  request takes its next step, because every wait for a piece has a time budget; none is
  asked of the swarm, nor of the client, who holds the thread in `yield` without one.
* `adaptive_playhead`: see "Findings".

### EvictorClaim and CacheSweep

* `EvictorClaim` - two servers on one cache root read, judge and write the claim
  file; a pass may take any time, and a claim may fail to be written.
  `OneEvictor`: two evict at once only if one of them judged while another did, if a pass outlived
  its claim, or if a claim was not written. Each of the three does happen.
* `CacheSweep` - the alerts thread saves resume records and the name index, the
  sweep lists, collects the claims from the disk, the index, `pins.json` and
  `wanted.json` one after another, retires what is old and prunes the index; two
  torrents of one name share its entry; a request may delete data or a record at any
  time. `SweepSparesClaimed`: the sweep takes neither the record nor the entry from
  what one registry has claimed ever since it began.

### ServerUpdate

Containers have a name, an image version, networks, a restart state and the
settings they loaded; `tag` is what the image tags name. Workers wait for
`UPDATE_LOCK`, read the release, pull it, and swap: stop, rename and disconnect
the old container, create, start and validate its replacement, remove the old
one, commit; a failure in the guarded part restores. A release has two numbers:
`SERVER_VERSION`, by which an update is offered and accepted, and `FORK_VERSION`, which a
worker compares for equality once it has the lock; the branch may go back to an older
release, and either number may not be readable in the running server. A container that
starts loads the saved settings or, when it cannot read them, silently keeps its own. Each call of the Docker API
is a step that may fail, and WebAdmin may die between any two. `hurt` is the
history of a failure in the unguarded window or in the rollback, `doubt` that of a
branch that went back or a `FORK_VERSION` that was not read.

* `server_update`: `ServesUnlessHurt`, `UpdatesGoForward` (unless in `doubt` no older
  release replaces a newer one; and what is reported as committed runs what was asked
  for, always), `UpdateSettles`. Two workers, three containers (old, new and a spare), three
  releases. Fairness: a worker goes on (every Docker call has a time limit), and
  `Acquire` is strongly fair because the lock is handed to whoever waits. The
  module keeps what the code does on a commit that fails after the old container
  is gone: the rollback removes the replacement too, which is `hurt`.

### VpnGateway

The supervisor loop of `vpn/entrypoint.sh` step by step (select a profile, prepare
it, spawn Gluetun, wait for its resolver, stop it for direct mode), Gluetun with
its firewall `fw` and its `tunnel`, the file that asks for the VPN and the three
markers of profiles (`active`, `startup`, `next`), and requests of WebAdmin in the
steps they take between files, `VPN_LOCK` and Gluetun's control server. `off`
remembers that the VPN was disabled since Gluetun was last started; `held` that
the control server was told to keep the tunnel down.

* `vpn_gateway`: `FailClosed`, `OneResolver`, and `VpnComesUp` under weak fairness of
  the loop, of Gluetun's start and of each request. Three requests and one death
  of Gluetun: a switch that is overtaken by a second one while the first waits.

### Seven modules in one run: `server_parts`

They share no state with each other, so `ServerParts` takes them as alternatives, as
`TorrentParts` does.
Its parameters are those of its parts, and its properties say of each part what
the part's own property says, as long as that part runs. `MCServerParts` gives the
parameters small values for TLC; `ServerPartsProofs` proves the properties for all.

* `PlaybackSessions` - two connections over three sessions and one job; the clock
  runs over one retention. `SessionsConsistent`: a job that is converted has one
  session, the one its segments touch, and nothing nobody has open is PLAYING.
* `LibraryAccess` - two browsers sign in, out and reset; every load and save of the
  state file is a step of its own under `session._lock`; the file may be lost and the process restarted. `SessionsKept`.
* `RateLimiter` - attempts carry the time they were taken at and get the lock in
  any order. Those of an address that are let through are numbered in that order
  (`given`), and a list of attempts maps their numbers to their times: the last one
  of the code's list is the one with the greatest number. `LimitHolds`: within a window less the time an attempt may wait for
  the lock. `LimitIsExact`, without that allowance, is not kept.
* `TranscodePipeline` - one HLS job on every host (device nodes, encoders, what the
  GPU decodes), for every source (codec, depth, HDR, width), player and setting.
  A command has the options before its input and those after it, each a map from
  names to words: of the order of the command line, what matters is on which side of
  the input an option is, and the order of the filters, which is kept. ffprobe may fail,
  which `probe_media` reads as a file without streams: the command is then built without a
  decision. `PipelineConnects` (unless ffprobe failed and VAAPI encodes),
  `RewriteIsConfined`, `PlayerCanShow` (HDR is never copied; only VAAPI maps its tones),
  `ReportIsTrue`; `copy_promoted` is the same
  instance with `NeverPromoted`.
* `TranscodingAdmin` - two requests over the hardware tests, whose cache has a date
  and a value that are written one after the other and read one after the other, with
  tests that may fail for other reasons than the hardware, and over the settings file.
  `PageIsFresh`: what the page takes from the cache is of tests that ended recently,
  whoever stores, forgets and reads at once, unless the date was read between the two
  writes of a store (`early`).
* `EmbeddedAss` - two threads over two files with one remembered, one font
  directory kept and one work slot. `FontsAreThere`: a font that is sent is there
  unless another thread gave up its file meanwhile, or while it was marked as
  dumped; probes and dumps hold the lock of their file; and at most `Work` slots
  are held, exactly while ffmpeg runs. Six requests, because it takes six to reach
  a directory that is marked and empty: one is emptied between the check that
  all fonts are there and the mark, and stays marked. The history variable
  `doubt` remembers marks that were set like that.
* `MediaProxy` - three requests, two places of which internet clients get one, two
  redirects between two origins. `_Slot.release` frees all places of its slot, whoever
  calls it first; an answer that fails late, a dropped body and its finalizer call it
  twice, and the second call may come at any time after the first. `PlacesAreKept`: every
  place is free or the own of
  one request however it ends, and a home client is refused only when the home
  network itself holds what internet clients may not. `CredentialsStay`: over the whole
  chain of origins a request was sent to, none after the first other one gets its
  credentials, the first one come back to included.

## 4. Bounds and symmetry

Constants are small sets of model values; permutations of torrents, streams,
sessions, threads or workloads are symmetries of the safety runs, and none is
used in a run with a liveness property. The hazards are between two actors, mostly about one
torrent, workload or key; a second one is there wherever one is told apart from
another (sharing, caps, limits, `_wanted_applied`, shared names). `Events` and
`Background` restrict which requests and loops an instance has; the passing runs
have all of them, and three runs a state constraint (above) that leaves out
combinations of unrelated activity.

What is bounded, besides: requests (`MaxRequests`, `MaxAsks`), events
(`MaxEvents`, `MaxExits`, `MaxSaves`), releases and settings (`MaxVersion`,
`MaxCfg`) and clocks (`MaxTime` of each timed module, `...Until` in the instance).
Each is past the point where the interesting case happens: the clock of the
playback registry passes a retention, that of the claim two ages of a claim after
a takeover, that of the limiter two windows; three events are a request and a
restart around a sweep. Ids and secrets are as many as may be made. In the runs
with such bounds (`server_update`, `vpn_gateway`, `playback_window`,
`server_parts`, `torrent_parts`, `adaptive_playhead`, `copy_promoted`) the system stops when they
are used up, and deadlock is not checked; it is in all others.

## 5. Proofs

A theorem is about every value of the constants. What it assumes of them is
`Parameters` (or a name that ends so) in its proof module, or a named assumption of
the model, and says only what the parameters are: numbers are numbers, the mark for
"nothing" is none of the things it stands beside, what is counted is finite.
Every proof of `[]Inv` is by an inductive invariant `IInv` that implies `Inv`, kept
by each action in a lemma of its own; an action property is proved of the steps from
`IInv`. What is worth knowing is why the invariant has to say more.

`TranscodeRegistryProofs` proves, for any sets of sessions, workloads, processes
and request threads, the type invariant (`TypeCorrect`) and four safety
properties (`OwnershipAgrees`, `EncodersNeverLost`, `DetachedStaysDetached`,
`SweepIsSafe`). Types, ownership, `NoLostEncoder` and `HeldIsDetached` hold only
together with `HeldOnlyInCleanup`: a thread holds encoders in no other part of
its call than the one that ends them, which is what keeps a step that drops the
thread's state from losing a process.

`FileSelectionProofs` proves that what was chosen of a torrent is fetched unless two
threads changed its priorities at once (`ChosenIsFetched`), that a removed title
comes back only when somebody asks for it or its record was lost (`RemovedStays`), and that a pin adds no
file unless another thread got in between (`PinWidensNothing`). The invariant says of a torrent that was not raced for
that one thread at most is about to apply a list to it, and that the list has
everything chosen by then (`PriorityFits`); and of a removed one that whatever is
left of it, in memory, in `pins.json`, in `wanted.json` or in what some thread has loaded
of them, is left because a client
is at the step of its removal that takes it away (`GoneFits`), unless its record was lost.

`RegistryFileProofs` proves of every guarded registry its type invariant, that
its file is never torn (`FileNeverTorn`) and that it implements the atomic map
(`GuardedIsAtomic`): initial states map to initial states and every step to a
step or a stutter. The invariant says that the thread that holds the lock has
loaded what the file still holds, and that only a thread's own write changes its
temporary file.

`StreamActivityProofs` proves of any torrents, Handles, files and streams that the type
invariant holds, that the count is right in every interleaving (`CountIsRight`) and that
priority, caps and flag are right once one thread alone has decided on them
(`SettingsAgree`). The invariant says of each setting that, as long as it is not
`raced`, at most one thread is about to write it and what it will write is right,
and that without such a thread the setting is right already.

`ServerUpdateProofs` proves, for any workers, containers and bounds, that a server
answers unless a failure hit where nothing rolls back (`ServerStays`), and that no
update goes backwards while the branch goes forward and what is committed is what was
asked for (`LockDecides`). The invariant follows the one worker that holds the lock: which
container has the server's name and which was put aside at each step (`Swapping`),
that its version is at least that of everything there (`Ahead`, from the release
being read again under the lock, and only as long as there is no doubt), and, until the first such failure, that
the networks it recorded and the image it keeps for a rollback are right (`Intact`).

`VpnGatewayProofs` proves, for any profiles, threads and failures, that the
firewall opens only when somebody disabled the VPN or the gateway restarted
(`FailsClosed`) and that port 53 and the DNS proxy have one owner
(`ResolverIsOne`). The invariant says that the supervisor prepares a profile or
restores the direct network only without a child, that even a child that has
exited keeps the direct resolver off, and that a VPN that is not enabled was
disabled since Gluetun was last started.

`TorrentPartsProofs` and `ServerPartsProofs` are about the parts of the two
compositions. Their first lemmas say that a behaviour of the whole is one of the part
that was chosen; each theorem is then proved from an invariant of its part.

* `PlaybackWindow` (`OnlyVerifiedIsSent`, `WaitedHasDeadline`), for any
  viewers and extractors, any files and offsets such that a file that is not empty
  ends last, and any piece length, chunk, window and ranges: at every step of a request its window has been slid at least to
  the piece it is at (`Within`), which takes the arithmetic of offsets, pieces and
  chunks; and all that a viewer has slid over is there or has a deadline unless a later
  request dropped it (`Rushed`).
* `EvictPass` (`PinsSpared`, `ServedSpared`, `NothingIsLeft`), for any finite set of
  torrents, any budget and target: what each read has told the pass about the
  protected torrents is still in its snapshots when it chooses, so that no entry of
  theirs is ever among the victims. It is the reason why the index, which only
  grows, may be read last. For `NothingIsLeft`: what the pass has stopped has a name
  it has read, is out of the session, and its data is tried before its partfile
  (`Stopped`), whether or not it could be deleted.
* `EvictorClaim` (`OneEvictorAtOnce`): the claim of a pass that met nobody stands for
  as long as it is not old, and whoever has read since has read it.
* `CacheSweep` (`SweepSpares`): what a registry has claimed all along it still claims,
  its name is in the listing the sweep made first, and so it is among what is claimed
  as soon as the sweep has read that registry. The entry of a name in the index is
  kept because pruning spares the entries of what is claimed.
* `PlaybackSessions` (`SessionsAgree`): a job leads to its own session and a session
  that has not ended is found through its job (`Paired`); a source session plays only
  while a range request has it (`Streamed`). `prune` and late calls for sessions
  that are gone are why both speak of the session only if it is there.
* `LibraryAccess` (`LockHolds`, `SessionsStay`): what the holder of `session._lock` has
  loaded is still what is on file, which is why no save undoes another.
* `RateLimiter` (`LimitIsKept`), for any limit, window and addresses: every attempt that
  was relayed lately is still in the table, with a time that is too early by at most
  what an attempt may wait for the lock; and no attempt in the table is dated earlier
  than that before another that precedes it was relayed (`Remembered`), which is why
  an address whose last attempt is old has none that counts.
* `TranscodePipeline` (`CommandsConnect`, `RewritesAreConfined`, `PlayersCanShow`,
  `ReportsAreTrue`), for any sources, players, hosts, nodes and settings whose records
  have their fields: the command that is built is the one for its source, player and
  backend, whose device is there unless one was lost, or the one without a decision when
  ffprobe failed (`PipelineIInv`); the rest is a
  case for each way the server builds a command and each way the wrapper leaves it or
  rewrites it, whichever of its probes fail.
* `MediaProxy` (`PlacesKept`, `CredentialsSentOnce`): the places a request owns are those
  its slot has not given back, whichever calls of release are still to come (`Placed`);
  a home client that was refused found the home network itself at its limit; and a
  request that still has credentials has been sent to its first origin only (`Loyal`).
* `TranscodingAdmin` (`PageStaysFresh`): the cache is never dated later than the tests it
  holds ended, unless a store is between its two writes, and whoever has judged a date
  outside one shows tests that ended recently enough, whatever was stored since (`InTime`).
* `EmbeddedAss` (`FontsStay`): the directory a thread dumps to is not marked and its
  lock is the thread's; what a thread serves without having been crossed is whole,
  marked, and in nobody's list of what is given up; a marked directory is
  whole unless it is in `doubt`. That the list of one thread can never hold the
  file another has just used follows from the order of use naming no file twice.

Every safety invariant and every action property of a passing run is stated by one
of these theorems. Only model-checked:

* liveness, which with fairness and `ENABLED` is out of the prover's reach:
  `UnwantedEncoderEnds`, `DirReclaimed`, `StreamsEnd`, `UpdateSettles`, `VpnComesUp`;
* the bare registry (`AloneIsAtomic`);
* the refutations of section 6.

## 6. Findings

Two runs violate a property that states what a comment says
(`PROJECT.json`, "findings"):

| Run | Property | The code |
|---|---|---|
| `adaptive_playhead` | `AdaptiveFollowsPlayhead` | the adaptive tick measures the buffer from the first piece of the last seek, not from the playhead |
| `copy_promoted` | `NeverPromoted` | the wrapper turns a copy the server decided on into H.264 |

Every module states, under "what the code does not keep", what else a comment
promises or a reader would expect. To see one refuted, put it in place of the
INVARIANT and PROPERTY lines of the module's configuration:

| Configuration | Property | What it shows |
|---|---|---|
| `MCTranscodeRegistry.cfg` | `OnlyFinalOwnerTerminates` | an encoder handed to a new session between the two lock sections of `stop` is ended |
| | `ReferencesAreOwned` | a restarted encoder's owners are rebuilt from one session |
| | `NoDuplicateEncoder` | a replacement starts while its predecessor, already out of the registry, still writes the same directory |
| | `LiveEncoderHasDir` | the predecessor's cleanup then deletes that directory |
| | `SweptIsUnowned` | an encoder starts in a directory between the sweep's look at its age and its deletion |
| `MCFileSelection.cfg` | `SelectorsApplied` | the alerts loop marks as applied what it has not seen |
| | `WholeDownloadStaysWhole`, `PinnedPlayKeepsWhole` | playing one file narrows a torrent downloaded or pinned whole |
| | `DownloadKeepsStreamedFile` | a download's new handle forgets the file being streamed |
| | `UnpinKeepsDownloads` | unpinning forgets the downloads in memory, and a restart brings them back |
| | `PinnedIsSeeded` (without `CONSTRAINT`) | a pin marks a handle that a download has replaced |
| | `PlayedIsFetched` | priorities computed before a play are applied after it |
| | `RemovalIsFinal` | a request about another torrent saves the registry it loaded before the removal |
| | `PinNeverWidensAPlay` | a play is recorded between a pin's check and its list, which then fetches every file |
| | `PendingIsApplied` (with `SPECIFICATION FairSpec`, no `SYMMETRY`) | a stale mark makes the alerts loop skip the next torrent's choice |
| `MCRegistryFileBare.cfg` | `NeverTorn`, `NoLostUpdate` | two savers of `pins.json` publish half a file, or undo each other's change |
| `MCStreamActivity.cfg` | `PlayingIsNotPaused` | a torrent is left playing, paused and incomplete |
| | `WatchedIsActive` | a demotion is set after the promotion that followed it, or decided by a fresh Handle that does not know of the stream |
| | `CapsAreLifted` | caps outlive the last stream |
| | `OthersAreCapped` | a torrent that is added while another is played has no cap |
| | `MaxStreamsRespected` (`MaxStreams = 1`) | two requests pass the limit together |
| `MCPlaybackWindow.cfg` | `WindowStaysRushed`, `PrefetchNeverLowers` | a new viewer drops the deadlines of others; a prefetch of a file that is focused meanwhile lowers what is waited for |
| `MCServerUpdate.cfg` | `FailedUpdateRestoresServer` | a failure between the stop of the old server and the block that rolls back (`fork_update.py:333`) leaves no server running |
| | `DowngradeDisabled` | the branch goes back while a worker waits for the lock, under which versions are compared for equality only |
| | `OnlyNewServerVersions` | an update is offered by `SERVER_VERSION` and done for a release that differs in `FORK_VERSION` alone |
| | `RestartLoadsSettings` | the entrypoint starts the server without the settings it could not read (`webadmin_entrypoint.py:35`) |
| `MCVpnGateway.cfg` | `DisabledGoesDirect` | a VPN that is disabled after Gluetun has exited by itself stays behind a closed firewall: only a child the supervisor knows is stopped for direct mode (`entrypoint.sh:338`) |
| `MCServerParts.cfg` | `SettingsKept` | `set_profile` writes back the whole settings file it read, over what was saved since |
| | `UnreadConnects` | after a failed ffprobe VAAPI uploads to no device (`converter.py:165`, `214`) |
| | `HdrIsMapped` | NVENC and the CPU map no tones of HDR |
| | `NeverStale`, `ShowsSomething` | the page reads the cache's date between the two writes of a store and shows older tests, or finds the value gone |
| | `CardsAgree` | when the full VAAPI test passes and the plain one fails, the card names VAAPI and the table does not |

Others that the parts of `server_parts` and `torrent_parts` state for themselves:
`ServedIsNeverEvicted` and `StoppedBeforeDeleted` (`EvictPass`: a torrent that is opened
again during the pass is evicted while it is served, and a partfile that is a victim
itself is deleted while its torrent is in the session), `ReadingIsActive` and
`DestroyedHasEnded` (`PlaybackSessions`), `LimitIsExact` (`RateLimiter`),
`StatusIsRecent` and `TestsAreNotSessions` (`TranscodingAdmin`: the dashboard shows
a cache of any age, and the full VAAPI test is counted as a playback session),
`OneEvictorEver` (`EvictorClaim`), `RetiredIsUnclaimed` and `IndexKept`
(`CacheSweep`: a claim that moves from one registry to another during the sweep is
missed, and the pruned index undoes an entry saved meanwhile), `SentIsThere` and
`DoneIsWhole` (`EmbeddedAss`: fonts are deleted without the lock of their file, so that
a directory may be emptied after the check and before the mark; it then stays marked
as done without its fonts, and every later request for them fails until the file is
given up).

Observed while modelling, and kept in the models:

* VPN: a disconnect while the supervisor waits for the resolver, followed by a
  connect, leaves Gluetun's tunnel stopped (`held`). `READY_FILE` is removed when a
  child is recycled and not written again. `activate` writes the markers before it
  takes `VPN_LOCK`, and may answer 409 and have switched.
* Updates: `SERVER_VERSION`s are compared twice before the worker waits for the lock, and
  under it only `FORK_VERSION`s, for being equal; what keeps a server from being downgraded
  is that the release is read once more there, as long as the branch goes forward.
* Playback: `focus_file` sets the sequential mode without the adaptive picker's own
  record of it.
* Library: a reset for another owner leaves the former owner's sessions valid until
  they expire; a restart forgets the rate limiter.
* Pipeline: the server chooses VAAPI from the device node alone and never asks which
  encoders there are; the wrapper probes source and encoders twice, and a probe
  that fails in between keeps the copy.

## 7. Not modelled

The components listed with status `not_modelled` in `PROJECT.json`, each with its
reason, and of the others what their notes say: the audio, subtitle and playlist
options of ffmpeg's command line, the content of files and pieces, trackers and
statistics, the matching of titles to files by name, text conversions, the
rewriting of playlists, the tickets of the local reader, status pages and logs.
libtorrent, Gluetun, Docker and ffmpeg are modelled by what the code calls on
them: metadata, data and failures come at any time. Files are read and renamed
whole; a crash loses no renamed file.

## 8. Running

`tlc -config X.cfg MCModule` runs a configuration (the module of each is in
`PROJECT.json`); `tlapm MProofs.tla` checks the proofs about a module `M`
(`TranscodeRegistry`, `FileSelection`, `RegistryFile`, `StreamActivity`,
`ServerUpdate`, `VpnGateway`, `TorrentParts`, `ServerParts`; the last takes about ten
minutes). `server_parts` (1.3 million states), `torrent_parts` (1.8 million) and
`playback_window` take more than a minute each, the others seconds to a few minutes.
