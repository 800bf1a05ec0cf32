------------------------------- MODULE Daemon -------------------------------
(***************************************************************************)
(* The process (cmd/livepeer-video-worker-node, internal/runtime/lifecycle *)
(* and the listeners): run reads its flags and worker.yaml, refuses what   *)
(* does not fit, probes the GPU, loads the presets, compares catalogues    *)
(* with the payment daemon, wires the runners and hands over to            *)
(* lifecycle.Run, which starts every service in a goroutine and waits for  *)
(* a signal or for the first fatal error.                                  *)
(*                                                                         *)
(* The signal may come at any time.  Jobs and sessions are elsewhere.  The *)
(* operator listener registers no service: it binds, serves and stops, and *)
(* nothing can be asked of it.                                             *)
(***************************************************************************)
EXTENDS Catalog, Functions

CONSTANT Hosts  \* what the process may be started with, and on

VARIABLES
  host,      \* the flags, worker.yaml and the machine, fixed
  at,        \* where run is
  code,      \* the exit code, -1 while running
  cfg,       \* config.Config: the flags, then worker.yaml over them
  gpu,       \* the detected profile
  presets,   \* Loader.cat
  ladder,    \* the live ladder, made once
  service,   \* the goroutines of lifecycle.Run
  srv,       \* grpc Server.srv is set
  missed,    \* grpc Stop found no server to stop
  signalled, \* the root context is done
  fatal,     \* an error is in the errs channel
  failed     \* Run woke up for it

vars == <<host, at, code, cfg, gpu, presets, ladder, service, srv,
          missed, signalled, fatal, failed>>
made == <<cfg, gpu, presets, ladder>>
running == <<service, srv, missed, fatal, failed>>

------------------------------------------------------------------------------
Modes == {"all", "vod", "abr", "live"}
Serves(mode, runner) == mode \in {"all", runner}
Vendors == {"auto", "nvidia", "intel", "amd", "none"}
Codecs == {"h264", "hevc", "av1"}

Services == {"jobs", "abr", "http", "grpc", "metrics"}
States == {"off", "starting", "bound", "up", "returned"}
Places == {"flags", "config", "preflight", "store", "payment", "runners",
           "surfaces", "serving", "stopping", "live", "wait", "exited"}

NoGPU == [vendor |-> "none", sessions |-> 0, codecs |-> {}]

(* The fields of config.Config that decide something here.  Durations are  *)
(* in seconds, cost scales in hundredths.                                  *)
Config ==
  [mode : STRING, dev : BOOLEAN, vendor : STRING, ffmpegBin : STRING,
   maxQueueSize : Int, tempDir : STRING, batchCostScale : Int,
   liveCostScale : Int, presetsFile : STRING, httpListen : STRING,
   grpcSocket : STRING, metricsListen : STRING, storePath : STRING,
   paymentSocket : STRING, debitCadence : Int, preCredit : Int, runway : Int,
   grace : Int, restartLimit : Int, shellURL : STRING, shellSecret : STRING,
   authToken : STRING, caps : Seq(Capability)]

Default ==
  [mode |-> "all", dev |-> FALSE, vendor |-> "auto", ffmpegBin |-> "ffmpeg",
   maxQueueSize |-> 5, tempDir |-> "tmp", batchCostScale |-> 100,
   liveCostScale |-> 125, presetsFile |-> "presets", httpListen |-> ":8080",
   grpcSocket |-> Unset, metricsListen |-> Unset, storePath |-> Unset,
   paymentSocket |-> Unset, debitCadence |-> 5, preCredit |-> 1, runway |-> 30,
   grace |-> 60, restartLimit |-> 3, shellURL |-> Unset, shellSecret |-> Unset,
   authToken |-> Unset, caps |-> <<>>]

(* A preset; live says that its name ends in "-live". *)
Preset == [name : STRING, codec : STRING, width : Int, height : Int,
           kbps : Int, live : BOOLEAN]

(* The command line, worker.yaml and what the machine answers: the files   *)
(* that can be opened, the probes, the payment daemon's catalogue.         *)
Host ==
  [flags : Config, config : BOOLEAN, file : SharedConfig, ffmpeg : BOOLEAN,
   smi : [ok : BOOLEAN, sessions : Nat, codecs : SUBSET Codecs],
   vainfo : [ok : BOOLEAN, codecs : SUBSET Codecs],
   store : BOOLEAN, presets : Seq(Preset), sink : BOOLEAN,
   daemon : [answers : BOOLEAN, caps : Seq([name : STRING, unit : STRING,
               offerings : Seq([id : STRING, price : PriceInfo])])]]

(* No flag holds a catalogue: it comes from worker.yaml or not at all. *)
ASSUME DaemonAssumption ==
  /\ Hosts \subseteq Host /\ \A h \in Hosts : h.flags.caps = <<>>

Init ==
  /\ host \in Hosts
  /\ at = "flags" /\ code = -1
  /\ cfg = host.flags
  /\ gpu = NoGPU /\ presets = <<>> /\ ladder = <<>>
  /\ service = [s \in Services |-> "off"]
  /\ srv = FALSE /\ missed = FALSE
  /\ signalled = FALSE /\ fatal = FALSE /\ failed = FALSE

------------------------------------------------------------------------------
(* run, step by step. *)

Exit(c) == at' = "exited" /\ code' = c
Step(place) == at' = place /\ UNCHANGED code

(* The configuration with what p says in place of what it said. *)
Over(p) == [cfg EXCEPT !.authToken = p.authToken, !.httpListen = p.httpListen,
                       !.paymentSocket = p.paymentSocket, !.caps = p.caps]

(* The shared worker.yaml, if one is given, replaces the flags' catalogue, *)
(* socket, listen address and token, an empty token included.              *)
LoadSharedWorker ==
  /\ at = "flags"
  /\ \/ ~host.config /\ Step("config") /\ UNCHANGED cfg
     \/ /\ host.config /\ Parses(host.file) /\ validateSharedConfig(host.file)
        /\ cfg' = Over(projectSharedConfig(host.file))
        /\ Step("config")
     \/ /\ host.config /\ ~(Parses(host.file) /\ validateSharedConfig(host.file))
        /\ Exit(2) /\ UNCHANGED cfg
  /\ UNCHANGED <<host, gpu, presets, ladder, running, signalled>>

(* Config.Validate: what every mode needs, what live mode needs, and no    *)
(* payment socket in --dev.                                                *)
Valid ==
  /\ cfg.mode \in Modes /\ cfg.vendor \in Vendors
  /\ Unset \notin {cfg.ffmpegBin, cfg.tempDir, cfg.presetsFile}
  /\ cfg.httpListen # Unset \/ cfg.dev
  /\ \A n \in {cfg.maxQueueSize, cfg.batchCostScale, cfg.liveCostScale} : n > 0
  /\ Serves(cfg.mode, "live") =>
       \A n \in {cfg.debitCadence, cfg.preCredit, cfg.runway, cfg.grace,
                 cfg.restartLimit} : n > 0
  /\ ~(cfg.dev /\ cfg.paymentSocket # Unset)

Validate ==
  /\ at = "config"
  /\ IF Valid THEN Step("preflight") ELSE Exit(2)
  /\ UNCHANGED <<host, made, running, signalled>>

(* SystemDetector.Detect on what nvidia-smi and vainfo say, and the fake   *)
(* detector of --dev.  vainfo does not tell Intel from AMD, so "auto"      *)
(* calls both Intel.  A data-centre card has no session limit: 0.          *)
Nvidia == [vendor |-> "nvidia", sessions |-> host.smi.sessions,
           codecs |-> host.smi.codecs]

Vaapi(vendor) ==
  [vendor |-> vendor, sessions |-> 16, codecs |-> host.vainfo.codecs]

Detect ==
  IF cfg.dev THEN {[vendor |-> "nvidia", sessions |-> 0, codecs |-> Codecs]}
  ELSE LET v == cfg.vendor IN
       CASE v \in {"auto", "nvidia"} /\ host.smi.ok -> {Nvidia}
         [] v = "auto" /\ ~host.smi.ok /\ host.vainfo.ok -> {Vaapi("intel")}
         [] v \in {"intel", "amd"} /\ host.vainfo.ok -> {Vaapi(v)}
         [] OTHER -> {}

(* preflight.Run: ffmpeg, then the GPU; the probes run on the root context. *)
Preflight ==
  /\ at = "preflight"
  /\ LET ok == (cfg.dev \/ (host.ffmpeg /\ ~signalled)) /\ Detect # {} IN
     IF ok THEN gpu' \in Detect /\ Step("store")
           ELSE UNCHANGED gpu /\ Exit(1)
  /\ UNCHANGED <<host, cfg, presets, ladder, running, signalled>>

ValidPreset(p) == /\ p.name # Unset /\ p.codec \in Codecs
                  /\ p.width > 0 /\ p.height > 0 /\ p.kbps > 0
ParseBytes(f) == f # <<>> /\ \A k \in DOMAIN f : ValidPreset(f[k])

(* Loader.Reload, at startup: the catalogue is replaced by one that parses. *)
Reload(f) == ParseBytes(f) /\ presets' = f

(* The store is opened and the presets are loaded. *)
LoadPresets ==
  /\ at = "store"
  /\ \/ /\ host.store \/ cfg.storePath = Unset
        /\ Reload(host.presets) /\ Step("payment")
     \/ /\ ~((host.store \/ cfg.storePath = Unset) /\ ParseBytes(host.presets))
        /\ Exit(1) /\ UNCHANGED presets
  /\ UNCHANGED <<host, cfg, gpu, ladder, running, signalled>>

(* The catalogues are compared before a payment client is used; without a  *)
(* socket, or in --dev, the in-memory broker takes its place.              *)
Payment ==
  /\ at = "payment"
  /\ IF cfg.paymentSocket = Unset \/ cfg.dev THEN Step("runners")
     ELSE IF /\ host.daemon.answers /\ ~signalled
             /\ verifyPaymentDaemonCatalog(cfg.caps, Listed(host.daemon.caps))
          THEN Step("runners") ELSE Exit(1)
  /\ UNCHANGED <<host, made, running, signalled>>

(* Mutant of liveLadder: the catalogue is not filtered by the GPU. *)
liveLadderUnfiltered ==
  LET tagged == Keep(presets, Where(presets, LAMBDA p : p.live))
  IN IF tagged # <<>> THEN tagged ELSE presets

(* liveLadder over the presets the GPU supports: the ones tagged live, or  *)
(* else all of them.                                                       *)
Supported(p) == p.codec \in gpu.codecs
Filter(catalogue) == Keep(catalogue, Where(catalogue, Supported))
liveLadder ==
  LET fit == Filter(presets)
      tagged == Keep(fit, Where(fit, LAMBDA p : p.live))
  IN IF tagged # <<>> THEN tagged ELSE fit

(* The runners of the mode.  A live runner needs its shell client, in --dev *)
(* a fake one, and its sink.                                                *)
Runners ==
  /\ at = "runners"
  /\ IF Serves(cfg.mode, "live")
     THEN CASE Unset \in {cfg.shellURL, cfg.shellSecret} /\ ~cfg.dev ->
                 Exit(2) /\ UNCHANGED ladder
            [] ~host.sink -> Exit(1) /\ UNCHANGED ladder
            [] OTHER -> ladder' = liveLadder /\ Step("surfaces")
     ELSE UNCHANGED ladder /\ Step("surfaces")
  /\ UNCHANGED <<host, cfg, gpu, presets, running, signalled>>

------------------------------------------------------------------------------
(* What the ladder becomes on FFmpeg's command line and in the master      *)
(* playlist.                                                               *)

(* The vendor's encoder, or libx for what no vendor encodes. *)
codecFlag(codec, vendor) ==
  LET engine == CASE vendor = "nvidia" -> "nvenc" [] vendor = "intel" -> "qsv"
                  [] vendor = "amd" -> "vaapi" [] OTHER -> "lib"
  IN <<codec, IF codec \in Codecs THEN engine ELSE "lib">>

(* A live encode: one output per rung. *)
BuildLiveArgs(rungs) ==
  [k \in DOMAIN rungs |->
     [encoder |-> codecFlag(rungs[k].codec, gpu.vendor), kbps |-> rungs[k].kbps,
      out |-> <<rungs[k].codec, rungs[k].name, "playlist.m3u8">>]]

CodecsAttribute(codec) ==
  CASE codec = "h264" -> {"avc1", "mp4a"} [] codec = "hevc" -> {"hvc1", "mp4a"}
    [] codec = "av1" -> {"av01", "mp4a"} [] OTHER -> {"mp4a"}

(* WriteMaster's renditions. *)
Renditions(rungs) ==
  [k \in DOMAIN rungs |->
     [bandwidth |-> rungs[k].kbps * 1000,
      uri |-> <<rungs[k].codec, rungs[k].name, "playlist.m3u8">>,
      codecs |-> CodecsAttribute(rungs[k].codec)]]

(* hls.BuildMaster: the playlists it may write, none for no renditions;    *)
(* sort.Slice leaves the order of equal bandwidths open.                   *)
BuildMaster(r) ==
  IF r = <<>> THEN {}
  ELSE {m \in {[k \in DOMAIN r |-> r[order[k]]] :
                 order \in Bijection(DOMAIN r, DOMAIN r)} :
          \A i, k \in DOMAIN m : i < k => m[i].bandwidth <= m[k].bandwidth}

------------------------------------------------------------------------------
(* lifecycle.Run *)

Wired == {s \in Services :
            CASE s = "jobs" -> Serves(cfg.mode, "vod")
              [] s = "abr" -> Serves(cfg.mode, "abr")
              [] s = "http" -> TRUE
              [] s = "grpc" -> cfg.grpcSocket # Unset
              [] s = "metrics" -> cfg.metricsListen # Unset}

Start ==
  /\ at = "surfaces"
  /\ service' = [s \in Services |-> IF s \in Wired THEN "starting" ELSE "off"]
  /\ Step("serving")
  /\ UNCHANGED <<host, made, srv, missed, fatal, failed, signalled>>

Becomes(s, state) == service' = [service EXCEPT ![s] = state]

(* Without an address http only waits for the context. *)
Listeners == {"metrics"} \cup IF cfg.httpListen = Unset THEN {} ELSE {"http"}

(* The runners and the listeners that take the context come up, or cannot  *)
(* bind; http's error is fatal, metrics' is only logged.                   *)
Up(s) ==
  /\ s # "grpc" /\ service[s] = "starting"
  /\ \/ Becomes(s, "up") /\ UNCHANGED fatal
     \/ /\ s \in Listeners
        /\ Becomes(s, "returned") /\ fatal' = (fatal \/ s = "http")
  /\ UNCHANGED <<host, at, code, made, srv, missed, failed, signalled>>

(* A listener that fails later. *)
Breaks(s) ==
  /\ s \in Listeners \cup {"grpc"} /\ service[s] = "up"
  /\ Becomes(s, "returned") /\ fatal' = (fatal \/ s = "http")
  /\ UNCHANGED <<host, at, code, made, srv, missed, failed, signalled>>

(* Everything that was given the context returns once it is done. *)
Returns(s) ==
  /\ s # "grpc" /\ service[s] = "up" /\ signalled
  /\ Becomes(s, "returned")
  /\ UNCHANGED <<host, at, code, made, srv, missed, fatal, failed, signalled>>

(* The operator listener takes no context: it binds, and only then lets    *)
(* Stop know its server.                                                   *)
GRPCBinds ==
  /\ service["grpc"] = "starting"
  /\ Becomes("grpc", "bound") \/ Becomes("grpc", "returned")
  /\ UNCHANGED <<host, at, code, made, srv, missed, fatal, failed, signalled>>

GRPCServes ==
  /\ service["grpc"] = "bound"
  /\ srv' = TRUE /\ Becomes("grpc", "up")
  /\ UNCHANGED <<host, at, code, made, missed, fatal, failed, signalled>>

(* Run waits for the context or an error; with both there, either wins. *)
Wakes ==
  /\ at = "serving"
  /\ \/ signalled /\ UNCHANGED failed
     \/ fatal /\ failed' = TRUE
  /\ Step("stopping")
  /\ UNCHANGED <<host, made, service, srv, missed, fatal, signalled>>

(* Mutant of GRPCStop: the operator listener is left to the context. *)
GRPCStopNever ==
  /\ at = "stopping"
  /\ Step("live")
  /\ UNCHANGED <<host, made, running, signalled>>

(* Stop: a server that is not known yet is not stopped. *)
GRPCStop ==
  /\ at = "stopping"
  /\ service' = [service EXCEPT !["grpc"] = IF srv THEN "returned" ELSE @]
  /\ missed' = (service["grpc"] \in {"starting", "bound"})
  /\ Step("live")
  /\ UNCHANGED <<host, made, srv, fatal, failed, signalled>>

(* LiveRunner.Shutdown: see LiveTable. *)
LiveShutdown ==
  /\ at = "live"
  /\ Step("wait")
  /\ UNCHANGED <<host, made, running, signalled>>

(* wg.Wait: every service has returned.  The error Run woke for makes the  *)
(* exit code 1; one that came later is lost.                               *)
Waits ==
  /\ at = "wait" /\ \A s \in Services : service[s] \in {"off", "returned"}
  /\ Exit(IF failed THEN 1 ELSE 0)
  /\ UNCHANGED <<host, made, running, signalled>>

------------------------------------------------------------------------------
(* SIGINT or SIGTERM. *)
Signal ==
  /\ ~signalled /\ at # "exited"
  /\ signalled' = TRUE
  /\ UNCHANGED <<host, at, code, made, running>>

Startup == LoadSharedWorker \/ Validate \/ Preflight \/ LoadPresets \/ Payment
           \/ Runners \/ Start

Stopping == Wakes \/ GRPCStop \/ LiveShutdown \/ Waits

Next ==
  \/ Startup \/ Stopping \/ GRPCBinds \/ GRPCServes \/ Signal
  \/ \E s \in Services : Up(s) \/ Breaks(s) \/ Returns(s)

(* Go runs every goroutine; nothing makes a listener fail or a signal come. *)
Fairness ==
  /\ WF_vars(Startup) /\ WF_vars(Stopping)
  /\ WF_vars(GRPCBinds) /\ WF_vars(GRPCServes)
  /\ \A s \in Services : WF_vars(Up(s)) /\ WF_vars(Returns(s))

Spec == Init /\ [][Next]_vars /\ Fairness

------------------------------------------------------------------------------
(* Properties. *)

(* Every variable has its type. *)
TypeOK ==
  /\ host \in Hosts /\ at \in Places /\ code \in {-1, 0, 1, 2}
  /\ cfg \in Config
  /\ gpu \in [vendor : {"nvidia", "intel", "amd", "none"}, sessions : Nat,
              codecs : SUBSET Codecs]
  /\ service \in [Services -> States]
  /\ srv \in BOOLEAN /\ missed \in BOOLEAN /\ signalled \in BOOLEAN
  /\ fatal \in BOOLEAN /\ failed \in BOOLEAN

Serving == at \in {"serving", "stopping", "live", "wait"}

Ids == UNION {IdsOf(cfg.caps[i]) : i \in DOMAIN cfg.caps}
Hints == {Unset} \cup UNION {{abrPresetHint(p) : p \in {<<x>>, <<x, x>>}} :
           x \in Ids \cup {presets[k].name : k \in DOMAIN presets}}

(* What the worker sells is what it bills and what the payment daemon      *)
(* knows.  A request that names a row of /registry/offerings gets exactly  *)
(* that row's capability, unit and price; and in a process that serves     *)
(* with a payment daemon, whatever request finds an offering, it is in the *)
(* daemon's own catalogue.  This takes the checks of worker.yaml, the      *)
(* comparison at startup and the resolution in the routes together.        *)
BindingsKnown ==
  Serving =>
    /\ \A row \in handleRegistryOfferings(cfg.caps) :
         resolveSessionBinding(cfg.caps, row.name, row.offering, Unset) = {row}
    /\ cfg.paymentSocket # Unset =>
         \A name \in CapabilityNames, requested \in Ids \cup {Unset, "other"},
            hint \in Hints :
         \A b \in resolveSessionBinding(cfg.caps, name, requested, hint) :
           \E k \in DOMAIN host.daemon.caps :
             LET listed == host.daemon.caps[k] IN
             /\ listed.name = b.name /\ listed.unit = b.unit
             /\ b.offering \in IdsOf(listed)

(* A live session is encoded by the GPU that was found: every output of    *)
(* its encoder names an encoder of that vendor, for a codec the GPU has,   *)
(* never one in software, whatever codecs the presets file lists.  And its *)
(* master playlist, built elsewhere from the same ladder, names exactly    *)
(* the playlists the encoder writes, each with a video codec.  Batch jobs  *)
(* look their presets up in the whole catalogue; this is not about them.   *)
EncodersOf(g) == {codecFlag(c, g.vendor) : c \in g.codecs}

LadderEncodable ==
  Serving =>
    LET outputs == BuildLiveArgs(ladder) IN
    /\ \A k \in DOMAIN outputs : /\ outputs[k].encoder \in EncodersOf(gpu)
                                 /\ outputs[k].encoder[2] # "lib"
    /\ \A m \in BuildMaster(Renditions(ladder)) :
         /\ {m[k].uri : k \in DOMAIN m} = {outputs[k].out : k \in DOMAIN outputs}
         /\ \A k \in DOMAIN m : Cardinality(m[k].codecs) = 2

(* A signal ends the process: at any point of the startup, while serving,  *)
(* and after a fatal error.  A fatal error by itself does not stop the     *)
(* services that wait for the context: it ends the process only if there   *)
(* is no batch runner and no metrics listener.  Neither does if run got to *)
(* the operator listener's Stop before the listener had a server (missed). *)
ProcessEnds ==
  (signalled \/ (fatal /\ Wired \subseteq {"http", "grpc"}))
    ~> (at = "exited" \/ missed)
=============================================================================
