----------------------------- MODULE MCDaemon -------------------------------
(* A sound host, and hosts that differ from it in one respect or two: the  *)
(* mode, the services, worker.yaml, the machine, the daemon's catalogue.   *)
EXTENDS Daemon, TLC

Offer(id, price, preset) ==
  [id |-> id, price |-> price, url |-> TRUE, preset |-> preset]
Cap(name, unit, offerings) ==
  [name |-> name, unit |-> unit, offerings |-> offerings]
Price(n, d) == [absent |-> FALSE, price |-> n, pixels |-> d]
Row(id) == [id |-> id, price |-> Price(7, 2)]

Frames == "video_frame_megapixel"
VOD == Cap("vod", Frames, <<Offer("a", 3, "p2"), Offer("p1", 2, "")>>)
Live == Cap("live", Frames, <<Offer("b", 1, "p1")>>)

File == [readable |-> TRUE, known |-> TRUE, documents |-> 1,
         publisher |-> FALSE, protocol |-> 1, payee |-> TRUE, eth |-> "",
         token |-> "", listen |-> ":80", socket |-> "s", caps |-> <<VOD, Live>>]

Files ==
  {File, [File EXCEPT !.documents = 2], [File EXCEPT !.publisher = TRUE],
   [File EXCEPT !.socket = " "], [File EXCEPT !.listen = ""],
   [File EXCEPT !.protocol = 2], [File EXCEPT !.eth = "mixed"],
   [File EXCEPT !.caps = <<VOD, VOD>>], [File EXCEPT !.caps = <<Live, VOD>>],
   [File EXCEPT !.caps = <<[VOD EXCEPT !.unit = "second"]>>],
   [File EXCEPT !.caps = <<[VOD EXCEPT !.offerings = <<>>], Live>>],
   [File EXCEPT !.caps = <<[Live EXCEPT !.offerings[1].price = 0], VOD>>]}

Listing == <<Cap("live", Frames, <<Row("b")>>),
             Cap("vod", Frames, <<Row("p1"), Row("a")>>)>>
Listings ==
  {Listing, <<Listing[1]>>, [Listing EXCEPT ![1].unit = "token"],
   [Listing EXCEPT ![2].offerings[2].id = "p1"],
   [Listing EXCEPT ![2].offerings[1].price =
      [absent |-> TRUE, price |-> 0, pixels |-> 0]],
   [Listing EXCEPT ![2].offerings[1].price = Price(5, 0)],
   [Listing EXCEPT ![2].name = "live"]}

Rung(name, codec, kbps, live) ==
  [name |-> name, codec |-> codec, width |-> 2, height |-> 1, kbps |-> kbps,
   live |-> live]
Streaming == <<Rung("p1", "h264", 2, FALSE), Rung("p1-live", "h264", 3, TRUE),
               Rung("p2-live", "av1", 3, TRUE), Rung("p3-live", "hevc", 1, TRUE)>>
PresetFiles ==
  {Streaming, <<>>, <<Rung("p3", "vp9", 1, FALSE)>>,
   <<Rung("p3", "h264", 0, FALSE)>>, <<Rung("p2", "av1", 1, FALSE)>>,
   <<Rung("p2", "av1", 1, FALSE), Rung("p3", "hevc", 2, FALSE)>>}

Flags == [Default EXCEPT !.grpcSocket = "g", !.shellURL = "u", !.shellSecret = "x"]

Sound ==
  [flags |-> Flags, config |-> TRUE, file |-> File, ffmpeg |-> TRUE,
   smi |-> [ok |-> TRUE, sessions |-> 8, codecs |-> {"h264", "hevc"}],
   vainfo |-> [ok |-> TRUE, codecs |-> {"h264"}], store |-> TRUE,
   presets |-> Streaming, sink |-> TRUE,
   daemon |-> [answers |-> TRUE, caps |-> Listing]]

With(flags) == [Sound EXCEPT !.flags = flags]

BadFlags ==
  {[Flags EXCEPT !.vendor = "bogus"], [Flags EXCEPT !.ffmpegBin = ""],
   [Flags EXCEPT !.maxQueueSize = 0], [Flags EXCEPT !.liveCostScale = 0],
   [Flags EXCEPT !.debitCadence = 0], [Flags EXCEPT !.grace = 0],
   [Flags EXCEPT !.mode = "vod", !.grace = 0], [Flags EXCEPT !.shellSecret = ""]}

MCHosts ==
  {With([Flags EXCEPT !.mode = m, !.grpcSocket = g, !.metricsListen = x]) :
     m \in {"all", "vod", "abr", "live", "bogus"}, g, x \in {"", "g"}}
  \cup {With(f) : f \in BadFlags}
  \cup {[Sound EXCEPT !.file = f] : f \in Files}
  \cup {[Sound EXCEPT !.daemon.caps = l] : l \in Listings}
  \cup {[Sound EXCEPT !.presets = p] : p \in PresetFiles}
  \cup {[Sound EXCEPT !.flags = [Default EXCEPT !.dev = TRUE, !.httpListen = ""],
                      !.config = c] : c \in BOOLEAN}
  \cup {[Sound EXCEPT !.config = FALSE, !.flags = [@ EXCEPT !.paymentSocket = s]] :
          s \in {"", "s"}}
  \cup {[Sound EXCEPT !.config = FALSE, !.flags = [@ EXCEPT !.httpListen = ""]]}
  \cup {[Sound EXCEPT !.flags = [@ EXCEPT !.vendor = v], !.smi.ok = FALSE, !.vainfo = c] :
          v \in {"auto", "nvidia", "intel", "amd", "none"},
          c \in [ok : BOOLEAN, codecs : {{}, {"h264"}}]}
  \cup {[Sound EXCEPT !.smi = [ok |-> TRUE, sessions |-> 0, codecs |-> Codecs],
                      !.flags = [@ EXCEPT !.vendor = v]] : v \in {"nvidia", "none"}}
  \cup {[Sound EXCEPT !.store = FALSE, !.flags = [@ EXCEPT !.storePath = p]] :
          p \in {"", "db"}}
  \cup {[Sound EXCEPT !.ffmpeg = FALSE], [Sound EXCEPT !.sink = FALSE],
        [Sound EXCEPT !.daemon.answers = FALSE]}
=============================================================================
