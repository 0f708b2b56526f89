--------------------------- MODULE CameraPipeline ---------------------------
(***************************************************************************)
(* The camera pipeline: a producer captures frames and publishes the       *)
(* latest one, a consumer classifies and shows it (runInference, which     *)
(* main starts), a logger prints what was counted in every period, and     *)
(* main waits for them.  They stop each other through the flag running.    *)
(*                                                                         *)
(* A frame is its sequence number.  cv::Mat shares its pixels when it is   *)
(* copied, and a capture writes into the matrix it is given, so every      *)
(* frame made from the producer's matrix has the same pixels.  The         *)
(* statistics keep what is counted of frames; the counters of empty polls  *)
(* and failed reads, the latencies and the printing are left out.          *)
(***************************************************************************)
EXTENDS Integers

CONSTANTS
    RETRY_COUNT,
    MaxFrames       \* bound: the frames the camera delivers before it fails

ASSUME CameraAssumption == RETRY_COUNT \in Nat /\ MaxFrames \in Nat

VARIABLES
    running,        \* main's flag
    is_running,     \* the logger's
    producer, consumer, logger, main,   \* where the threads are
    seq_,           \* the producer's next sequence number
    retry_count,
    pixels,         \* the capture whose pixels the producer's matrix holds
    frame_,         \* the published frame
    snapshot,       \* the consumer's
    last_seen_seq_,
    lifetime_stats_, windowed_stats_,
    logged          \* what the windows printed so far add up to

source == <<producer, seq_, retry_count, pixels>>
sink == <<consumer, snapshot, last_seen_seq_>>
stats == <<lifetime_stats_, windowed_stats_, logged>>
camVars == <<running, is_running, logger, main, frame_, source, sink, stats>>

\* No frame yet.
None == -1
Frames == 0 .. MaxFrames - 1

\* Of FrameStats: the frames recorded, those dropped between them, the last.
Stats == [frame_count : Nat, dropped_frames : Nat, last_seq : Frames \cup {None}]
Fresh(last) == [frame_count |-> 0, dropped_frames |-> 0, last_seq |-> last]

CamTypeOK ==
    /\ running \in BOOLEAN /\ is_running \in BOOLEAN
    /\ producer \in {"open", "check", "read", "publish", "done"}
    /\ consumer \in {"check", "get", "infer", "record", "show", "stop", "join", "done"}
    /\ logger \in {"check", "snapshot", "done"}
    /\ main \in {"producer", "consumer", "stop", "join", "done"}
    /\ seq_ \in 0 .. MaxFrames
    /\ retry_count \in 0 .. RETRY_COUNT
    /\ {pixels, frame_, snapshot, last_seen_seq_} \subseteq Frames \cup {None}
    /\ {lifetime_stats_, windowed_stats_, logged} \subseteq Stats

\* main has started the logger, the producer and the consumer.
CamInit ==
    /\ running = TRUE /\ is_running = TRUE
    /\ producer = "open" /\ consumer = "check" /\ logger = "check"
    /\ main = "producer"
    /\ seq_ = 0 /\ retry_count = RETRY_COUNT
    /\ pixels = None /\ frame_ = None
    /\ snapshot = None /\ last_seen_seq_ = None
    /\ lifetime_stats_ = Fresh(None) /\ windowed_stats_ = Fresh(None)
    /\ logged = Fresh(None)

----------------------------------------------------------------------------
(* Producer::run                                                           *)

\* The device opens, or the producer stops everything.
OpenCamera ==
    /\ producer = "open"
    /\ \/ producer' = "check" /\ UNCHANGED running
       \/ producer' = "done" /\ running' = FALSE
    /\ UNCHANGED <<is_running, logger, main, frame_, seq_, retry_count, pixels, sink,
                   stats>>

Check ==
    /\ producer = "check"
    /\ producer' = IF running THEN "read" ELSE "done"
    /\ UNCHANGED <<running, is_running, logger, main, frame_, seq_, retry_count, pixels,
                   sink, stats>>

\* capture_.read writes the pixels of img in place.
ReadFrame ==
    /\ producer = "read"
    /\ seq_ < MaxFrames
    /\ pixels' = seq_
    /\ retry_count' = RETRY_COUNT
    /\ producer' = "publish"
    /\ UNCHANGED <<running, is_running, logger, main, frame_, seq_, sink, stats>>

\* Gives up without telling anybody.
SlipReadFails ==
    /\ producer = "read"
    /\ IF retry_count = 0
       THEN producer' = "done" /\ UNCHANGED retry_count
       ELSE producer' = "check" /\ retry_count' = retry_count - 1
    /\ UNCHANGED <<running, is_running, logger, main, frame_, seq_, pixels, sink, stats>>

\* RETRY_COUNT failures in a row are forgiven, the next one ends the stream.
ReadFails ==
    /\ producer = "read"
    /\ IF retry_count = 0
       THEN producer' = "done" /\ running' = FALSE /\ UNCHANGED retry_count
       ELSE producer' = "check" /\ retry_count' = retry_count - 1 /\ UNCHANGED running
    /\ UNCHANGED <<is_running, logger, main, frame_, seq_, pixels, sink, stats>>

\* The frame shares the pixels of img.
Publish ==
    /\ producer = "publish"
    /\ frame_' = seq_
    /\ seq_' = seq_ + 1
    /\ producer' = "check"
    /\ UNCHANGED <<running, is_running, logger, main, retry_count, pixels, sink, stats>>

----------------------------------------------------------------------------
(* Consumer::runInference                                                  *)

StillRuns ==
    /\ consumer = "check"
    /\ consumer' = IF running THEN "get" ELSE "done"
    /\ UNCHANGED <<running, is_running, logger, main, frame_, source, snapshot,
                   last_seen_seq_, stats>>

\* Takes the latest frame, even the one it has just shown.
SlipGet ==
    /\ consumer = "get"
    /\ IF frame_ = None
       THEN consumer' = "check" /\ UNCHANGED snapshot
       ELSE consumer' = "infer" /\ snapshot' = frame_
    /\ UNCHANGED <<running, is_running, logger, main, frame_, source, last_seen_seq_,
                   stats>>

\* Takes the latest frame; without one, or with the one seen last, it sleeps.
Get ==
    /\ consumer = "get"
    /\ IF frame_ \in {None, last_seen_seq_}
       THEN consumer' = "check" /\ UNCHANGED snapshot
       ELSE consumer' = "infer" /\ snapshot' = frame_
    /\ UNCHANGED <<running, is_running, logger, main, frame_, source, last_seen_seq_,
                   stats>>

\* Clones and classifies the image.
Infer ==
    /\ consumer = "infer"
    /\ consumer' = "record"
    /\ UNCHANGED <<running, is_running, logger, main, frame_, source, snapshot,
                   last_seen_seq_, stats>>

\* FrameStats::record_frame
Recorded(s, seq) ==
    [frame_count |-> s.frame_count + 1,
     dropped_frames |-> s.dropped_frames + (seq - s.last_seq - 1),
     last_seq |-> seq]

\* PipelineStats::record_frame, under its mutex.
Record ==
    /\ consumer = "record"
    /\ lifetime_stats_' = Recorded(lifetime_stats_, snapshot)
    /\ windowed_stats_' = Recorded(windowed_stats_, snapshot)
    /\ last_seen_seq_' = snapshot
    /\ consumer' = "show"
    /\ UNCHANGED <<running, is_running, logger, main, frame_, source, snapshot, logged>>

\* Shows the frame, and stops when q is pressed.
Show ==
    /\ consumer = "show"
    /\ \/ consumer' = "check" /\ UNCHANGED running
       \/ consumer' = "stop" /\ running' = FALSE
    /\ snapshot' = None
    /\ UNCHANGED <<is_running, logger, main, frame_, source, last_seen_seq_, stats>>

----------------------------------------------------------------------------
(* The logger, and who stops it: the consumer that was told to quit, main  *)

StopLogger ==
    /\ consumer = "stop"
    /\ is_running' = FALSE
    /\ consumer' = "join"
    /\ UNCHANGED <<running, logger, main, frame_, source, snapshot, last_seen_seq_,
                   stats>>

JoinLogger ==
    /\ consumer = "join" /\ logger = "done"
    /\ consumer' = "done"
    /\ UNCHANGED <<running, is_running, logger, main, frame_, source, snapshot,
                   last_seen_seq_, stats>>

LogAgain ==
    /\ logger = "check"
    /\ logger' = IF is_running THEN "snapshot" ELSE "done"
    /\ UNCHANGED <<running, is_running, main, frame_, source, sink, stats>>

\* Forgets which frame was the last.
SlipLog ==
    /\ logger = "snapshot"
    /\ logged' = [frame_count |-> logged.frame_count + windowed_stats_.frame_count,
                  dropped_frames |->
                      logged.dropped_frames + windowed_stats_.dropped_frames,
                  last_seq |-> windowed_stats_.last_seq]
    /\ windowed_stats_' = Fresh(None)
    /\ logger' = "check"
    /\ UNCHANGED <<running, is_running, main, frame_, source, sink, lifetime_stats_>>

\* A period later it takes the window, under the mutex, and prints it.
Log ==
    /\ logger = "snapshot"
    /\ logged' = [frame_count |-> logged.frame_count + windowed_stats_.frame_count,
                  dropped_frames |->
                      logged.dropped_frames + windowed_stats_.dropped_frames,
                  last_seq |-> windowed_stats_.last_seq]
    /\ windowed_stats_' = Fresh(windowed_stats_.last_seq)
    /\ logger' = "check"
    /\ UNCHANGED <<running, is_running, main, frame_, source, sink, lifetime_stats_>>

JoinNext ==
    /\ \/ main = "producer" /\ producer = "done" /\ main' = "consumer"
       \/ main = "consumer" /\ consumer = "done" /\ main' = "stop"
    /\ UNCHANGED <<running, is_running, logger, frame_, source, sink, stats>>

StopStats ==
    /\ main = "stop"
    /\ is_running' = FALSE
    /\ main' = "join"
    /\ UNCHANGED <<running, logger, frame_, source, sink, stats>>

EndMain ==
    /\ main = "join" /\ logger = "done"
    /\ main' = "done"
    /\ UNCHANGED <<running, is_running, logger, frame_, source, sink, stats>>

----------------------------------------------------------------------------
Produce == OpenCamera \/ Check \/ ReadFrame \/ ReadFails \/ Publish
Consume == StillRuns \/ Get \/ Infer \/ Record \/ Show \/ StopLogger \/ JoinLogger
Report == LogAgain \/ Log
Wait == JoinNext \/ StopStats \/ EndMain

CamNext == Produce \/ Consume \/ Report \/ Wait

\* Every thread runs: a read, a classification and a wait for a key return.
CamFairness ==
    /\ WF_camVars(Produce) /\ WF_camVars(Consume) /\ WF_camVars(Report) /\ WF_camVars(Wait)

CamSpec == CamInit /\ [][CamNext]_camVars /\ CamFairness

----------------------------------------------------------------------------
(* Properties                                                              *)

(***************************************************************************)
(* Every frame up to the last one shown is counted once, as shown or as    *)
(* dropped: in the lifetime's figures, and in one window, printed or       *)
(* current, whenever the logger takes a window away.                       *)
(***************************************************************************)
Accounted ==
    /\ lifetime_stats_.frame_count + lifetime_stats_.dropped_frames
           = lifetime_stats_.last_seq + 1
    /\ lifetime_stats_.last_seq = last_seen_seq_ /\ last_seen_seq_ <= frame_
    /\ logged.frame_count + windowed_stats_.frame_count = lifetime_stats_.frame_count
    /\ logged.dropped_frames + windowed_stats_.dropped_frames
           = lifetime_stats_.dropped_frames

(***************************************************************************)
(* When the producer gives up, or q is pressed, everything ends: each      *)
(* thread sees the flag, the logger is joined once by whoever stops it     *)
(* first, and main returns.                                                *)
(***************************************************************************)
Ends == (producer = "done" \/ consumer = "stop") ~> (main = "done")

\* "Frame should be immutable by design": the consumer reads the pixels that
\* were captured with the frame.  The next capture overwrites them.
FrameImmutable == consumer = "infer" => pixels = snapshot

\* "Consumer must record every frame in the stats": at the end every frame is
\* in a printed window.  The last window is not printed when the logger looks
\* at its flag right after the window before.
AllLogged == main = "done" => windowed_stats_.frame_count = 0
=============================================================================
