----------------------------- MODULE X264Encoder -----------------------------
(***************************************************************************)
(* The x264 video encoder of mmids-gstreamer (encoders/video_x264.rs).     *)
(*                                                                         *)
(* X264Encoder::new reads the numeric parameters with get_number and puts  *)
(* them in the capsfilter's caps; it then installs an appsink new_sample   *)
(* callback that owns the flag sent_codec_data.  push_data feeds the       *)
(* appsrc: a sequence header becomes the source's codec data, any other    *)
(* buffer is pushed.  Every sample the appsink emits runs sample_received  *)
(* on the streaming thread: the first successful call sends the H264      *)
(* sequence header pulled from h264parse, then each call sends the         *)
(* sample as a video frame.  An error from the callback is returned to     *)
(* GStreamer as FlowError::Error, which stops the streaming thread.        *)
(*                                                                         *)
(* Parameter strings are abstracted to the integer they spell (or Junk):   *)
(* parsing a u32 is then a range check.  Payloads and timestamps are left  *)
(* out except that a header carries timestamp zero and a frame carries     *)
(* the number of the sample it came from.                                  *)
(***************************************************************************)
EXTENDS Integers, Sequences

CONSTANTS
    ParamValues,   \* the parameter strings, as the integer they spell or Junk
    Junk,          \* a parameter string that is not a decimal number
    NoEntry,       \* the key is absent from the parameter map
    NoValue,       \* the key is present with value None
    None,          \* Option::None
    MaxPushes,     \* bound on push_data calls
    Bits           \* integer width: 32 in the code (u32, i32)

Keys == {"height", "width", "fps"}

\* The largest u32 (with Bits = 32).
UMax == 2^Bits - 1

\* `n as i32` for a u32 n: two's complement reinterpretation of the bits.
AsI32(n) == IF n >= 2^(Bits - 1) THEN n - 2^Bits ELSE n

\* get_number: `inner.parse::<u32>()`, None (with a warning) when the key is
\* absent, has no value, or does not parse.
GetNumber(parameters, key) ==
    LET s == parameters[key] IN
    IF s \in Int /\ s \in 0..UMax THEN s ELSE None

\* The caps built in X264Encoder::new: a field only for a parameter that
\* parsed; the framerate is Fraction::new(fps as i32, 1).
CapsOf(parameters) ==
    [height |-> GetNumber(parameters, "height"),
     width |-> GetNumber(parameters, "width"),
     framerate |-> IF GetNumber(parameters, "fps") = None THEN None
                   ELSE AsI32(GetNumber(parameters, "fps"))]

\* MediaNotificationContent::Video as sent by sample_received.
Video(isHeader, sample) ==
    [is_sequence_header |-> isHeader, sample |-> sample]

VARIABLES
    parameters,       \* the parameter map given to X264EncoderGenerator::create
    caps,             \* the capsfilter's caps
    pushed,           \* buffers pushed into the appsrc so far
    in_pipeline,      \* pushed buffers not yet emitted or dropped by the pipeline
    samples,          \* samples the appsink has handed to new_sample
    sent_codec_data,  \* the flag captured by the new_sample closure
    flowing,          \* the streaming thread has not stopped on a flow error
    rx_open,          \* the receiver of media_sender is alive
    media             \* what media_sender delivered, in order

vars == <<parameters, caps, pushed, in_pipeline, samples,
          sent_codec_data, flowing, rx_open, media>>

TypeOK ==
    /\ parameters \in [Keys -> ParamValues \cup {Junk, NoEntry, NoValue}]
    /\ sent_codec_data \in BOOLEAN
    /\ flowing \in BOOLEAN /\ rx_open \in BOOLEAN
    /\ pushed \in 0..MaxPushes /\ in_pipeline \in 0..pushed
    /\ samples \in 0..pushed
    \* one frame per sample and at most one header
    /\ media \in Seq([is_sequence_header : BOOLEAN, sample : 0..MaxPushes])
    /\ Len(media) <= samples + 1

\* `let _ = media_sender.send(..)`: lost once the receiver is gone.
Send(msgs) == media' = IF rx_open THEN media \o msgs ELSE media

-----------------------------------------------------------------------------
\* The frame sent for the next sample, if SampleResult::from_sink succeeded.
Frame(sampleOk) == IF sampleOk THEN <<Video(FALSE, samples + 1)>> ELSE <<>>

\* Fault: the flag is never consulted, every sample gets a header.
SampleMessagesAlwaysHeader(sampleOk) == <<Video(TRUE, 0)>> \o Frame(sampleOk)

\* Fault: the frame is sent before the header.
SampleMessagesFrameFirst(sampleOk) ==
    Frame(sampleOk) \o (IF sent_codec_data THEN <<>> ELSE <<Video(TRUE, 0)>>)

\* What one successful pass of sample_received sends: the sequence header
\* while sent_codec_data is unset, then the frame.
SampleMessages(sampleOk) ==
    (IF sent_codec_data THEN <<>> ELSE <<Video(TRUE, 0)>>) \o Frame(sampleOk)

-----------------------------------------------------------------------------
\* X264Encoder::new succeeded for some parameter map (a failure to build
\* the pipeline leaves no encoder, so nothing to model).
Init ==
    /\ parameters \in [Keys -> ParamValues \cup {Junk, NoEntry, NoValue}]
    /\ caps = CapsOf(parameters)
    /\ pushed = 0 /\ in_pipeline = 0 /\ samples = 0
    /\ sent_codec_data = FALSE /\ flowing = TRUE /\ rx_open = TRUE
    /\ media = <<>>

\* push_data of a frame: set_gst_buffer then appsrc.push_buffer.  A
\* sequence header only becomes the appsrc's caps, which the pipeline
\* (the environment) reads; it changes no state of this model.
PushFrame ==
    /\ pushed < MaxPushes
    /\ pushed' = pushed + 1 /\ in_pipeline' = in_pipeline + 1
    /\ UNCHANGED <<parameters, caps, samples, sent_codec_data,
                   flowing, rx_open, media>>

\* The new_sample callback, sample_received, for the next sample.
\* codecOk: get_codec_data_from_element succeeded (only asked while the
\* flag is unset); sampleOk: SampleResult::from_sink succeeded.  Either
\* error makes the callback return FlowError::Error.
SampleReceived(codecOk, sampleOk) ==
    /\ flowing /\ in_pipeline > 0
    /\ in_pipeline' = in_pipeline - 1 /\ samples' = samples + 1
    /\ IF ~sent_codec_data /\ ~codecOk
       THEN /\ flowing' = FALSE
            /\ UNCHANGED <<sent_codec_data, media>>
       ELSE /\ Send(SampleMessages(sampleOk))
            /\ sent_codec_data' = TRUE
            /\ flowing' = sampleOk
    /\ UNCHANGED <<parameters, caps, pushed, rx_open>>

\* decodebin consumes a buffer without output (for instance a frame pushed
\* before the sequence header).
PipelineDrops ==
    /\ in_pipeline > 0
    /\ in_pipeline' = in_pipeline - 1
    /\ UNCHANGED <<parameters, caps, pushed, samples,
                   sent_codec_data, flowing, rx_open, media>>

\* The consumer of the encoder's media drops its receiver.
ReceiverDropped ==
    /\ rx_open /\ rx_open' = FALSE
    /\ UNCHANGED <<parameters, caps, pushed, in_pipeline, samples,
                   sent_codec_data, flowing, media>>

Next ==
    \/ PushFrame
    \/ \E codecOk, sampleOk \in BOOLEAN : SampleReceived(codecOk, sampleOk)
    \/ PipelineDrops \/ ReceiverDropped

Spec == Init /\ [][Next]_vars

-----------------------------------------------------------------------------
(* Properties.                                                             *)

\* sample_received: the consumer gets the H264 sequence header exactly once
\* and before any frame, whatever the callback's failures and whenever the
\* receiver goes; frames follow in sample order.
HeaderOnceFirst ==
    /\ \A i \in DOMAIN media : media[i].is_sequence_header <=> i = 1
    /\ media # <<>> => media[1].sample = 0
    /\ \A i, j \in DOMAIN media : 1 < i /\ i < j => media[i].sample < media[j].sample

\* X264Encoder::new: a parsed fps parameter becomes the caps framerate
\* unchanged (get_number reads a u32; Fraction takes an i32).
FramerateMatchesFps == caps.framerate = GetNumber(parameters, "fps")

=============================================================================
