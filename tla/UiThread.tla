------------------------------ MODULE UiThread ------------------------------
(***************************************************************************)
(* The thread of the user interface: how UIThread::start waits until its   *)
(* window is there, the two flags it shows as a colour, and the index of   *)
(* the rings of samples it draws from.  Its keys are in ChatSession.       *)
(*                                                                         *)
(* The flags are atomic and the index is only used under sample_mtx, so    *)
(* that setting a flag, storing samples and drawing are one step each.     *)
(* Drawing changes nothing: which samples it looks at is an operator.      *)
(***************************************************************************)
EXTENDS Integers

CONSTANTS ArraySize, \* SAMPLE_ARRAY_SIZE (4 * 65536)
          OutBuffer, \* AUDIO_OUT_BUF_SIZE (960)
          Width,     \* WIDTH (320)
          Search     \* how far AudioDisplay looks for a peak (1000)

\* The sizes are those of the code, or smaller ones in the same proportions.
ASSUME ArrayAssumption ==
  /\ ArraySize \in Nat /\ OutBuffer \in Nat /\ Width \in Nat \ {0} /\ Search \in Nat
  /\ (OutBuffer \div 2) + 2 * Width < ArraySize
  /\ Search <= ArraySize

VARIABLES
  starter,            \* main: "create", "check", "asleep", "join", then
                      \* "started" or "failed"
  ui,                 \* the thread: "none", "init", "leave", "ended" or "loop"
  inited,             \* inited
  init_success,       \* init_success
  ui_input_enabled,   \* input_enabled
  ui_output_enabled,  \* output_enabled
  sample_array_index  \* sample_array_index_, of both rings

start_vars == <<starter, ui, inited, init_success>>
shown == <<ui_input_enabled, ui_output_enabled>>
ui_thread == <<start_vars, shown, sample_array_index>>

UiTypeOK ==
  /\ starter \in {"create", "check", "asleep", "join", "started", "failed"}
  /\ ui \in {"none", "init", "leave", "ended", "loop"}
  /\ inited \in BOOLEAN
  /\ init_success \in BOOLEAN
  /\ ui_input_enabled \in BOOLEAN
  /\ ui_output_enabled \in BOOLEAN
  /\ sample_array_index \in 0..(ArraySize - 1)

UiInit ==
  /\ starter = "create"
  /\ ui = "none"
  /\ inited = FALSE
  /\ init_success = FALSE
  /\ ui_input_enabled = FALSE
  /\ ui_output_enabled = FALSE
  /\ sample_array_index = 0
-----------------------------------------------------------------------------
(***************************************************************************)
(* UIThread::start, on the main thread, and the beginning of ui_routine.   *)
(***************************************************************************)
CreateThread ==
  /\ starter = "create"
  /\ starter' = "check"
  /\ ui' = "init"
  /\ UNCHANGED <<inited, init_success>>

\* A slip: wait for success, not for an answer.
CheckSuccess ==
  /\ starter = "check"
  /\ starter' = IF init_success THEN "started" ELSE "asleep"
  /\ UNCHANGED <<ui, inited, init_success>>

\* cond_init_done.wait looks at inited under mtx_init, before it sleeps and
\* whenever it wakes up.
CheckInited ==
  /\ starter = "check"
  /\ starter' = CASE ~inited      -> "asleep"
                  [] init_success -> "started"
                  [] OTHER        -> "join"
  /\ UNCHANGED <<ui, inited, init_success>>

SpuriousWakeup ==
  /\ starter = "asleep"
  /\ starter' = "check"
  /\ UNCHANGED <<ui, inited, init_success>>

\* SDL and the window are there, or not: say so and notify, under mtx_init.
Publish ==
  /\ ui = "init"
  /\ inited' = TRUE
  /\ init_success' \in BOOLEAN
  /\ ui' = IF init_success' THEN "loop" ELSE "leave"
  /\ starter' = IF starter = "asleep" THEN "check" ELSE starter

Leave ==
  /\ ui = "leave"
  /\ ui' = "ended"
  /\ UNCHANGED <<starter, inited, init_success>>

\* The thread is joined with mtx_init held; it does not need it any more.
Join ==
  /\ starter = "join"
  /\ ui = "ended"
  /\ starter' = "failed"
  /\ UNCHANGED <<ui, inited, init_success>>

Start == CreateThread \/ CheckInited \/ SpuriousWakeup \/ Publish \/ Leave \/ Join
-----------------------------------------------------------------------------
(***************************************************************************)
(* The rings of samples.                                                   *)
(***************************************************************************)
\* update_sample_display: the samples are copied in as many pieces as fit, and
\* the index comes round at the end of the ring.
UpdateSampleDisplay(size) ==
  sample_array_index' = (sample_array_index + size) % ArraySize

\* A remainder in C++ has the sign of the dividend.
Remainder(a, b) == IF a < 0 THEN -((-a) % b) ELSE a % b

\* A slip: the remainder of a negative number is taken as it is.
ComputeRemainder(a, b) == Remainder(a, b)

ComputeMod(a, b) == IF a < 0 THEN Remainder(a, b) + b ELSE Remainder(a, b)

\* What lies behind the newest sample when a window is shown, and how far back
\* drawing starts.
Delay ==
  LET d == (OutBuffer \div 2) + 2 * Width IN IF d < Width THEN Width ELSE d

\* Where AudioDisplay may start: at the delay behind the index, or at the peak
\* it finds from there backwards; at the beginning while the output is off.
DrawStarts(index) ==
  LET x == ComputeMod(index - Delay, ArraySize)
  IN {0, x} \cup {(ArraySize + x - i) % ArraySize : i \in 0..(Search - 1)}

\* The indices it draws from there on, round the end of the ring.
Drawn(index) ==
  {IF start + i >= ArraySize THEN start + i - ArraySize ELSE start + i :
     start \in DrawStarts(index), i \in 0..(Width - 1)}

-----------------------------------------------------------------------------
\* The samples drawn are in the ring, wherever the index stands: the window
\* starts behind it, so that the difference may be negative.
DrawnInBounds == Drawn(sample_array_index) \subseteq 0..(ArraySize - 1)

\* What the handshake has done at each point of either thread.
Handshake ==
  /\ ui = "none" <=> starter = "create"
  /\ inited <=> ui \in {"leave", "ended", "loop"}
  /\ init_success <=> ui = "loop"
  /\ starter = "asleep" => ~inited
  /\ starter = "started" => init_success
  /\ starter \in {"join", "failed"} => ui \in {"leave", "ended"}

\* UIThread::start returns, whichever of the two threads is first.
StartReturns == starter = "check" ~> starter \in {"started", "failed"}
=============================================================================
