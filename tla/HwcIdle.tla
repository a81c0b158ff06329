------------------------------ MODULE HwcIdle -------------------------------
(***************************************************************************)
(* The idle screen: hwc_set() tells hdmi_thread() of every frame through a  *)
(* pipe, and when none has come for a while the thread makes SurfaceFlinger *)
(* draw the screen once more into a single buffer. The thread reads force_sgx *)
(* and idle without the lock, and starts while hwc_device_open() is still   *)
(* setting the device up.                                                   *)
(***************************************************************************)
EXTENDS Naturals

CONSTANTS MaxFrames,   \* a bound: frames the applications draw
          MaxUevents   \* a bound: events of other devices while the screen changes

VARIABLES open,           \* the step of hwc_device_open()
          procs,          \* hwc_registerProcs() has been called
          idle,           \* debug.hwc.idle has been read (and is not 0)
          force_sgx, last_int_ovls,
          pipe,           \* bytes in the pipe
          timeout,        \* of poll(): will it end by itself?
          pc,             \* the step of hdmi_thread()
          polled,         \* poll() looks at the pipe as well
          revents,        \* the uninitialised fds[1].revents, as long as poll() has not set it
          uevents,        \* unread events
          frame,          \* overlays of the frame between hwc_prepare() and hwc_set(), 0 if none
          writing,        \* hwc_set() is between the write() and the rest, under the lock
          invalidated,
          drawn, sent

thread == <<pc, timeout, polled>>
device == <<open, procs, idle, revents>>
vars == <<device, force_sgx, last_int_ovls, pipe, thread, uevents, frame, writing, invalidated,
          drawn, sent>>

Init ==
  /\ open = "thread" /\ procs = FALSE /\ idle = FALSE /\ revents \in BOOLEAN
  /\ force_sgx = 0 /\ last_int_ovls = 0 /\ pipe = 0
  /\ timeout = FALSE /\ pc = "start" /\ polled = FALSE /\ uevents = 0
  /\ frame = 0 /\ writing = FALSE /\ invalidated = FALSE /\ drawn = 0 /\ sent = 0
-----------------------------------------------------------------------------
(* The rest of hwc_device_open() after pthread_create(), then hwc_registerProcs(). *)
Open ==
  /\ \/ open = "thread" /\ idle' = TRUE /\ open' = "procs" /\ UNCHANGED procs
     \/ open = "procs" /\ procs' = TRUE /\ open' = "done" /\ UNCHANGED idle
  /\ UNCHANGED <<revents, force_sgx, last_int_ovls, pipe, thread, uevents, frame, writing,
                 invalidated, drawn, sent>>

(* hwc_prepare(): a forced frame uses the framebuffer alone, another one may *)
(* use overlays.                                                             *)
Prepare ==
  /\ open = "done" /\ frame = 0
  /\ \/ invalidated /\ UNCHANGED drawn
     \/ drawn < MaxFrames /\ drawn' = drawn + 1
  /\ invalidated' = FALSE
  /\ frame' \in IF force_sgx > 0 THEN {1} ELSE {1, 2}
  /\ UNCHANGED <<device, force_sgx, last_int_ovls, pipe, thread, uevents, writing, sent>>

(* hwc_set(), which takes the lock and writes to the pipe ... *)
SetWrite ==
  /\ frame > 0 /\ ~writing
  /\ pipe' = pipe + 1
  /\ writing' = TRUE
  /\ UNCHANGED <<device, force_sgx, last_int_ovls, thread, uevents, frame, invalidated, drawn, sent>>

(* ... and posts the frame. *)
SetPost ==
  /\ writing
  /\ force_sgx' = IF force_sgx > 0 THEN force_sgx - 1 ELSE 0
  /\ last_int_ovls' = frame
  /\ frame' = 0 /\ writing' = FALSE
  /\ UNCHANGED <<device, pipe, thread, uevents, invalidated, drawn, sent>>

(* The kernel sends an event of some device: MaxUevents at most once the thread *)
(* looks at the pipe, any number before.                                        *)
Uevent ==
  /\ uevents = 0 /\ (sent < MaxUevents \/ ~polled)
  /\ uevents' = 1
  /\ sent' = IF polled THEN sent + 1 ELSE sent
  /\ UNCHANGED <<device, force_sgx, last_int_ovls, pipe, thread, frame, writing, invalidated, drawn>>
-----------------------------------------------------------------------------
(* hdmi_thread() up to its loop. *)
ThreadStart ==
  /\ pc = "start"
  /\ timeout' = idle /\ pc' = "loop"
  /\ UNCHANGED <<device, force_sgx, last_int_ovls, pipe, polled, uevents, frame, writing,
                 invalidated, drawn, sent>>

(* poll() is called: with the pipe or without. *)
PollStart ==
  /\ pc = "loop"
  /\ polled' = idle /\ pc' = "poll"
  /\ UNCHANGED <<device, force_sgx, last_int_ovls, pipe, timeout, uevents, frame, writing,
                 invalidated, drawn, sent>>

(* poll() returns 0. What follows takes the lock. *)
PollTimeout ==
  /\ pc = "poll" /\ timeout /\ ~(polled /\ pipe > 0) /\ uevents = 0
  /\ pc' = IF idle /\ procs THEN "idle" ELSE "loop"
  /\ UNCHANGED <<device, force_sgx, last_int_ovls, pipe, timeout, polled, uevents, frame, writing,
                 invalidated, drawn, sent>>

ForceSgx ==
  /\ pc = "idle" /\ ~writing
  /\ LET invalidate == last_int_ovls > 1 /\ force_sgx = 0
     IN  /\ force_sgx' = IF invalidate THEN 2 ELSE force_sgx
         /\ pc' = IF invalidate THEN "invalidate" ELSE "loop"
  /\ UNCHANGED <<device, last_int_ovls, pipe, timeout, polled, uevents, frame, writing,
                 invalidated, drawn, sent>>

Invalidate ==
  /\ pc = "invalidate"
  /\ invalidated' = TRUE /\ pc' = "disarm"
  /\ UNCHANGED <<device, force_sgx, last_int_ovls, pipe, timeout, polled, uevents, frame, writing,
                 drawn, sent>>

Disarm ==
  /\ pc = "disarm"
  /\ timeout' = FALSE /\ pc' = "loop"
  /\ UNCHANGED <<device, force_sgx, last_int_ovls, pipe, polled, uevents, frame, writing,
                 invalidated, drawn, sent>>

(* A slip: the test is the wrong way round. *)
RearmSlip == force_sgx > 0

Rearm == force_sgx = 0

(* poll() returns: a byte of the pipe is read, then an event is. If poll() did   *)
(* not look at the pipe, whether there is a byte to read is left to the stack,   *)
(* and read() waits for one.                                                     *)
PollReady ==
  /\ pc = "poll"
  /\ LET byte == IF polled THEN pipe > 0 ELSE idle /\ revents
     IN  /\ uevents > 0 \/ (polled /\ byte)
         /\ byte => pipe > 0
         /\ pipe' = IF byte THEN pipe - 1 ELSE pipe
         /\ timeout' = IF byte /\ Rearm THEN idle ELSE timeout
  /\ uevents' = 0 /\ pc' = "loop"
  /\ UNCHANGED <<device, force_sgx, last_int_ovls, polled, frame, writing, invalidated, drawn, sent>>

Thread == ThreadStart \/ PollStart \/ PollTimeout \/ ForceSgx \/ Invalidate \/ Disarm \/ PollReady
Set == SetWrite \/ SetPost
Next == Open \/ Prepare \/ Set \/ Uevent \/ Thread

(* Threads are scheduled, time passes, SurfaceFlinger draws what it is asked to, *)
(* and the kernel does not fall silent.                                          *)
Spec ==
  /\ Init /\ [][Next]_vars
  /\ WF_vars(Open) /\ WF_vars(Thread) /\ SF_vars(ForceSgx) /\ WF_vars(Set) /\ WF_vars(Uevent)
  /\ WF_vars(invalidated /\ Prepare)
-----------------------------------------------------------------------------
(* A screen that stands still on several overlays is drawn once more into one,  *)
(* whatever was drawn while the thread made up its mind, and every byte in the  *)
(* pipe is read, so that the pipe cannot fill up under hwc_set().               *)
IdleFallsBack ==
  /\ last_int_ovls > 1 ~> last_int_ovls = 1
  /\ []<>(pipe = 0)
=============================================================================
