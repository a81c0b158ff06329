----------------------------- MODULE MCDisplay ------------------------------
(***************************************************************************)
(* The two halves of the hardware composer: frames and the second display,  *)
(* on small lists of layers, and the idle screen. half is chosen once.      *)
(***************************************************************************)
EXTENDS Hwc

VARIABLES half,
          open, procs, idle, force_sgx, last_int_ovls, pipe, timeout, pc, polled, revents, uevents,
          frame, writing, asked, drawn, sent   \* of HwcIdle, with its invalidated as asked

Plain == [valid |-> TRUE, scaled |-> FALSE, color |-> "RGB", blended |-> FALSE,
          dockable |-> FALSE, protected |-> FALSE, upscaled |-> FALSE]
Blended == [Plain EXCEPT !.blended = TRUE]
Scaled == [Plain EXCEPT !.scaled = TRUE]
Skipped == [Plain EXCEPT !.valid = FALSE]
Bgr == [Plain EXCEPT !.color = "BGR"]
Video == [Plain EXCEPT !.color = "NV12", !.dockable = TRUE]
Movie == [Plain EXCEPT !.color = "NV12", !.protected = TRUE, !.upscaled = TRUE]

\* Stacks of layers that go to overlays and of layers that do not, as many as
\* there are overlays, and the mixes of the other kinds.
MCLists ==
  {<<Plain>>, <<Skipped>>, <<Plain, Plain, Skipped>>, <<Plain, Plain, Plain, Plain>>,
   <<Plain, Skipped, Plain, Plain>>, <<Skipped, Plain, Skipped, Plain>>,
   <<Skipped, Blended>>, <<Blended, Skipped, Plain>>, <<Scaled, Scaled>>, <<Plain, Bgr>>,
   <<Plain, Video, Video>>, <<Movie, Skipped>>, <<Video, Plain, Movie, Movie>>}

Setting(m, d, t) == [mirroring |-> m, docking |-> d, mirror_tform |-> t, dock_tform |-> FALSE]
MCSettings == {Setting(TRUE, TRUE, TRUE), Setting(TRUE, FALSE, FALSE)}

IdleScreen == INSTANCE HwcIdle WITH MaxFrames <- 4, MaxUevents <- 2, invalidated <- asked

idlevars == <<open, procs, idle, force_sgx, last_int_ovls, pipe, timeout, pc, polled, revents, uevents,
              frame, writing, asked, drawn, sent>>

MCInit ==
  /\ half \in {"frames", "idle"} /\ Init /\ IdleScreen!Init
  /\ half = "frames" => ~revents
MCNext ==
  /\ UNCHANGED half
  /\ \/ half = "frames" /\ Next /\ UNCHANGED idlevars
     \/ half = "idle" /\ IdleScreen!Next /\ UNCHANGED vars

\* The fairness of HwcIdle.
MCSpec ==
  /\ MCInit /\ [][MCNext]_<<half, vars, idlevars>>
  /\ WF_idlevars(half = "idle" /\ IdleScreen!Open) /\ WF_idlevars(half = "idle" /\ IdleScreen!Thread)
  /\ SF_idlevars(half = "idle" /\ IdleScreen!ForceSgx) /\ WF_idlevars(half = "idle" /\ IdleScreen!Set)
  /\ WF_idlevars(half = "idle" /\ IdleScreen!Uevent)
  /\ WF_idlevars(half = "idle" /\ asked /\ IdleScreen!Prepare)
-----------------------------------------------------------------------------
(* The property of HwcIdle; those of Hwc keep their names. *)

\* A screen that stands still on several overlays is drawn once more into one,
\* and the pipe is emptied.
IdleFallsBack == half = "idle" => IdleScreen!IdleFallsBack
=============================================================================
