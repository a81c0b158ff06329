-------------------------------- MODULE Hwc ---------------------------------
(***************************************************************************)
(* The hardware composer: how hwc_prepare() gives the four overlays of the  *)
(* display controller to the layers of a frame and to their clones on HDMI, *)
(* what hwc_set() remembers of it for the next frame, and what a change of  *)
(* the HDMI or dock switch does in between. An action holds the lock of the *)
(* device from its first to its last access of this state, but the switches *)
(* are noted without it (Switch), even in the middle of hwc_prepare().      *)
(*                                                                          *)
(* A layer is what the code asks about it; each non-NV12 layer takes one    *)
(* unit of the TILER slot. The primary display is the LCD and the blitter   *)
(* is absent, as on this board.                                             *)
(***************************************************************************)
EXTENDS Integers, Sequences, FiniteSets

CONSTANTS Lists,              \* the lists of layers that may be drawn
          primary_transform,  \* 1 if the framebuffer is not of the size of the LCD
          flags_rgb_order, flags_nv12_only,
          fb_bgr,             \* is_BGR_format() of the framebuffer
          Settings,           \* values of the persist.hwc.* properties
          tiler1d_slot_size,
          MaxPlugs            \* a bound: changes of the switches

Layer == [valid : BOOLEAN, scaled : BOOLEAN, color : {"RGB", "BGR", "NV12"}, blended : BOOLEAN,
          dockable : BOOLEAN, protected : BOOLEAN, upscaled : BOOLEAN]

ASSUME ListsAssumption == Lists \subseteq Seq(Layer)
ASSUME DisplayAssumption == primary_transform \in {0, 1} /\ tiler1d_slot_size \in Nat
ASSUME SettingsAssumption ==
  Settings \subseteq [mirroring : BOOLEAN, docking : BOOLEAN, mirror_tform : BOOLEAN, dock_tform : BOOLEAN]

MAX_HW_OVERLAYS == 4
NUM_NONSCALING_OVERLAYS == 1

VARIABLES hwc,         \* the fields of omap_hwc_device_t that one frame leaves to the next
          comp,        \* what hwc_prepare() leaves to hwc_set(), or None
          screen,      \* the overlays of the last composition posted, and their managers
          invalidated, \* SurfaceFlinger has been asked to draw again
          switched,    \* a switch has been noted and handle_hotplug() has not had the lock yet
          waiting,     \* history: frames posted in a row that were to be mirrored and were not
          plugs

vars == <<hwc, comp, screen, invalidated, switched, waiting, plugs>>
None == [num_mgrs |-> 0]

Ext(enabled, docking, tform) == [enabled |-> enabled, docking |-> docking, tform |-> tform]
Off == Ext(FALSE, FALSE, FALSE)

Init ==
  /\ hwc = [force_sgx |-> 0, last_ext_ovls |-> 0, last_int_ovls |-> 0, dock |-> Off,
            mirror |-> Off, docking |-> FALSE, last_docking |-> FALSE, ext_on_tv |-> FALSE,
            force_dock |-> FALSE, hdmi_state |-> FALSE]
  /\ comp = None /\ screen = {} /\ invalidated = FALSE /\ switched = FALSE /\ waiting = 0 /\ plugs = 0
-----------------------------------------------------------------------------
is_NV12(l) == l.color = "NV12"
mem1d(l) == IF is_NV12(l) THEN 0 ELSE 1
min(a, b) == IF a < b THEN a ELSE b
max(a, b) == IF a < b THEN b ELSE a

(* gather_layer_statistics(): the layers the display controller can show. *)
Counts(list) ==
  LET Number(P(_)) == Cardinality({i \in DOMAIN list : list[i].valid /\ P(list[i])})
  IN  [possible   |-> Number(LAMBDA l : TRUE),
       composited |-> Len(list),
       scaled     |-> Number(LAMBDA l : l.scaled \/ is_NV12(l) \/ primary_transform = 1),
       BGR        |-> Number(LAMBDA l : l.color = "BGR"),
       RGB        |-> Number(LAMBDA l : l.color = "RGB"),
       NV12       |-> Number(is_NV12),
       dockable   |-> Number(LAMBDA l : l.dockable),
       protected  |-> Number(LAMBDA l : l.protected),
       mem        |-> Number(LAMBDA l : ~is_NV12(l))]

(* decide_supported_cloning(), without the last steps: which display gets how *)
(* many overlays, by what the last frame left on either. force_dock is read   *)
(* twice, before and now.                                                     *)
Docking(d, num) ==
  d.dock.enabled /\ ~(d.mirror.enabled /\ ~(num.dockable > 0 \/ d.force_dock))

Reserve(d, now, num) ==
  LET docked == IF num.dockable > 0 \/ now.force_dock THEN 1 ELSE 0
  IN  IF Docking(d, num)
      THEN [wanted |-> docked, hw |-> MAX_HW_OVERLAYS - max(docked, d.last_ext_ovls),
            nonscaling |-> NUM_NONSCALING_OVERLAYS,
            current |-> IF d.mirror.enabled THEN [d.mirror EXCEPT !.docking = TRUE] ELSE d.dock]
      ELSE IF d.mirror.enabled
      THEN [wanted |-> MAX_HW_OVERLAYS - MAX_HW_OVERLAYS \div 2, hw |-> MAX_HW_OVERLAYS \div 2,
            nonscaling |-> NUM_NONSCALING_OVERLAYS \div 2, current |-> d.mirror]
      ELSE [wanted |-> 0, hw |-> MAX_HW_OVERLAYS - d.last_ext_ovls,
            nonscaling |-> NUM_NONSCALING_OVERLAYS, current |-> Ext(FALSE, d.docking, FALSE)]

(* A slip: the overlays the internal display still uses are not held back. *)
ExtOvlsSlip(d, r) == r.wanted

ExtOvls(d, r) == min(MAX_HW_OVERLAYS - d.last_int_ovls, r.wanted)

Decide(d, now, num) ==
  LET r   == Reserve(d, now, num)
      ext == ExtOvls(d, r)
      hw  == IF num.protected = 0 /\ ext > 0 /\ r.current.enabled /\ ~r.current.docking
             THEN ext ELSE r.hw
      max_hw == IF primary_transform = 1 THEN hw - NUM_NONSCALING_OVERLAYS ELSE hw
  IN  [ext_ovls |-> ext, wanted |-> r.wanted, current |-> r.current, max_hw |-> max_hw,
       max_scaling |-> IF primary_transform = 1 THEN max_hw ELSE hw - r.nonscaling]

can_dss_render_all(d, num, lim) ==
  LET on_tv == d.ext_on_tv /\ lim.current.enabled
      tform == lim.current.enabled /\ lim.current.tform
  IN  /\ d.force_sgx = 0
      /\ num.possible > 0 /\ num.possible <= lim.max_hw /\ num.possible = num.composited
      /\ num.scaled <= lim.max_scaling /\ num.NV12 <= lim.max_scaling
      /\ num.mem <= tiler1d_slot_size
      /\ ~tform \/ num.NV12 = num.possible \/ (num.NV12 > 0 /\ lim.current.docking)
      /\ num.BGR = 0 \/ (num.RGB = 0 /\ ~on_tv) \/ ~flags_rgb_order
      /\ ~flags_nv12_only \/ (num.BGR = 0 /\ num.RGB = 0)

can_dss_render_layer(d, lim, use_sgx, swap_rb, l) ==
  LET cloning == lim.current.enabled /\ (~lim.current.docking \/ l.dockable)
  IN  /\ l.valid
      /\ cloning /\ lim.current.tform => is_NV12(l)
      /\ flags_nv12_only /\ use_sgx => is_NV12(l)
      /\ flags_rgb_order => l.color # IF swap_rb THEN "RGB" ELSE "BGR"
      /\ ~(d.ext_on_tv /\ cloning /\ l.color = "BGR")
-----------------------------------------------------------------------------
Ovl(z, ix, mgr, layer) == [zorder |-> z, ix |-> ix, mgr |-> mgr, layer |-> layer]
FB == 0   \* stands for the framebuffer as a "layer"

(* "move fb z-order up (by lowering dss layers)". The array of the code counts *)
(* from 0, ovls from 1.                                                        *)
Lower(ovls, fb_z, z) ==
  [k \in DOMAIN ovls |-> IF k \in fb_z + 2 .. z THEN [ovls[k] EXCEPT !.zorder = @ - 1] ELSE ovls[k]]

(* A slip: a blended layer goes anywhere in the stack. *)
MidStackSlip(l, p) == FALSE

MidStack(l, p) == l.blended /\ p.fb_z >= 0

(* A round of the loop over the layers: what goes to an overlay, and what is *)
(* done with the rest.                                                        *)
ViaDss(d, lim, use_sgx, swap_rb, l, p) ==
  /\ Len(p.ovls) < lim.max_hw
  /\ can_dss_render_layer(d, lim, use_sgx, swap_rb, l)
  /\ \/ d.force_sgx = 0 \/ l.protected \/ l.upscaled
     \/ lim.current.docking /\ lim.current.enabled /\ l.dockable
  /\ p.mem + mem1d(l) <= tiler1d_slot_size
  /\ ~MidStack(l, p)

AddOverlay(p, l, i) ==
  LET n     == Len(p.ovls)
      plain == ~(l.scaled \/ is_NV12(l))
      swap  == ~(n = 0 /\ primary_transform = 0) /\ p.scaled_gfx /\ plain
      ovl   == Ovl(p.z, IF swap THEN 0 ELSE n + primary_transform, 0, i)
  IN  [p EXCEPT !.ovls = Append(IF swap THEN [p.ovls EXCEPT ![1].ix = n] ELSE p.ovls, ovl),
                !.z = p.z + 1, !.mem = p.mem + mem1d(l),
                !.scaled_gfx = IF n = 0 /\ primary_transform = 0 THEN ~plain ELSE p.scaled_gfx /\ ~swap]

ViaSgx(p) ==
  IF p.fb_z < 0 THEN [p EXCEPT !.fb_z = p.z, !.z = p.z + 1]
  ELSE [p EXCEPT !.ovls = Lower(p.ovls, p.fb_z, p.z), !.fb_z = max(p.fb_z, p.z - 1)]

Round(d, lim, use_sgx, swap_rb, l, i, p) ==
  IF ViaDss(d, lim, use_sgx, swap_rb, l, p) THEN AddOverlay(p, l, i)
  ELSE IF use_sgx THEN ViaSgx(p) ELSE p

Start(use_sgx) ==
  [ovls |-> IF use_sgx THEN <<Ovl(0, 0, 0, FB)>> ELSE <<>>, z |-> 0, fb_z |-> -1, mem |-> 0,
   scaled_gfx |-> FALSE]

(* What follows the loop up to "mirror layers". *)
Finish(use_sgx, p) ==
  LET gfx  == IF p.scaled_gfx THEN [p.ovls EXCEPT ![1].ix = Len(p.ovls)] ELSE p.ovls
      fb_z == IF p.fb_z < 0 THEN p.z ELSE p.fb_z
  IN  IF use_sgx
      THEN [ovls |-> <<Ovl(fb_z, primary_transform, 0, FB)>> \o Tail(gfx),
            z |-> IF p.fb_z < 0 THEN p.z + 1 ELSE p.z]
      ELSE [ovls |-> gfx, z |-> p.z]

Pipes(d, lim, use_sgx, swap_rb, list) ==
  LET round[i \in 0 .. Len(list)] ==
        IF i = 0 THEN Start(use_sgx)
        ELSE Round(d, lim, use_sgx, swap_rb, list[i], i, round[i - 1])
  IN  Finish(use_sgx, round[Len(list)])

(* What clone_layer() makes of an overlay, with n clones before it. *)
clone_layer(ovl, n, post2) ==
  Ovl(ovl.zorder + post2, MAX_HW_OVERLAYS - 1 - n, 1, ovl.layer)

(* "mirror layers": the compositions that may come out, each with whether the  *)
(* HDMI mode could be set. Which dockable layer is the largest is left open.   *)
Clone(d, num, lim, pipes, list) ==
  LET ovls    == pipes.ovls
      post2   == Len(ovls)
      docks   == {k \in 1 .. post2 : ovls[k].layer # FB /\ list[ovls[k].layer].dockable}
      room    == MAX_HW_OVERLAYS - post2
      clones  == [n \in 1 .. min(room, post2) |-> clone_layer(ovls[n], n - 1, post2)]
      mirrored == [ovls |-> ovls \o clones, z |-> pipes.z + min(room, post2)]
      docked(ovl, image) ==
        IF room = 0 THEN pipes
        ELSE [ovls |-> LET clone == clone_layer(ovl, 0, post2)
                       IN  Append(ovls, [clone EXCEPT !.zorder = IF image THEN @ ELSE pipes.z]),
              z |-> pipes.z + 1]
      Out(p, mode) == [ovls |-> p.ovls, z |-> p.z, mode |-> mode]
  IN  IF ~(lim.current.enabled /\ (\/ num.protected = 0 /\ lim.ext_ovls > 0
                                   \/ lim.wanted > 0 /\ lim.ext_ovls >= lim.wanted))
      THEN {Out(pipes, "kept")}
      ELSE IF lim.current.docking
      THEN LET image == docks = {} /\ d.force_dock
               shown == IF image THEN {Ovl(0, 0, 0, FB)} ELSE {ovls[k] : k \in docks}
           IN  IF shown = {} THEN {Out(pipes, "kept")}
               ELSE {Out(docked(o, image), "kept") : o \in shown}
                    \cup {Out(docked(o, image), "set") : o \in shown}
                    \cup {Out(pipes, "disabled")}
      ELSE IF d.last_docking THEN {Out(mirrored, "set"), Out(pipes, "kept")}
      ELSE {Out(mirrored, "kept")}
-----------------------------------------------------------------------------
(* handle_uevents() notes the state of a switch, before it asks for the lock: *)
(* what the device may look like afterwards.                                  *)
Noted ==
  {[hwc EXCEPT !.force_dock = state] : state \in BOOLEAN}
  \cup {[hwc EXCEPT !.hdmi_state = state] : state \in BOOLEAN}

Switch == ~switched /\ plugs < MaxPlugs /\ switched' = TRUE /\ plugs' = plugs + 1

(* hwc_prepare(), which finds the device as hwc, then as h2 and at last as h3. *)
Prepare(list, h2, h3) ==
  LET num     == Counts(list)
      lim     == Decide(hwc, h2, num)
      dss     == can_dss_render_all(hwc, num, lim)
      swap_rb == IF dss THEN num.BGR # 0 ELSE fb_bgr
      pipes   == Pipes(hwc, lim, ~dss, swap_rb, list)
      post2   == Len(pipes.ovls)
  IN  /\ comp = None
      /\ \E c \in Clone(h3, num, lim, pipes, list) :
           LET current == IF c.mode = "disabled" THEN [lim.current EXCEPT !.enabled = FALSE]
                          ELSE lim.current
               mgrs    == IF current.enabled \/ hwc.last_ext_ovls > 0 THEN 2 ELSE 1
           IN  /\ comp' = [num_mgrs |-> mgrs, ovls |-> c.ovls, z |-> c.z, post2 |-> post2,
                           use_sgx |-> ~dss, list |-> list, mirror |-> hwc.mirror.enabled /\ ~current.docking,
                           protected |-> num.protected,
                           wanted |-> lim.wanted,
                           ext_ovls |-> IF mgrs = 2 THEN Len(c.ovls) - post2 ELSE lim.ext_ovls]
               /\ hwc' = [h3 EXCEPT !.docking = current.docking, !.last_docking = current.docking,
                                    !.ext_on_tv = @ \/ c.mode = "set"]
      /\ invalidated' = FALSE
      /\ UNCHANGED <<screen, waiting>>

Posted(c) == {<<c.ovls[k].ix, c.ovls[k].mgr>> : k \in DOMAIN c.ovls}

(* A slip: hwc_set() leaves the redraw to the next change of the screen. *)
WantsMoreSlip(c) == FALSE

WantsMore(c) == c.wanted > 0 /\ c.ext_ovls < c.wanted /\ (c.protected > 0 \/ c.ext_ovls = 0)

(* hwc_set(): the frame is posted, eglSwapBuffers() fails, or the screen is *)
(* being turned off, which disables every overlay.                           *)
Set(how) ==
  /\ comp # None
  /\ how = "failed" => comp.use_sgx
  /\ hwc' = IF how = "failed" THEN hwc
            ELSE [hwc EXCEPT !.force_sgx = IF how = "posted" THEN max(@ - 1, 0) ELSE @,
                             !.last_ext_ovls = comp.ext_ovls, !.last_int_ovls = comp.post2]
  /\ screen' = CASE how = "posted" -> Posted(comp) [] how = "failed" -> screen [] how = "off" -> {}
  /\ invalidated' = (invalidated \/ WantsMore(comp))
  /\ waiting' = IF how = "posted" /\ comp.mirror /\ comp.ext_ovls = 0 THEN waiting + 1 ELSE 0
  /\ comp' = None
  /\ UNCHANGED <<switched, plugs>>

(* handle_hotplug(), under the lock. *)
Hotplug ==
  /\ switched
  /\ IF ~hwc.hdmi_state
     THEN hwc' = [hwc EXCEPT !.dock = Off, !.mirror = Off]
     ELSE \E s \in Settings, modeset \in BOOLEAN :
            LET mirror == Ext(s.mirroring /\ ~hwc.force_dock, FALSE, s.mirror_tform)
                dock   == Ext(s.docking, TRUE, s.dock_tform /\ ~hwc.force_dock)
            IN  hwc' = [hwc EXCEPT
                  !.dock = dock,
                  !.mirror = IF modeset THEN mirror ELSE Off,
                  !.docking = @ /\ ~mirror.enabled,
                  !.ext_on_tv = @ \/ (mirror.enabled /\ modeset)]
  /\ invalidated' = TRUE
  /\ switched' = FALSE
  /\ UNCHANGED <<comp, screen, waiting, plugs>>

(* hdmi_thread() when no frame has come for a while. *)
Idle ==
  /\ ~switched
  /\ hwc.last_int_ovls > 1 /\ hwc.force_sgx = 0
  /\ hwc' = [hwc EXCEPT !.force_sgx = 2]
  /\ invalidated' = TRUE
  /\ UNCHANGED <<comp, screen, switched, waiting, plugs>>

Draw == \E list \in Lists : Prepare(list, hwc, hwc) /\ UNCHANGED <<switched, plugs>>

(* The dock switch, which hwc_prepare() reads, changes meanwhile. *)
DrawSwitched ==
  /\ Switch
  /\ \E list \in Lists : LET h == [hwc EXCEPT !.force_dock = ~@]
                          IN  Prepare(list, h, h) \/ Prepare(list, hwc, h)

Uevent == Switch /\ \E h \in Noted : hwc' = h /\ UNCHANGED <<comp, screen, invalidated, waiting>>

Next ==
  \/ Draw \/ DrawSwitched
  \/ \E how \in {"posted", "failed", "off"} : Set(how)
  \/ Uevent \/ Hotplug \/ Idle

Spec == Init /\ [][Next]_vars
-----------------------------------------------------------------------------
Of(mgr) == {k \in DOMAIN comp.ovls : comp.ovls[k].mgr = mgr}
Shown(mgr) == {p \in screen : p[2] = mgr}

(* "used %d z-layers for %d overlays", "used z-order #%d multiple times": what *)
(* hwc_prepare() checks of its own result and only logs. And why it counts the *)
(* overlays: "We cannot atomically switch overlays from one display to         *)
(* another", so what one display is given fits beside what the other still     *)
(* shows, whatever was plugged or has failed in between.                       *)
FrameFits ==
  comp # None =>
    /\ comp.z = Len(comp.ovls) /\ comp.z <= MAX_HW_OVERLAYS
    /\ \A j, k \in DOMAIN comp.ovls : comp.ovls[j].zorder = comp.ovls[k].zorder => j = k
    /\ Cardinality(Of(0)) + Cardinality(Shown(1)) <= MAX_HW_OVERLAYS
    /\ Cardinality(Of(1)) + Cardinality(Shown(0)) <= MAX_HW_OVERLAYS

(* The stack of the frame is kept: overlays are in the order of their layers,   *)
(* the framebuffer is above every overlay some composed layer lies above, and a *)
(* blended overlay has no composed layer below it ("can't have a transparent    *)
(* overlay in the middle of the framebuffer stack").                            *)
StackKept ==
  comp # None =>
    LET int      == comp.ovls
        layer(k) == int[k].layer
        dss      == {k \in Of(0) : layer(k) # FB}
        sgx      == DOMAIN comp.list \ {layer(k) : k \in dss}
    IN  /\ ~comp.use_sgx => sgx = {}
        /\ \A j, k \in dss : layer(j) < layer(k) => int[j].zorder < int[k].zorder
        /\ comp.use_sgx => \A k \in dss :
             /\ (\E i \in sgx : layer(k) < i) => int[k].zorder < int[1].zorder
             /\ sgx # {} /\ (\A i \in sgx : i < layer(k)) => int[1].zorder < int[k].zorder
             /\ comp.list[layer(k)].blended => \A i \in sgx : layer(k) < i

(* "used ovl index #%d multiple times": no overlay is used twice in a frame. The *)
(* code does not keep this, see the README: two scaled layers that are mirrored  *)
(* get the index 2 twice. No run checks it.                                      *)
IndicesDistinct ==
  comp # None => \A j, k \in DOMAIN comp.ovls : comp.ovls[j].ix = comp.ovls[k].ix => j = k

(* A display that is to mirror the screen may be left out of one frame, "while *)
(* the overlays required for it are cleared", or while its mode cannot be set; *)
(* the next frame has been asked for by then, and mirrors.                      *)
MirrorShown == waiting <= 1 /\ (waiting > 0 /\ comp = None => invalidated)
=============================================================================
