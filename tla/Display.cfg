\* Two changes of the plug; the properties persist.hwc.* in two settings.
SPECIFICATION MCSpec
CONSTANTS
  Lists <- MCLists
  primary_transform = 0
  flags_rgb_order = TRUE
  flags_nv12_only = FALSE
  fb_bgr = FALSE
  Settings <- MCSettings
  tiler1d_slot_size = 3
  MaxPlugs = 2
INVARIANT  StackKept MirrorShown
 
CHECK_DEADLOCK FALSE
