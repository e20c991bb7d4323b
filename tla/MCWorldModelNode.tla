---------------------------- MODULE MCWorldModelNode ----------------------------
(***************************************************************************)
(* One parameter set per composition the node accepts, and two it refuses: *)
(* a mismatched adapter profile and the synchronizer without its cameras.  *)
(***************************************************************************)
EXTENDS WorldModelNode

Plain == [profile |-> "simulation", sim_time |-> TRUE, reference |-> FALSE,
          semantic |-> FALSE, evaluation |-> FALSE,
          physical |-> "off", depth |-> "off", rgbd |-> "off", audio |-> "off",
          traffic |-> {"joints", "pose"}]

Compositions ==
    { Plain,
      [Plain EXCEPT !.traffic = {"imu", "diagnostics"}],
      [Plain EXCEPT !.reference = TRUE, !.semantic = TRUE, !.traffic = {"camera"}],
      [Plain EXCEPT !.evaluation = TRUE, !.traffic = {"camera"}],
      [Plain EXCEPT !.profile = "depth_fixture", !.depth = "on", !.rgbd = "on",
                    !.traffic = {"camera", "depth"}],
      [Plain EXCEPT !.profile = "physical_camera_fixture", !.sim_time = FALSE, !.physical = "on",
                    !.traffic = {"camera"}],
      [Plain EXCEPT !.profile = "audio_fixture", !.sim_time = FALSE, !.audio = "on",
                    !.traffic = {"microphone", "imu"}],
      [Plain EXCEPT !.depth = "wrong"],
      [Plain EXCEPT !.rgbd = "on"] }
================================================================================
