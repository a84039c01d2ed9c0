---------------------------- MODULE MCHitlAgent ----------------------------
(* HitlAgent on small instances, one per oversight mode. *)
EXTENDS HitlAgent

\* one action per way handle_action can go: a command that needs a human until
\* it is cached, one that never does, a scored action, the cleanup, an unknown name
AdaptiveActions == {"list_processes", "list_files", "web_search",
                    "clean system", "other"}

\* the two actions that remove files, one that needs a parameter, one unknown name
FileActions == {"clean system", "dangerous_delete_directory", "web_search", "other"}
AllActions == AdaptiveActions \cup FileActions
=============================================================================
