------------------------- MODULE MCSandboxLifecycle -------------------------
(* SandboxLifecycle with every combination of features.                    *)
EXTENDS SandboxLifecycle

AllConfigs == ConfigTypes
=============================================================================
