---------------------------- MODULE XrayOutcomes ----------------------------
(***************************************************************************)
(* What a switch of the Xray config may leave behind when it fails: the    *)
(* contract between RouteFluxService, which calls the backend, and         *)
(* XrayBackend, which models it file by file.                              *)
(*                                                                         *)
(* An outcome is a pair <<running, files>>: the config Xray runs, and the  *)
(* config on disk with the last-known-good one CaptureRollback returns.    *)
(***************************************************************************)
CONSTANT None

Files(c, good) == [disk |-> c, good |-> good]

\* RuntimeBackend.ApplyConfig(c) fails or dies: before the config is touched;
\* with the previous config back on disk, Xray running it; or with either config
\* on disk, and running what it ran before, nothing, or c all the same: a reload
\* that reports failure may have taken effect, the undoing one may have none.
ApplyFailures(running, files, c) ==
    LET restored == Files(files.good, files.good)
        written  == Files(c, IF files.good = None THEN c ELSE files.good)
    IN  {<<running, files>>, <<files.good, restored>>}
          \cup ({running, None, c} \X {restored, written})

\* RuntimeBackend.RollbackConfig(c) fails or dies, after an ApplyConfig that
\* succeeded: before the config is touched; with c on disk; or with c running
\* and only its backup unwritten.
RollbackFailures(running, files, c) ==
    {<<running, files>>} \cup ({running, None, c} \X {Files(c, files.good)})
=============================================================================
