------------------------------ MODULE InstallJob ------------------------------
(***************************************************************************)
(* The installer's side-effect-free lifecycle guard                        *)
(* (features/installer/domain): the states of an installation, the moves   *)
(* the guard accepts, and what it offers a client in each state.  The      *)
(* visible progress phase is left out: it is a label of the worker's step. *)
(***************************************************************************)

(* InstallerState: `Deploying` covers both deployment and configuration.   *)
InstallerState ==
    {"idle", "ready", "preparing", "destructive", "deploying", "finalizing",
     "complete", "failed", "cancelled"}

(* The pairs accepted by InstallJob::transition.                           *)
CanTransition(from, to) ==
    <<from, to>> \in
        { <<"idle", "ready">>,
          <<"ready", "preparing">>,
          <<"preparing", "destructive">>,
          <<"destructive", "deploying">>,
          <<"deploying", "deploying">>,
          <<"deploying", "finalizing">>,
          <<"finalizing", "complete">> }

(* Mutant: the storage boundary is added to the states a cancel may leave. *)
IsCancellableAtStorage(s) == s \in {"ready", "preparing", "destructive"}

(* InstallerState::is_cancellable, the guard of InstallJob::cancel.        *)
IsCancellable(s) == s \in {"ready", "preparing"}

(* InstallerState::is_retryable, what StateChanged and Status advertise.   *)
IsRetryable(s) == s \in {"failed", "cancelled"}
=============================================================================
