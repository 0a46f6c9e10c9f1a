--------------------------- MODULE SessionBinding ---------------------------
(***************************************************************************)
(* The stale-load rule shared by the artifact surfaces                     *)
(* (packages/core/src/session-binding.ts): work that crosses an await      *)
(* captures <<epoch, scope>> when it starts and may only touch observable  *)
(* session state if the same pair is still current when it resumes.        *)
(***************************************************************************)

\* captureSessionBinding
CaptureSessionBinding(epoch, scopeKey) == [epoch |-> epoch, scopeKey |-> scopeKey]

\* isSessionBindingCurrent
IsSessionBindingCurrent(binding, currentEpoch, currentScopeKey) ==
    /\ binding.epoch = currentEpoch
    /\ binding.scopeKey = currentScopeKey

=============================================================================
