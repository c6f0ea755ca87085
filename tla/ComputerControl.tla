--------------------------- MODULE ComputerControl ---------------------------
(* One desktop session of app/computer: act() decides, plans, executes,        *)
(* verifies and retries one action at a time, while the desktop changes under  *)
(* it and another thread pauses or closes the session.                        *)
EXTENDS Naturals

CONSTANTS
  SeesPixels     \* has the backend last_pixels()? the fake one has, macOS not

Kinds == {"look", "scroll", "click", "danger"}
Layouts == {"wide", "narrow"}
Apps == {"editor", "browser"}

VARIABLES
  session,       \* SessionStatus, and the layout the runtime believes in
  desktop,       \* the layout there is, and the application in front
  action         \* the local state of act()

controlVars == <<session, desktop, action>>

SessionStatuses == {"READY", "ACTIVE", "PAUSED", "BLOCKED", "CLOSED"}
Errors == {"NONE", "VALIDATION", "APPROVAL_REQUIRED", "PERMISSION_REQUIRED",
           "TIMEOUT", "BACKEND_FAILURE"}
VerificationStates == {"VERIFIED", "UNVERIFIED", "FAILED", "BLOCKED_EXTERNAL"}

\* classify: keywords and system hotkeys raise a request to HIGH.
HighRisk(kind) == kind = "danger"
\* _RETRYABLE_UNVERIFIED
Retryable(kind) == kind \in {"click", "danger"}
\* validate_point: a far point exists only on the wide screen.
Fits(point, layout) == point = "far" => layout = "wide"

\* The session, the desktop and the call of act() under way: at most one retry.
ControlTypeOK ==
  /\ session \in [status : SessionStatuses, layout : Layouts]
  /\ desktop \in [layout : Layouts, app : Apps]
  /\ action \in [pc : {"idle", "refresh", "before", "dispatch", "verify"},
                 kind : Kinds, point : {"near", "far"}, check : {"default", "predicate", "none"},
                 approved : BOOLEAN, dry : BOOLEAN,
                 attempts : 0..1, sent : 0..2, failed : BOOLEAN,
                 appBefore : Apps \cup {""}, moved : BOOLEAN,
                 effect : {"none", "late", "shown"},
                 error : Errors, verdict : VerificationStates]

NoAction ==
  [pc |-> "idle", kind |-> "look", point |-> "near", check |-> "default",
   approved |-> FALSE, dry |-> FALSE, attempts |-> 0, sent |-> 0, failed |-> FALSE,
   appBefore |-> "", moved |-> FALSE, effect |-> "none",
   error |-> "NONE", verdict |-> "UNVERIFIED"]

ControlInit ==
  /\ session = [status |-> "READY", layout |-> "wide"]
  /\ desktop = [layout |-> "wide", app |-> "editor"]
  /\ action = NoAction

-----------------------------------------------------------------------------
(* The call.                                                               *)

EndAct(call, error, verdict) ==
  action' = [call EXCEPT !.pc = "idle", !.error = error, !.verdict = verdict,
                         !.point = "near", !.appBefore = "", !.moved = FALSE,
                         !.effect = "none"]

\* act, first half: a closed session and the approval of HIGH risk. A paused or
\* blocked session is not looked at.
Act(kind, point, check, approved, dry) ==
  LET call == [NoAction EXCEPT !.kind = kind, !.point = point, !.check = check,
                               !.approved = approved, !.dry = dry]
  IN /\ action.pc = "idle"
     /\ IF session.status = "CLOSED" THEN EndAct(call, "VALIDATION", "FAILED")
        ELSE IF HighRisk(kind) /\ ~approved
          THEN EndAct(call, "APPROVAL_REQUIRED", "FAILED")
          ELSE action' = [call EXCEPT !.pc = "refresh"]
     /\ UNCHANGED <<session, desktop>>

\* The layout is read again, _plan resolves and validates the point in it, and a
\* dry run ends here.
PlanTarget ==
  /\ action.pc = "refresh"
  /\ session' = [session EXCEPT !.layout = desktop.layout]
  /\ IF ~Fits(action.point, desktop.layout) THEN EndAct(action, "VALIDATION", "FAILED")
     ELSE IF action.dry THEN EndAct(action, "NONE", "UNVERIFIED")
     ELSE action' = [action EXCEPT !.pc = "before"]
  /\ UNCHANGED desktop

\* _capture_state: a failed query of the active window reads as "".
CaptureBefore(app) ==
  /\ action.pc = "before"
  /\ app \in {desktop.app, ""}
  /\ action' = [action EXCEPT !.pc = "dispatch", !.appBefore = app, !.moved = FALSE]
  /\ UNCHANGED <<session, desktop>>

\* The backend posts the event and says so; what it does on the screen shows at
\* once, later or never.
DispatchSucceeds(effect) ==
  /\ action.pc = "dispatch"
  /\ action' = [action EXCEPT !.pc = "verify", !.sent = @ + 1, !.effect = effect,
                              !.moved = @ \/ effect = "shown"]
  /\ UNCHANGED <<session, desktop>>

Failed(effect) == [action EXCEPT !.sent = @ + 1, !.failed = TRUE, !.effect = effect]

\* _blocked_result: nothing ever unblocks the session.
Blocked(call) ==
  /\ session' = [session EXCEPT !.status = "BLOCKED"]
  /\ EndAct(call, "PERMISSION_REQUIRED", "BLOCKED_EXTERNAL")

\* _backend_error
BackendError(call) == EndAct(call, "BACKEND_FAILURE", "FAILED") /\ UNCHANGED session

\* _map_backend_failure
MapBackendFailure(call, cause) ==
  CASE cause = "permission" -> Blocked(call)
    [] cause = "timeout" -> EndAct(call, "TIMEOUT", "FAILED") /\ UNCHANGED session
    [] OTHER -> BackendError(call)

\* screen_geometry() raises.
RefreshFails ==
  /\ action.pc = "refresh"
  /\ BackendError(action)
  /\ UNCHANGED desktop

\* The backend answers that it failed; the event may have taken effect all the same.
DispatchFails(cause, effect) ==
  /\ action.pc = "dispatch"
  /\ MapBackendFailure(Failed(effect), cause)
  /\ UNCHANGED desktop

\* The backend raises: only the first dispatch tells PermissionError and TimeoutError
\* from the rest.
DispatchRaises(cause, effect) ==
  /\ action.pc = "dispatch"
  /\ IF action.attempts = 0 THEN MapBackendFailure(Failed(effect), cause)
     ELSE BackendError(Failed(effect))
  /\ UNCHANGED desktop

\* Mutant: the application in front is all that is compared.
VerdictOfApp(app) ==
  IF action.check = "none" \/ action.kind = "look" \/ action.appBefore \notin {"", app}
    THEN "VERIFIED" ELSE "UNVERIFIED"

\* verify_action on what _capture_state saw before and after.
Verdict(app) ==
  IF action.check = "none" \/ action.kind = "look" THEN "VERIFIED"
  ELSE IF \/ SeesPixels /\ action.moved
          \/ action.appBefore \notin {"", app}
    THEN "VERIFIED"
    ELSE "UNVERIFIED"

\* Mutant: the risk is not asked about.
MayRetryAny(verdict) == verdict = "UNVERIFIED" /\ action.attempts < 1 /\ Retryable(action.kind)

\* The condition of the retry loop, with plan_recovery(no_observable_change).
MayRetry(verdict) ==
  /\ verdict = "UNVERIFIED"
  /\ action.attempts < 1
  /\ Retryable(action.kind)
  /\ ~HighRisk(action.kind)

\* The end of act: evidence, touch and the result, or another round.
Verify(app, passed) ==
  LET verdict == IF action.check = "predicate"
                   THEN IF passed THEN "VERIFIED" ELSE "FAILED"
                   ELSE Verdict(app)
  IN /\ action.pc = "verify"
     /\ app \in {desktop.app, ""}
     /\ IF MayRetry(verdict)
          THEN /\ action' = [action EXCEPT !.pc = "before", !.attempts = @ + 1]
               /\ UNCHANGED session
          ELSE /\ EndAct(action, "NONE", verdict)
               /\ session' = [session EXCEPT
                    !.status = IF @ = "READY" THEN "ACTIVE" ELSE @]
     /\ UNCHANGED desktop

-----------------------------------------------------------------------------
(* Other threads and the desktop.                                          *)

Pause == session.status = "ACTIVE" /\ session' = [session EXCEPT !.status = "PAUSED"]
Unpause == session.status = "PAUSED" /\ session' = [session EXCEPT !.status = "ACTIVE"]
CloseSession == session.status # "CLOSED" /\ session' = [session EXCEPT !.status = "CLOSED"]

\* The effect of an event that was slow.
EffectShows ==
  /\ action.effect = "late"
  /\ action' = [action EXCEPT !.effect = "shown", !.moved = action.pc \in {"dispatch", "verify"}]

\* Whatever else runs on the desktop.
DesktopChanges ==
  \/ /\ \E app \in Apps : desktop' = [desktop EXCEPT !.app = app]
     /\ action' = [action EXCEPT !.moved = action.pc \in {"dispatch", "verify"}]
  \/ /\ \E layout \in Layouts : desktop' = [desktop EXCEPT !.layout = layout]
     /\ UNCHANGED action

ControlNext ==
  \/ \E kind \in Kinds, point \in {"near", "far"}, check \in {"default", "predicate", "none"},
        dry \in BOOLEAN :
       \E approved \in {HighRisk(kind), FALSE} : Act(kind, point, check, approved, dry)
  \/ PlanTarget \/ RefreshFails
  \/ \E app \in Apps \cup {""} :
       \/ CaptureBefore(app)
       \/ \E passed \in BOOLEAN : Verify(app, passed)
  \/ \E effect \in {"none", "late", "shown"} :
       \/ DispatchSucceeds(effect)
       \/ \E cause \in {"permission", "timeout", "fault"} :
            DispatchFails(cause, effect) \/ DispatchRaises(cause, effect)
  \/ (Pause \/ Unpause \/ CloseSession) /\ UNCHANGED <<desktop, action>>
  \/ EffectShows /\ UNCHANGED <<session, desktop>>
  \/ DesktopChanges /\ UNCHANGED session

ControlSpec == ControlInit /\ [][ControlNext]_controlVars

-----------------------------------------------------------------------------

\* How often an action reaches the desktop: never without its approval or as a dry
\* run, once if it is HIGH risk or not retryable, and not again after a dispatch that
\* failed, timed out or was verified.
SendsAreBounded ==
  /\ action.sent > 0 => (HighRisk(action.kind) => action.approved) /\ ~action.dry
  /\ action.sent > 1 => /\ Retryable(action.kind) /\ ~HighRisk(action.kind)
                        /\ action.check = "default"
  /\ action.failed => action.pc = "idle"

\* The retry of app/computer/runtime.py:293 repeats only what has had no effect by
\* the time the screen was looked at again: what a user sees done is not done twice.
RepeatsOnlyInert ==
  [][(action.pc = "verify" /\ action'.pc = "before") => action.effect # "shown"]_controlVars

\* Both: an action is done as often as it has to be, on a backend that sees pixels.
ActsWithReason == []SendsAreBounded /\ RepeatsOnlyInert
=============================================================================
