------------------------ MODULE SessionLifecycleProofs ------------------------
(***************************************************************************)
(* The properties of SessionLifecycle, for every value of its constants.   *)
(***************************************************************************)
EXTENDS SessionLifecycle, SessionDataProofs

\* The metadata and the report of SessionLifecycle keep their types.
THEOREM TypeCorrect == Spec => []TypeOK
<1>1. Init => TypeOK
  <2> SUFFICES ASSUME Init PROVE TypeOK
    OBVIOUS
  <2>1. PICK l \in TokenLifetimes : md = Created(1, l)
    BY DEF Init
  <2>2. l \in Int
    BY LifecycleAssumption
  <2>3. md \in Metadata /\ (Inactivity <=> md.timeoutAt # ZeroTime)
    BY <2>1, <2>2, CreatedType
  <2>4. clock = 1 /\ report \in Report /\ report.at <= clock
    BY DEF Init, Report, NoReport, ZeroTime
  <2> QED BY <2>3, <2>4 DEF TypeOK
<1>2. TypeOK /\ [Next]_vars => TypeOK'
  <2> SUFFICES ASSUME TypeOK, [Next]_vars PROVE TypeOK'
    OBVIOUS
  <2> USE DEF TypeOK
  <2>0. NoReport \in Report /\ NoReport.at <= clock
    BY DEF NoReport, Report, ZeroTime
  <2>1. CASE Tick
    BY <2>1 DEF Tick, Report
  <2>2. CASE Session
    <3>1. /\ NextRefresh(md, clock) - clock \in Int
          /\ RefreshCooldown(md) - clock \in Int
      BY NextRefreshType, CooldownType
    <3>2. /\ toSeconds(NextRefresh(md, clock) - clock) \in Int
          /\ toSeconds(RefreshCooldown(md) - clock) \in Int
      BY <3>1, SecondsRoundDown
    <3>3. IsRefreshOnCooldown(md, clock) \in BOOLEAN
      BY DEF IsRefreshOnCooldown
    <3> QED BY <2>2, <3>2, <3>3 DEF Session, VerboseWithRefresh, Report
  <2>3. ASSUME NEW l \in TokenLifetimes, Login(l) PROVE TypeOK'
    BY <2>0, <2>3, CreatedType, LifecycleAssumption DEF Login
  <2>4. ASSUME NEW l \in TokenLifetimes, AutoRefresh(l) \/ ManualRefresh(l)
        PROVE  TypeOK'
    BY <2>0, <2>4, RefreshedType, LifecycleAssumption DEF AutoRefresh, ManualRefresh
  <2>5. CASE UNCHANGED vars
    BY <2>5 DEF vars
  <2> QED BY <2>1, <2>2, <2>3, <2>4, <2>5 DEF Next
<1> QED BY <1>1, <1>2, PTL DEF Spec

\* At the last valid instant, a session that has not timed out can be renewed by
\* a proxied request (GetOrRefresh) and by the refresh endpoint (Refresh).
THEOREM Renewable == Spec => []RenewableBeforeExpiry
<1>1. TypeOK => RenewableBeforeExpiry
  BY DueAtExpiry DEF TypeOK, RenewableBeforeExpiry, ShouldRefresh
<1> QED BY <1>1, TypeCorrect, PTL

\* Automatic renewal happens at the earliest the leeway before expiry.
THEOREM AfterLeeway == Spec => []NotBeforeLeeway
<1>1. TypeOK => NotBeforeLeeway
  BY DueAfterLeeway DEF TypeOK, NotBeforeLeeway
<1> QED BY <1>1, TypeCorrect, PTL

-----------------------------------------------------------------------------
(***************************************************************************)
(* Reports.  A report describes the stored metadata as it was at the       *)
(* instant of the report; every step that changes the metadata discards    *)
(* the report.                                                             *)
(***************************************************************************)
ReportInv ==
    report.at # ZeroTime =>
        /\ report.nextAutoRefresh = toSeconds(NextRefresh(md, report.at) - report.at)
        /\ report.refreshCooldown = IsRefreshOnCooldown(md, report.at)
        /\ report.cooldownSeconds = toSeconds(RefreshCooldown(md) - report.at)

\* What GET /oauth2/session answered stays a description of the session.
LEMMA ReportInvariant == Spec => []ReportInv
<1>1. Init => ReportInv
  BY DEF Init, ReportInv, NoReport
<1>2. ReportInv /\ [Next]_vars => ReportInv'
  <2> SUFFICES ASSUME ReportInv, [Next]_vars PROVE ReportInv'
    OBVIOUS
  <2>1. CASE Tick
    BY <2>1 DEF Tick, ReportInv
  <2>2. CASE Session
    BY <2>2 DEF Session, ReportInv, VerboseWithRefresh
  <2>3. ASSUME NEW l \in TokenLifetimes,
               Login(l) \/ AutoRefresh(l) \/ ManualRefresh(l)
        PROVE  ReportInv'
    BY <2>3 DEF Login, AutoRefresh, ManualRefresh, ReportInv, NoReport
  <2>4. CASE UNCHANGED vars
    BY <2>4 DEF vars, ReportInv
  <2> QED BY <2>1, <2>2, <2>3, <2>4 DEF Next
<1> QED BY <1>1, <1>2, PTL DEF Spec

\* next_auto_refresh_in_seconds announces no refresh that comes earlier.
THEOREM NotEarlierThanAnnounced == Spec => []NotBeforeAnnounced
<1>1. TypeOK /\ ReportInv => NotBeforeAnnounced
  BY AnnouncedIsEarliest DEF TypeOK, Report, ReportInv, NotBeforeAnnounced
<1> QED BY <1>1, TypeCorrect, ReportInvariant, PTL

\* refresh_cooldown and refresh_cooldown_seconds hold until the next renewal.
THEOREM CooldownReport == Spec => []CooldownAsAnnounced
<1>1. TypeOK /\ ReportInv => CooldownAsAnnounced
  <2> SUFFICES ASSUME TypeOK, ReportInv, report.at # ZeroTime
               PROVE  /\ IsRefreshOnCooldown(md, clock) => report.refreshCooldown
                      /\ clock < report.at + report.cooldownSeconds * TicksPerSecond
                         => IsRefreshOnCooldown(md, clock)
    BY DEF CooldownAsAnnounced
  <2>1. /\ report.at \in Int /\ clock \in Int /\ report.at <= clock
        /\ md \in Metadata /\ RefreshCooldown(md) \in Int
    BY CooldownType DEF TypeOK, Report
  <2>2. IsRefreshOnCooldown(md, clock) => IsRefreshOnCooldown(md, report.at)
    BY <2>1 DEF IsRefreshOnCooldown
  <2>3. IsRefreshOnCooldown(md, clock) => report.refreshCooldown
    BY <2>2 DEF ReportInv
  <2>4. clock < report.at + report.cooldownSeconds * TicksPerSecond
        => clock < RefreshCooldown(md)
    BY <2>1, CooldownLasts DEF ReportInv
  <2> QED BY <2>3, <2>4 DEF IsRefreshOnCooldown
<1> QED BY <1>1, TypeCorrect, ReportInvariant, PTL

\* LifetimesFromTheirStart is inductive on its own, given the types: Create and
\* Refresh are the only writers of the metadata.
THEOREM LifetimesKept == Spec => []LifetimesFromTheirStart
<1>1. Init => LifetimesFromTheirStart
  <2> SUFFICES ASSUME Init PROVE LifetimesFromTheirStart
    OBVIOUS
  <2>1. PICK l \in TokenLifetimes : md = Created(1, l)
    BY DEF Init
  <2> QED BY <2>1, SessionConfigAssumption
          DEF Init, LifetimesFromTheirStart, Created, NewMetadata, WithTimeout
<1>2. TypeOK /\ LifetimesFromTheirStart /\ [Next]_vars => LifetimesFromTheirStart'
  <2> SUFFICES ASSUME TypeOK, LifetimesFromTheirStart, [Next]_vars
               PROVE  LifetimesFromTheirStart'
    OBVIOUS
  <2> USE DEF TypeOK, Metadata, LifetimesFromTheirStart
  <2>1. CASE Tick
    BY <2>1 DEF Tick
  <2>2. CASE Session
    BY <2>2 DEF Session
  <2>3. ASSUME NEW l \in TokenLifetimes, Login(l)
        PROVE  LifetimesFromTheirStart'
    BY <2>3, SessionConfigAssumption
       DEF Login, Created, NewMetadata, WithTimeout
  <2>4. ASSUME NEW l \in TokenLifetimes, AutoRefresh(l) \/ ManualRefresh(l)
        PROVE  LifetimesFromTheirStart'
    <3>1. /\ md' = Refreshed(md, clock, l) /\ clock' = clock /\ l \in Int
      BY <2>4, LifecycleAssumption DEF AutoRefresh, ManualRefresh
    <3>2. /\ md'.createdAt = md.createdAt /\ md'.endsAt = md.endsAt
          /\ md'.refreshedAt = clock
          /\ Inactivity => md'.timeoutAt = clock + InactivityTimeout
      BY <3>1, RefreshedType
    <3> QED BY <3>1, <3>2
  <2>5. CASE UNCHANGED vars
    BY <2>5 DEF vars
  <2> QED BY <2>1, <2>2, <2>3, <2>4, <2>5 DEF Next
<1> QED BY <1>1, <1>2, TypeCorrect, PTL DEF Spec
=============================================================================
