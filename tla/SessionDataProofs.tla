--------------------------- MODULE SessionDataProofs ---------------------------
(***************************************************************************)
(* What the operators of data.go compute, for every leeway, minimum        *)
(* interval, clock grain, token lifetime and session configuration.        *)
(***************************************************************************)
EXTENDS SessionData, TLAPS

\* Half of a positive lifetime (the truncating division in RefreshCooldown of
\* data.go) is not negative and ends before the lifetime does.
LEMMA HalfBounds ==
    ASSUME NEW d \in Int
    PROVE  /\ Half(d) \in Int
           /\ d > 0 => 0 <= Half(d) /\ Half(d) < d
  BY DEF Half

\* RefreshCooldown of data.go is an instant.
LEMMA CooldownType ==
    ASSUME NEW m \in Metadata
    PROVE  RefreshCooldown(m) \in Int
  BY HalfBounds, IntervalAssumption DEF RefreshCooldown, TokenLifetime, Metadata

\* NextRefresh of data.go is an instant.
LEMMA NextRefreshType ==
    ASSUME NEW m \in Metadata, NEW t \in Int
    PROVE  NextRefresh(m, t) \in Int
  BY CooldownType, IntervalAssumption DEF NextRefresh, Metadata

\* toSeconds of data.go rounds down: the ticks in the seconds it reports are
\* no more than the duration, unless the duration was negative.
LEMMA SecondsRoundDown ==
    ASSUME NEW d \in Int
    PROVE  /\ toSeconds(d) \in Nat
           /\ toSeconds(d) * TicksPerSecond <= d \/ toSeconds(d) = 0
  BY IntervalAssumption DEF toSeconds

\* Create makes well-formed metadata: a timeout is set exactly under
\* session.inactivity.
LEMMA CreatedType ==
    ASSUME NEW t \in Nat \ {0}, NEW l \in Int
    PROVE  /\ Created(t, l) \in Metadata
           /\ Inactivity <=> Created(t, l).timeoutAt # ZeroTime
<1> DEFINE new == NewMetadata(t, l, MaxLifetime)
<1>1. new \in Metadata /\ new.timeoutAt = ZeroTime
  BY SessionConfigAssumption DEF NewMetadata, Metadata, ZeroTime
<1>2. CASE Inactivity
  <2> HIDE DEF new
  <2>1. Created(t, l) = WithTimeout(new, t, InactivityTimeout)
    BY <1>2 DEF Created, new
  <2> QED BY <1>1, <1>2, <2>1, SessionConfigAssumption
          DEF WithTimeout, Metadata, ZeroTime
<1>3. CASE ~Inactivity
  BY <1>1, <1>3 DEF Created
<1> QED BY <1>2, <1>3

\* Handler.Refresh keeps metadata well-formed, and with it the creation and the
\* end of the session; the timeout counts from the refresh.
LEMMA RefreshedType ==
    ASSUME NEW t \in Nat \ {0}, NEW l \in Int, NEW m \in Metadata,
           Inactivity <=> m.timeoutAt # ZeroTime
    PROVE  /\ Refreshed(m, t, l) \in Metadata
           /\ Inactivity <=> Refreshed(m, t, l).timeoutAt # ZeroTime
           /\ Refreshed(m, t, l).createdAt = m.createdAt
           /\ Refreshed(m, t, l).endsAt = m.endsAt
           /\ Refreshed(m, t, l).refreshedAt = t
           /\ Inactivity => Refreshed(m, t, l).timeoutAt = t + InactivityTimeout
<1> DEFINE new == Refresh(m, t, l)
<1>1. /\ new \in Metadata /\ new.timeoutAt = m.timeoutAt
      /\ new.createdAt = m.createdAt /\ new.endsAt = m.endsAt
      /\ new.refreshedAt = t
  <2> DEFINE half == [m EXCEPT !.refreshedAt = t]
  <2>1. /\ half \in Metadata /\ half.timeoutAt = m.timeoutAt
        /\ half.createdAt = m.createdAt /\ half.endsAt = m.endsAt
        /\ half.refreshedAt = t
    BY DEF Metadata
  <2>2. new = [half EXCEPT !.expireAt = t + l]
    BY DEF Refresh
  <2> HIDE DEF half, new
  <2> QED BY <2>1, <2>2 DEF Metadata
<1>2. CASE Inactivity
  <2> HIDE DEF new
  <2>1. Refreshed(m, t, l) = ExtendTimeout(new, t, InactivityTimeout)
    BY <1>2 DEF Refreshed, new
  <2> QED BY <1>1, <1>2, <2>1, SessionConfigAssumption
          DEF ExtendTimeout, Metadata, ZeroTime
<1>3. CASE ~Inactivity
  BY <1>1, <1>3 DEF Refreshed
<1> QED BY <1>2, <1>3

\* At the last instant of a positive token lifetime the automatic refresh of
\* data.go is due, whatever the leeway and the minimum interval are.
LEMMA DueAtExpiry ==
    ASSUME NEW m \in Metadata, TokenLifetime(m) > 0
    PROVE  ShouldRefresh(m, m.expireAt)
<1>1. RefreshCooldown(m) \in Int /\ RefreshCooldown(m) < m.expireAt
  BY HalfBounds, IntervalAssumption DEF RefreshCooldown, TokenLifetime, Metadata
<1>2. NextRefresh(m, m.expireAt) = RefreshCooldown(m)
  BY IntervalAssumption DEF NextRefresh, Metadata
<1> QED BY <1>1, <1>2 DEF ShouldRefresh, IsRefreshOnCooldown, Metadata

\* The automatic refresh of data.go is never due before the leeway.
LEMMA DueAfterLeeway ==
    ASSUME NEW m \in Metadata, NEW t \in Int, ShouldRefresh(m, t)
    PROVE  t > m.expireAt - RefreshLeeway
<1> DEFINE next == m.expireAt - RefreshLeeway
<1>1. next \in Int
  BY IntervalAssumption DEF Metadata
<1>2. t > NextRefresh(m, t)
  BY DEF ShouldRefresh
<1>3. CASE next < t
  BY <1>1, <1>3
<1>4. CASE ~(next < t)
  BY <1>1, <1>2, <1>4 DEF NextRefresh
<1> QED BY <1>3, <1>4

\* The next refresh that a report announced bounds every later automatic one.
LEMMA AnnouncedIsEarliest ==
    ASSUME NEW m \in Metadata, NEW at \in Int, NEW t \in Int, at <= t,
           ShouldRefresh(m, t)
    PROVE  t >= at + toSeconds(NextRefresh(m, at) - at) * TicksPerSecond
<1> DEFINE next == NextRefresh(m, at)
           secs == toSeconds(next - at)
<1>1. next \in Int
  BY NextRefreshType
<1>2. t >= next
  <2>1. CASE m.expireAt - RefreshLeeway < at
    <3>1. next = RefreshCooldown(m)
      BY <2>1 DEF NextRefresh
    <3> QED BY <3>1, CooldownType DEF ShouldRefresh, IsRefreshOnCooldown
  <2>2. CASE ~(m.expireAt - RefreshLeeway < at)
    <3>1. next = m.expireAt - RefreshLeeway
      BY <2>2 DEF NextRefresh
    <3> QED BY <1>1, <3>1, DueAfterLeeway
  <2> QED BY <2>1, <2>2
<1> HIDE DEF next
<1>3. secs \in Nat /\ (secs * TicksPerSecond <= next - at \/ secs = 0)
  BY <1>1, SecondsRoundDown
<1> HIDE DEF secs
<1>4. secs * TicksPerSecond \in Int
  BY <1>3, IntervalAssumption
<1>5. secs = 0 => secs * TicksPerSecond = 0
  BY IntervalAssumption
<1>6. t >= at + secs * TicksPerSecond
  BY <1>1, <1>2, <1>3, <1>4, <1>5
<1> QED BY <1>6 DEF next, secs

\* The cooldown that a report announced lasts as long as it said.
LEMMA CooldownLasts ==
    ASSUME NEW m \in Metadata, NEW at \in Int, NEW t \in Int, at <= t,
           t < at + toSeconds(RefreshCooldown(m) - at) * TicksPerSecond
    PROVE  t < RefreshCooldown(m)
<1> DEFINE cool == RefreshCooldown(m)
           secs == toSeconds(cool - at)
<1>1. cool \in Int
  BY CooldownType
<1> HIDE DEF cool
<1>2. secs \in Nat /\ (secs * TicksPerSecond <= cool - at \/ secs = 0)
  BY <1>1, SecondsRoundDown
<1>3. t < at + secs * TicksPerSecond
  BY DEF cool
<1> HIDE DEF secs
<1>4. secs * TicksPerSecond \in Int
  BY <1>2, IntervalAssumption
<1>5. secs # 0
  BY <1>3, IntervalAssumption
<1> QED BY <1>1, <1>2, <1>3, <1>4, <1>5 DEF cool
=============================================================================
