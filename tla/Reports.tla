------------------------------- MODULE Reports -------------------------------
(***************************************************************************)
(* The dashboard (api dashboard.controller.ts, web dashboard/page.tsx): a  *)
(* manager picks days of the calendar of the place where he is, and each   *)
(* report is a query of its own over the instants the tables keep.  A      *)
(* report is a function of the tables as they are when it is asked for.    *)
(* An instant is an hour of UTC; days and months are short.                *)
(***************************************************************************)
EXTENDS Integers, Sequences, FiniteSets, FiniteSetsExt

CONSTANTS
  Nobody,
  Hours,         \* of a day (24)
  Week, Month,   \* days of '7d', and of '30d' and of a month
  Zone,          \* bound: the offsets of the place, in hours to take from UTC
  Agent,        \* users of the company
  Advert,          \* links of advertisements
  MaxInstant, MaxTalk, MaxThreads, MaxPicks   \* bounds: time, messages, chats, periods picked

\* BackOffice assumes it.
ReportsAssumption ==
  /\ {Hours, Week, Month} \subseteq Nat \ {0} /\ Zone \subseteq Int
  /\ {MaxInstant, MaxTalk, MaxThreads, MaxPicks} \subseteq Nat

VARIABLES
  instant, zone,
  talk,       \* messages: when, which way, of which chat, by whom
  threads,    \* chats: since when, of which advertisement, whose, in which stage, won
  active,     \* users that are active
  period,     \* what the page has picked: from, to
  picks
reportVars == <<instant, zone, talk, threads, active, period, picks>>

-----------------------------------------------------------------------------
(* Days of the place, as the page sends them and the API reads them back. *)

\* The day an instant falls on in UTC, which is not that of the place.
LocalDayUtc(t) == t \div Hours
\* The day an instant falls on: localDayKey, and toDateInputValue of the browser.
LocalDay(t) == (t - zone) \div Hours
LocalHour(t) == (t - zone) % Hours
Midnight(d) == d * Hours + zone          \* parseDateInputValue

Today == LocalDay(instant)
Preset == {"today", "yesterday", "7d", "30d", "month", "custom"}
Days(p) ==
  CASE p = "yesterday" -> [from |-> Today - 1, to |-> Today - 1]
    [] p = "7d" -> [from |-> Today - (Week - 1), to |-> Today]
    [] p = "30d" -> [from |-> Today - (Month - 1), to |-> Today]
    [] p = "month" -> [from |-> Today - (Today % Month), to |-> Today]
    [] OTHER -> [from |-> Today, to |-> Today]

\* rangeParams: up to the midnight after the last day, which is not in it.
Start == Midnight(period.from)
End == Midnight(period.to + 1)
InRange(t) == t >= Start /\ t < End

-----------------------------------------------------------------------------
(* What happens meanwhile: the rest of the system, and the picking of a period. *)

ReportsInit ==
  /\ instant \in 0..(Hours - 1) /\ zone \in Zone
  /\ talk = <<>> /\ threads = <<>> /\ active = Agent
  /\ period = Days("today") /\ picks = 0

Tick ==
  /\ instant < MaxInstant /\ instant' = instant + 1
  /\ UNCHANGED <<zone, talk, threads, active, period, picks>>

Comes(m) ==
  /\ Len(talk) < MaxTalk /\ talk' = Append(talk, [m EXCEPT !.at = instant])
  /\ UNCHANGED <<instant, zone, threads, active, period, picks>>

BeginsChat(c) ==
  /\ Len(threads) < MaxThreads /\ threads' = Append(threads, [c EXCEPT !.since = instant])
  /\ UNCHANGED <<instant, zone, talk, active, period, picks>>

Retires(u) ==
  /\ u \in active /\ active' = active \ {u}
  /\ UNCHANGED <<instant, zone, talk, threads, period, picks>>

Pick(days) ==
  /\ picks < MaxPicks /\ picks' = picks + 1 /\ period' = days
  /\ UNCHANGED <<instant, zone, talk, threads, active>>
ApplyPreset(p) == Pick(Days(p))
\* The inputs keep the last day from coming before the first.
PickDays ==
  \E from \in -1..LocalDay(MaxInstant), to \in -1..LocalDay(MaxInstant) :
    from <= to /\ Pick([from |-> from, to |-> to])

Messages == [at : {0}, inbound : {TRUE}, chat : 1..2, by : {Nobody}] \cup [at : {0}, inbound : {FALSE}, chat : {1}, by : Agent \cup {"ai"}]
Chats == [since : {0}, ad : Advert \cup {Nobody}, agent : Agent \cup {Nobody}, stage : {Nobody, 1}, open : BOOLEAN, won : {FALSE}]
  \cup [since : {0}, ad : Advert, agent : {Nobody}, stage : {Nobody}, open : {FALSE}, won : {TRUE}]

ReportsNext ==
  \/ Tick \/ PickDays
  \/ \E m \in Messages : Comes(m)
  \/ \E c \in Chats : BeginsChat(c)
  \/ \E u \in Agent : Retires(u)
  \/ \E p \in Preset \ {"custom"} : ApplyPreset(p)

ReportsSpec == ReportsInit /\ [][ReportsNext]_reportVars

-----------------------------------------------------------------------------
(* The reports. *)

Talk == {i \in DOMAIN talk : InRange(talk[i].at)}
Of(S) == {talk[i].chat : i \in S}
Total(f) == Cardinality(UNION {{x} \X (1..f[x]) : x \in DOMAIN f})

Stats ==
  [inbound |-> Cardinality({m \in Talk : talk[m].inbound}), outbound |-> Cardinality({m \in Talk : ~talk[m].inbound}),
   ai |-> Cardinality({m \in Talk : talk[m].by = "ai"})]

\* One row for each day from the start, a day of Hours at a time.
RowDay(i) == LocalDay(Start + (i - 1) * Hours)
Rows == [i \in 1..((End - Start + Hours - 1) \div Hours) |-> RowDay(i)]
MessageVolume ==
  [i \in DOMAIN Rows |->
     LET date == RowDay(i)
         day == {m \in Talk : LocalDay(talk[m].at) = date}
     IN  [date |-> date, inbound |-> Cardinality({k \in day : talk[k].inbound}),
          outbound |-> Cardinality({k \in day : ~talk[k].inbound}), interactions |-> Cardinality(Of(day))]]

ContactsNew ==
  [i \in DOMAIN Rows |-> Cardinality({k \in DOMAIN threads : InRange(threads[k].since) /\ LocalDay(threads[k].since) = RowDay(i)})]

HourlyDistribution == [h \in 0..(Hours - 1) |-> Cardinality({m \in Talk : LocalHour(talk[m].at) = h})]

AgentPerformance ==
  [u \in active |-> LET sent == {m \in Talk : talk[m].by = u}
                    IN  [messagesSent |-> Cardinality(sent), conversationsTouched |-> Cardinality(Of(sent))]]

Breakdown ==
  [byUser |-> [u \in active |-> Cardinality({k \in DOMAIN threads : threads[k].agent = u})],
   unassigned |-> Cardinality({k \in DOMAIN threads : threads[k].agent = Nobody})]

\* The stages of one department; every chat is in it here.
Pipeline ==
  [stage |-> [s \in {1} |-> Cardinality({k \in DOMAIN threads : threads[k].open /\ threads[k].stage = s})],
   noStage |-> Cardinality({k \in DOMAIN threads : threads[k].open /\ threads[k].stage = Nobody})]

\* The click on an advertisement is what the chat begins with here.
Ads == {k \in DOMAIN threads : threads[k].ad # Nobody /\ InRange(threads[k].since)}
AdOrigins ==
  [adChats |-> Cardinality(Ads), convertedChats |-> Cardinality({k \in Ads : threads[k].won}),
   organicChats |-> Cardinality({k \in DOMAIN threads : threads[k].ad = Nobody /\ InRange(threads[k].since)}),
   ads |-> [a \in {threads[k].ad : k \in Ads} |->
              [chats |-> Cardinality({k \in Ads : threads[k].ad = a}),
               converted |-> Cardinality({k \in Ads : threads[k].ad = a /\ threads[k].won})]]]

\* plan-usage counts from the midnight and the first of the month of UTC.
PlanUsage ==
  [today |-> Cardinality({i \in DOMAIN talk : talk[i].at >= instant - (instant % Hours)}),
   month |-> Cardinality({i \in DOMAIN talk : talk[i].at >= instant - (instant % (Hours * Month))})]

-----------------------------------------------------------------------------
(* The charts of the page. *)

\* niceStep: the rough step is a third of the largest value; what it is rounded up to is 1,
\* 2, 5 or 10 of its magnitude.
Magnitude(max) == Max({m \in {1, 10, 100, 1000} : 3 * m <= max} \cup {1})
NiceStep(max) ==
  LET m == Magnitude(max)
  IN  Min({k * m : k \in {j \in {1, 2, 5, 10} : max <= 3 * j * m}})
ChartMax(max) == NiceStep(max) * ((max + NiceStep(max) - 1) \div NiceStep(max))
GridLines(max) == {v \in {NiceStep(max) * i : i \in 0..3} : v <= ChartMax(max)}

-----------------------------------------------------------------------------
\* Every day picked has its row, once and in order, and counts the messages and the chats
\* from its own midnight to the next, wherever the manager is (dashboard.controller.ts:20-23).
DaysAreHis ==
  /\ Rows = [i \in 1..(period.to - period.from + 1) |-> period.from + i - 1]
  /\ \A i \in DOMAIN Rows :
       LET his == {k \in DOMAIN talk : talk[k].at \in Midnight(RowDay(i))..(Midnight(RowDay(i) + 1) - 1)}
           volume == MessageVolume[i]
       IN  volume.inbound + volume.outbound = Cardinality(his) /\ volume.interactions = Cardinality(Of(his))

\* Reports that are worked out apart agree: what comes in and goes out, by day, by hour
\* and as a total; what agents and the AI sent, with what agents sent who have gone; chats
\* by agent, with those of agents who have gone; chats by stage; chats by advertisement;
\* and, where the day of UTC is the day of the place, what the plan counts as today's.
TotalsAgree ==
  LET volume == MessageVolume
      sent == AgentPerformance
      origins == AdOrigins
      gone == Agent \ active
  IN  /\ Total([i \in DOMAIN volume |-> volume[i].inbound]) = Stats.inbound
      /\ Total([i \in DOMAIN volume |-> volume[i].outbound]) = Stats.outbound
      /\ Total(HourlyDistribution) = Stats.inbound + Stats.outbound
      /\ Total([u \in active |-> sent[u].messagesSent]) + Stats.ai
           + Cardinality({m \in Talk : talk[m].by \in gone}) = Stats.outbound
      /\ Total(Breakdown.byUser) + Breakdown.unassigned
           + Cardinality({k \in DOMAIN threads : threads[k].agent \in gone}) = Len(threads)
      /\ Total(Pipeline.stage) + Pipeline.noStage = Cardinality({k \in DOMAIN threads : threads[k].open})
      /\ Total(ContactsNew) = origins.adChats + origins.organicChats
      /\ Total([a \in DOMAIN origins.ads |-> origins.ads[a].chats]) = origins.adChats
      /\ Total([a \in DOMAIN origins.ads |-> origins.ads[a].converted]) = origins.convertedChats
      /\ zone = 0 /\ period = Days("today") => PlanUsage.today = Stats.inbound + Stats.outbound

\* Nothing is drawn outside its chart, whatever is largest: the top of the axis is a line
\* of the grid, and no value is above it.  The step changes after 3, 6, 15 and 30 of each magnitude.
\* It depends on no state, and is worked out before anything has happened.
Turns == {k * m : k \in {3, 6, 15}, m \in {1, 10, 100}}
AxisFits == instant = 0 /\ picks = 0 /\ talk = <<>> /\ threads = <<>> /\ active = Agent => \A max \in Turns \cup {k + 1 : k \in Turns} : max <= ChartMax(max) /\ ChartMax(max) \in GridLines(max)

ReportsAgree == DaysAreHis /\ TotalsAgree /\ AxisFits
=============================================================================
