---------------------------- MODULE DeliveryPlans ----------------------------
(***************************************************************************)
(* What is agreed upon for the delivery of one order: who of the promoters *)
(* can deliver it, by which of their routes, on which day and for what     *)
(* fee.  Promoters change their settings and routes at any time, and no    *)
(* handler locks them.  The course of a request itself, its windows and    *)
(* its cancellation, is DeliveryRequests'; here it may expire at any time, *)
(* and a refusal, an expiry or a flush is one step.                        *)
(***************************************************************************)
EXTENDS Integers, FiniteSets

CONSTANTS Promoters, NoPromoter,
          Routes, NoRoute,
          OwnerOf,      \* the promoter of each route
          Elsewhere,    \* those that do not cover the order's address at first
          Choices,      \* the settings there may be: working days, and the fee, 0 if not offered
          DaysInWeek,
          Sessions,
          MaxDay,       \* bound on the calendar
          MaxEdits      \* bound on the edits of settings and routes

VARIABLES
    option,   \* of the order: ROUTE or INSTANT
    deal,     \* the promoter of its deal, if there is one
    today,
    settings, \* each promoter's delivery_settings row
    route,    \* each route: deleted, inactive, or active and covering the address or not
    order,    \* the order's columns about the delivery; day 0 before it is placed
    request,  \* its last delivery request
    quoted,   \* the fee that was planned with that request
    lock,     \* the session that has selected the request FOR UPDATE
    req,      \* each session's handler
    edited,   \* promoters who changed something since it was last relied on
    edits,
    overlapped\* two plans for the order were made at the same time

vars == <<option, deal, today, settings, route, order, request, quoted, lock, req, edited, edits, overlapped>>

Anyone  == Promoters \cup {NoPromoter}
Days    == 1..MaxDay + DaysInWeek
Weekday(d)  == d % DaysInWeek
RouteStates == {"deleted", "inactive", "elsewhere", "covers"}
NoOrder   == [fee |-> 0, day |-> 0]
NoRequest == [status |-> "none", route |-> NoRoute, promoter |-> NoPromoter,
              passed_over |-> NoPromoter, escalated |-> FALSE, day |-> 0]
Idle      == [op |-> "idle", seen |-> NoOrder, order |-> NoOrder, row |-> NoRequest]

Fees     == {c.fee : c \in Choices}
Orders   == [fee: Fees \cup {0}, day: Days \cup {0}]
Requests == [status: {"none", "requested", "accepted", "rejected", "expired"},
             route: Routes \cup {NoRoute}, promoter: Anyone, passed_over: Anyone,
             escalated: BOOLEAN, day: Days \cup {0}]

TypeOK ==
    /\ option \in {"route", "instant"} /\ deal \in Anyone /\ today \in 1..MaxDay
    /\ settings \in [Promoters -> Choices] /\ route \in [Routes -> RouteStates]
    /\ order \in Orders /\ request \in Requests /\ quoted \in Fees \cup {0}
    /\ lock \in Sessions \cup {"free"}
    /\ req \in [Sessions -> [op: {"idle", "place", "re_request", "accept"}, seen: Orders,
                             order: Orders, row: Requests]]
    /\ edited \subseteq Promoters /\ edits \in 0..MaxEdits /\ overlapped \in BOOLEAN

Init ==
    /\ option \in {"route", "instant"} /\ deal \in Anyone /\ today = 1
    /\ settings \in [Promoters -> Choices]
    /\ route = [r \in Routes |-> IF r \in Elsewhere THEN "elsewhere" ELSE "covers"]
    /\ order = NoOrder /\ request = NoRequest /\ quoted = 0 /\ lock = "free"
    /\ req = [s \in Sessions |-> Idle]
    /\ edited = {} /\ edits = 0 /\ overlapped = FALSE

world == <<option, deal, today, settings, route, edits>>
End(s) == req' = [req EXCEPT ![s] = Idle]

\* delivery_schedule.py
WorksOn(p, d)    == Weekday(d) \in settings[p].days
NextWorkingDay(p) ==
    LET ahead == {d \in today + 1..today + DaysInWeek : WorksOn(p, d)} IN
    IF ahead = {} THEN today + 1 ELSE CHOOSE d \in ahead : \A e \in ahead : d <= e

\* list_serving and eligible_routes; `open` are those within their hours.
Eligible(p, open) ==
    {r \in Routes : /\ route[r] = "covers"
                    /\ p # NoPromoter => OwnerOf[r] = p
                    /\ settings[OwnerOf[r]].fee # 0
                    /\ option = "instant" => OwnerOf[r] \in open /\ WorksOn(OwnerOf[r], today)}

----------------------------------------------------------------------------
(* place and re_request                                                    *)

LowestFee(rs) == CHOOSE f \in {settings[OwnerOf[r]].fee : r \in rs} :
                    \A r \in rs : f <= settings[OwnerOf[r]].fee

\* _route_plan: the customer chose one of the routes; _instant_plan: somebody can.
Plans(open) ==
    IF option = "route"
    THEN {[fee |-> settings[OwnerOf[r]].fee,
           row |-> [NoRequest EXCEPT !.route = r, !.promoter = OwnerOf[r],
                                     !.day = NextWorkingDay(OwnerOf[r])]] : r \in Eligible(deal, open)}
    ELSE {[fee |-> LowestFee(rs),
           row |-> [NoRequest EXCEPT !.promoter = deal, !.escalated = deal = NoPromoter,
                                     !.day = today]] : rs \in {Eligible(deal, open)} \ {{}}}

Planning == {s \in Sessions : req[s].op \in {"place", "re_request"}}
Plan(s) ==
    /\ req[s].op = "idle"
    /\ request.status \in {"none", "rejected", "expired"}
    /\ request.status = "none" => Planning = {}
    /\ \E open \in SUBSET Promoters : \E plan \in Plans(open) :
         req' = [req EXCEPT ![s] =
            [op    |-> IF request.status = "none" THEN "place" ELSE "re_request",
             seen  |-> order,
             order |-> [fee |-> plan.fee, day |-> plan.row.day],
             row   |-> [plan.row EXCEPT !.status = "requested"]]]
    /\ overlapped' = (overlapped \/ Planning # {})
    /\ edited' = IF \A o \in Sessions : req[o].op = "idle" THEN {} ELSE edited
    /\ UNCHANGED <<world, order, request, quoted, lock>>

\* The UPDATE names the columns that differ from what was read.
Written(old, seen, new) == [c \in DOMAIN old |-> IF new[c] # seen[c] THEN new[c] ELSE old[c]]

\* The commit: one request is active, and its route is there.
InsertRequest(s) ==
    LET r == req[s] IN
    /\ r.op \in {"place", "re_request"} /\ End(s)
    /\ IF /\ request.status \in {"none", "rejected", "expired"}
          /\ r.row.route # NoRoute => route[r.row.route] # "deleted"
       THEN /\ request' = r.row /\ order' = Written(order, r.seen, r.order) /\ quoted' = r.order.fee
       ELSE UNCHANGED <<request, order, quoted>>
    /\ UNCHANGED <<world, lock, edited, overlapped>>

----------------------------------------------------------------------------
(* The promoters' answers                                                  *)

\* _ensure_route_can_serve: a route request that was not opened to others is
\* taken at its word.
CanServe(p, r) ==
    /\ OwnerOf[r] = p /\ route[r] \notin {"deleted", "inactive"}
    /\ \/ option = "route" /\ ~request.escalated
       \/ /\ settings[p].fee # 0
          /\ option = "instant" => WorksOn(p, today)
          /\ route[r] = "covers"

\* accept, up to its flush; _reschedule.
RescheduledDay(p) ==
    IF ~request.escalated THEN request.day
    ELSE IF option = "route" THEN NextWorkingDay(p) ELSE today
Accept(s, p, r) ==
    /\ req[s].op = "idle" /\ lock = "free"
    /\ request.status = "requested"
    /\ request.promoter \in {NoPromoter, p} /\ request.passed_over # p
    /\ request.route \in {NoRoute, r} /\ CanServe(p, r)
    /\ lock' = s
    /\ LET day == RescheduledDay(p) IN
       req' = [req EXCEPT ![s] =
          [op |-> "accept", seen |-> order,
           order |-> IF request.escalated THEN [order EXCEPT !.day = day] ELSE order,
           row |-> [request EXCEPT !.status = "accepted", !.promoter = p, !.route = r, !.day = day]]]
    /\ edited' = IF request.escalated /\ Planning = {} THEN edited \ {p} ELSE edited
    /\ UNCHANGED <<world, order, request, quoted, overlapped>>

CommitAccept(s) ==
    LET r == req[s] IN
    /\ r.op = "accept" /\ End(s) /\ lock' = "free"
    /\ IF route[r.row.route] # "deleted"
       THEN request' = r.row /\ order' = Written(order, r.seen, r.order)
       ELSE UNCHANGED <<request, order>>
    /\ UNCHANGED <<world, quoted, edited, overlapped>>

\* _escalate: to the promoters who could deliver, but the one who did not.
Candidates(open) == {OwnerOf[r] : r \in Eligible(NoPromoter, open)} \ {request.promoter}
PassOver(status) ==
    /\ request.status = "requested" /\ lock = "free"
    /\ \E open \in SUBSET Promoters :
         request' = IF ~request.escalated /\ Candidates(open) # {}
                    THEN [request EXCEPT !.passed_over = request.promoter, !.promoter = NoPromoter,
                                         !.route = NoRoute, !.escalated = TRUE]
                    ELSE [request EXCEPT !.status = status]
    /\ UNCHANGED <<world, order, quoted, lock, req, edited, overlapped>>
Reject == request.promoter # NoPromoter /\ PassOver("rejected")
Expire == PassOver("expired")

Abandon(s) ==
    /\ req[s].op # "idle" /\ End(s)
    /\ lock' = IF lock = s THEN "free" ELSE lock
    /\ UNCHANGED <<world, order, request, quoted, edited, overlapped>>

----------------------------------------------------------------------------
(* The promoters' settings and routes, and the calendar                    *)

Edit(p) == edits < MaxEdits /\ edits' = edits + 1 /\ edited' = edited \cup {p}

SaveSettings(p) ==
    /\ Edit(p) /\ \E c \in Choices : settings' = [settings EXCEPT ![p] = c]
    /\ UNCHANGED <<option, deal, today, route, order, request, quoted, lock, req, overlapped>>
UpdateRoute(r) ==
    /\ route[r] # "deleted" /\ Edit(OwnerOf[r])
    /\ \E state \in {"inactive", "elsewhere", "covers"} : route' = [route EXCEPT ![r] = state]
    /\ UNCHANGED <<option, deal, today, settings, order, request, quoted, lock, req, overlapped>>

\* The requests of a deleted route forget it: ON DELETE SET NULL.
DeleteRoute(r) ==
    /\ route[r] # "deleted" /\ Edit(OwnerOf[r])
    /\ request.route = r => lock = "free"
    /\ route' = [route EXCEPT ![r] = "deleted"]
    /\ request' = IF request.route = r THEN [request EXCEPT !.route = NoRoute] ELSE request
    /\ UNCHANGED <<option, deal, today, settings, order, quoted, lock, req, overlapped>>

NextDay ==
    /\ today < MaxDay /\ today' = today + 1
    /\ UNCHANGED <<option, deal, settings, route, order, request, quoted, lock, req, edited, edits, overlapped>>

Next ==
    \/ \E s \in Sessions : \/ Plan(s) \/ InsertRequest(s) \/ CommitAccept(s) \/ Abandon(s)
                           \/ \E p \in Promoters, r \in Routes : Accept(s, p, r)
    \/ Reject \/ Expire \/ NextDay
    \/ \E p \in Promoters : SaveSettings(p)
    \/ \E r \in Routes : UpdateRoute(r) \/ DeleteRoute(r)

Spec == Init /\ [][Next]_vars

-----------------------------------------------------------------------------
(* The customer is told the day of the request in force, and pays what was *)
(* planned with it, unless two plans of the order were made at once.       *)
DeliveryAgreed ==
    request.status \in {"requested", "accepted"} /\ ~overlapped =>
        order.day = request.day /\ order.fee = quoted

(* Who has accepted delivers: by an active route of theirs that covers the *)
(* address, on a day on which they work and an option that they offer, as  *)
(* long as they change nothing after it was relied on.                     *)
AcceptedCanServe ==
    request.status = "accepted" =>
        LET p == request.promoter IN
        /\ request.route # NoRoute => OwnerOf[request.route] = p /\ route[request.route] # "deleted"
        /\ p \notin edited => /\ request.route # NoRoute /\ route[request.route] = "covers"
                              /\ settings[p].fee # 0 /\ WorksOn(p, request.day)

\* A planner has read the order, and whom it plans with can deliver, unless they
\* changed something; and so has the request in force.
Serves(p, r) == OwnerOf[r] = p /\ route[r] = "covers" /\ settings[p].fee # 0
PlannedFor(row) ==
    row.promoter # NoPromoter /\ row.promoter \notin edited =>
        /\ settings[row.promoter].fee # 0 /\ WorksOn(row.promoter, row.day)
        /\ option = "route" => row.route # NoRoute /\ Serves(row.promoter, row.route)
Routed(row) ==
    /\ row.route # NoRoute => OwnerOf[row.route] = row.promoter
    /\ ~row.escalated => row.promoter \in Promoters
    /\ row.escalated => row.promoter = NoPromoter /\ row.route = NoRoute
PlansKnow ==
    \A s \in Planning :
        /\ req[s].row.status = "requested" /\ req[s].row.day = req[s].order.day
        /\ Routed(req[s].row) /\ PlannedFor(req[s].row)
        /\ ~overlapped => /\ request.status \notin {"requested", "accepted"} /\ req[s].seen = order
                          /\ \A o \in Planning : o = s
RequestKnows ==
    request.status = "requested" =>
        /\ Routed(request) /\ PlannedFor(request)
        /\ request.route # NoRoute => route[request.route] # "deleted"
AcceptsKnow ==
    \A s \in Sessions : req[s].op = "accept" =>
        LET row == req[s].row IN
        /\ lock = s /\ request.status = "requested" /\ req[s].seen = order
        /\ row.status = "accepted" /\ row.promoter \in Promoters
        /\ row.route # NoRoute /\ OwnerOf[row.route] = row.promoter
        /\ row.promoter \notin edited => /\ Serves(row.promoter, row.route)
                                         /\ WorksOn(row.promoter, row.day)
        /\ IF request.escalated THEN req[s].order = [order EXCEPT !.day = row.day]
                                ELSE req[s].order = order /\ row.day = request.day
IInv == TypeOK /\ PlansKnow /\ RequestKnows /\ AcceptsKnow /\ DeliveryAgreed /\ AcceptedCanServe
=============================================================================
