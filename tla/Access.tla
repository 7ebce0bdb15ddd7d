------------------------------- MODULE Access -------------------------------
(***************************************************************************)
(* What one account may do: its roles and which of them are verified, and  *)
(* the permissions the roles grant.  Every request reads them anew; the    *)
(* guard of the handler, and for some the service behind it, decides.      *)
(*                                                                         *)
(* The built-in roles grant what scripts/seed.py defines, and a role made  *)
(* by an administrator one of a few permissions; an administrator may      *)
(* grant a built-in role one more.                                         *)
(***************************************************************************)
EXTENDS Naturals, FiniteSets

CONSTANTS Granted,   \* bound: the permissions an administrator may grant
          MaxRoles   \* bound: the roles an administrator assigns at a time

VARIABLES
    status,   \* of the account
    held,     \* its roles
    verified, \* those with verified_at
    village,  \* whether the village at hand names it as its native administrator
    grants,   \* the names of each role's permissions
    plugin    \* the plugin's seeders have run

vars == <<status, held, verified, village, grants, plugin>>

----------------------------------------------------------------------------
(* Who may call which handler of the HTTP API: for each file of routes, a  *)
(* function from its handlers to what the caller needs, one of a set:      *)
(* permissions, or "anybody" (no token asked for), "guest" (no token, or   *)
(* that of an active account), "signed_in", "active", "super_admin",       *)
(* "deal_acceptor" and "delivery_role".  The handlers of a file are listed *)
(* by what they need.  What they do is in the modules of the services.     *)
Needs(oneOf, handlers) == [h \in handlers |-> oneOf]
f ++ g == [h \in DOMAIN f \cup DOMAIN g |-> IF h \in DOMAIN f THEN f[h] ELSE g[h]]
Anybody(handlers) == Needs({"anybody"}, handlers)
Active(handlers)  == Needs({"active"}, handlers)

\* require_permission_or_guest
GuestPermissions == {"post.view", "page.read"}
OrGuest(permission) == {permission} \cup (IF permission \in GuestPermissions THEN {"guest"} ELSE {})

----------------------------------------------------------------------------
(* app/api/v1 *)
AadhaarDocuments ==
    Active({"upload_my_aadhaar_document", "get_my_aadhaar_document",
            "download_my_aadhaar_file"})
AccountRoleRoutes ==
    Anybody({"list_account_roles"})
    ++ Active({"get_my_account_role", "select_my_account_role"})
    ++ Needs({"role_upgrade_request.create"},
        {"submit_my_account_role_verification"})
AdminGeography ==
    Needs({"geography.import"}, {"import_geography"})
    ++ Needs({"geography.manage"}, {"create_district", "create_taluk", "create_village"})
AdminUsers ==
    Needs({"user.create"}, {"create_user"})
    ++ Needs({"user.view"}, {"list_users", "edit_user"})
    ++ Needs({"user.update"}, {"update_user", "update_user_image", "set_user_roles"})
    ++ Needs({"user.delete"}, {"delete_user"})
Assistant == Active({"ask_ai", "get_welcome"})
GoogleRoutes ==
    Anybody({"sign_in", "register"})
    ++ Active({"link"})
PhoneRoutes ==
    Anybody({"request_otp", "verify_otp", "register"})
    ++ Active({"request_link_otp", "verify_link_otp"})
AuthRoutes ==
    Anybody({"login", "refresh", "verify_email", "resend_email_verification"})
    ++ Needs({"signed_in"}, {"me", "logout"})
    ++ Active({"request_link_email_otp", "verify_link_email_otp"})
BusinessPluginRoutes ==
    Active({"get_business_capabilities", "list_available_plugins", "enable_business_plugin",
            "disable_business_plugin"})
AdminBusinesses ==
    Needs({"business.review"}, {"list_businesses_for_review", "export_businesses",
                                "get_business_counts", "get_business_for_review",
                                "approve_business", "reject_business",
                                "review_business_document",
                                "download_business_document_for_review"})
    ++ Needs({"business.create_any"}, {"create_business_for_owner"})
    ++ Needs({"business.escalate"}, {"escalate_business"})
BusinessDocuments ==
    Active({"add_business_document", "list_business_documents",
            "download_business_document", "delete_business_document"})
BusinessImages ==
    Active({"add_business_image", "list_business_images", "delete_business_image"})
Businesses ==
    Active({"create_business", "list_business_categories", "get_business",
            "update_business", "resubmit_business", "delete_business",
            "list_my_businesses"})
    ++ Needs({"business.search"}, {"search_businesses"})
AdminCategories ==
    Needs({"category.view_pending"}, {"list_pending_categories"})
    ++ Needs({"category.approve"}, {"approve_category"})
    ++ Needs({"category.reject"}, {"reject_category"})
Categories ==
    Active({"list_categories"})
    ++ Needs({"category.create"}, {"create_category"})
    ++ Needs({"category.suggest"}, {"suggest_category"})
    ++ Needs({"category.update"}, {"update_category"})
    ++ Needs({"category.delete"}, {"delete_category"})
Chats ==
    Active({"list_conversations", "send_message", "list_messages", "mark_read",
            "get_presence"})
Collections ==
    Active({"create_collection", "list_collections", "get_collection", "update_collection",
            "delete_collection", "list_collection_posts", "add_post_to_collection",
            "remove_post_from_collection"})
AdminCommunities ==
    Needs({"community.view_pending"}, {"list_pending_communities"})
    ++ Needs({"community.approve"}, {"approve_community"})
    ++ Needs({"community.reject"}, {"reject_community"})
CommunityMessages == Active({"send_message", "list_messages", "delete_message"})
CommunityPollRoutes ==
    Active({"create_poll", "list_polls", "get_poll", "vote_in_poll", "remove_poll_vote"})
CommunityRoutes ==
    Active({"create_community", "search_communities", "list_my_communities",
            "list_recommended_communities", "get_community", "update_community",
            "join_community", "leave_community", "mark_community_read", "list_members",
            "list_join_requests", "approve_join_request", "reject_join_request",
            "remove_member", "list_blocked_members", "block_member", "unblock_member",
            "list_community_posts", "remove_community_post"})
CommunityTimeline == Active({"get_timeline"})
DealInvitations ==
    Needs({"deal_acceptor"}, {"list_my_deal_invitations"})
    ++ Active({"accept_deal", "decline_deal"})
DeliverySettings ==
    Needs({"delivery_role"}, {"get_my_delivery_settings", "save_my_delivery_settings"})
    ++ Active({"list_deal_delivery_options"})
ExploreDeals == Active({"explore_deals"})
DealImages ==
    Active({"add_deal_image", "set_deal_thumbnail", "delete_deal_image",
            "get_deal_image_file"})
DealItems == Active({"add_deal_item", "update_deal_item", "delete_deal_item"})
DealOrders == Active({"place_deal_order"})
DealParticipants ==
    Active({"list_my_joined_deals", "join_deal", "leave_deal", "list_deal_participants"})
Deals ==
    Needs({"deal.create"}, {"create_deal"})
    ++ Active({"get_deal", "update_deal", "delete_deal", "submit_deal",
               "refresh_deal_invitations", "cancel_deal", "list_my_deals"})
CustomerDeliveries ==
    Active({"list_eligible_routes", "get_my_order_delivery",
            "re_request_my_order_delivery"})
DeliveryRequestRoutes ==
    Needs({"delivery_role"}, {"list_my_delivery_requests", "accept_delivery_request",
                              "reject_delivery_request", "list_route_stops"})
DeliveryRoutes ==
    Needs({"delivery_role"}, {"list_my_routes", "create_my_route", "get_my_route",
                              "update_my_route", "delete_my_route"})
RouteTracking == Needs({"delivery_role"}, {"update_route_location"})
Vehicles ==
    Needs({"delivery_role"}, {"list_my_vehicles", "create_my_vehicle", "get_my_vehicle",
                              "update_my_vehicle", "delete_my_vehicle"})
EventImages ==
    Needs({"events.create", "events.update_any"},
        {"add_event_images", "delete_event_image"})
EventRoutes ==
    Needs({"events.create"}, {"create_event"})
    ++ Needs({"events.view"}, {"list_events", "get_featured_event", "get_event",
                               "list_related_events"})
    ++ Needs({"events.create", "events.update_any"},
        {"update_event", "cancel_event"})
    ++ Needs({"events.feature"}, {"feature_event", "unfeature_event"})
    ++ Needs({"events.create", "events.delete_any"},
        {"delete_event"})
ExploreBusinesses == Active({"explore_businesses"})
Geography ==
    Anybody({"list_states", "list_districts_with_default_state", "list_districts",
             "list_taluks", "list_villages"})
    ++ Active({"reverse_geocode", "reverse_geocode_address", "search_addresses"})
Health == Anybody({"liveness", "readiness"})
LostFoundImages ==
    Needs({"lost_found.create", "lost_found.update_any"},
        {"add_report_images", "delete_report_image"})
LostFoundReports ==
    Needs({"lost_found.create"}, {"create_report"})
    ++ Needs({"lost_found.view"}, {"list_reports", "get_report", "respond_to_report"})
    ++ Needs({"lost_found.create", "lost_found.update_any"},
        {"update_report", "resolve_report"})
    ++ Needs({"lost_found.create", "lost_found.delete_any"},
        {"delete_report"})
AdminNativePlaces ==
    Needs({"native_place.manage"}, {"update_native_place"})
    ++ Needs({"super_admin"}, {"create_native_admin", "remove_native_admin"})
AdminSuggestions ==
    Needs({"native_place.view_pending"},
        {"list_pending_suggestions"})
    ++ Needs({"native_place.approve"}, {"approve_suggestion"})
    ++ Needs({"native_place.reject"}, {"reject_suggestion"})
MyNativePlaces ==
    Active({"list_my_native_places", "list_my_native_place_boundaries",
            "set_my_primary_native_place", "set_my_secondary_native_place",
            "remove_my_secondary_native_place"})
NativePlaces ==
    Needs({"guest"}, {"search_native_places"})
    ++ Anybody({"get_native_place_for_current_location", "get_native_place_boundary"})
    ++ Needs({"native_place.suggest"}, {"suggest_native_place"})
Devices == Active({"get_web_push_config", "register_device", "remove_device"})
Notifications ==
    Active({"list_notifications", "get_unread_count", "mark_notification_read",
            "mark_all_notifications_read"})
BusinessOrders ==
    Active({"list_business_orders", "get_business_order", "update_business_order_status",
            "cancel_business_order"})
CartRoutes ==
    Active({"get_my_cart", "add_cart_item", "update_cart_item", "remove_cart_item",
            "remove_cart_deal", "checkout_cart"})
Orders ==
    Active({"list_my_orders", "get_my_order", "cancel_my_order", "place_direct_order"})
SellerOrders ==
    Active({"list_my_deal_orders", "get_my_deal_order", "update_my_deal_order_status",
            "cancel_my_deal_order"})
PublishedPages == Needs(OrGuest("page.read"), {"get_published_page"})
AdminPages ==
    Needs({"page.create"}, {"create_page"})
    ++ Needs({"page.view"}, {"list_pages", "edit_page", "get_page_by_slug"})
    ++ Needs({"page.update"}, {"update_page", "update_page_image"})
    ++ Needs({"page.delete"}, {"delete_page"})
AdminPermissions ==
    Needs({"permission.create"}, {"create_permission"})
    ++ Needs({"permission.view"}, {"list_permissions", "edit_permission"})
    ++ Needs({"permission.update"}, {"update_permission"})
    ++ Needs({"permission.delete"}, {"delete_permission"})
AdminPlugins ==
    Needs({"plugin.view"}, {"list_plugins", "get_load_report", "get_plugin"})
    ++ Needs({"plugin.manage"}, {"import_plugin_package", "enable_plugin", "disable_plugin",
                                 "upgrade_plugin", "uninstall_plugin"})
AdminPopularPlaces ==
    Needs({"popular_place.manage"}, {"list_popular_places", "get_popular_place",
                                     "create_popular_place", "update_popular_place",
                                     "delete_popular_place"})
PopularPlaceRoutes == Needs({"guest"}, {"list_popular_places"})
AdminPosts ==
    Needs({"post.view_any"}, {"list_posts_as_admin", "get_post_as_admin"})
    ++ Needs({"post.create_any"}, {"create_post_as_admin", "update_own_post_as_admin"})
    ++ Needs({"post.block"}, {"block_post", "unblock_post"})
PostComments ==
    Needs({"post.comment"}, {"create_comment"})
    ++ Needs(OrGuest("post.view"), {"list_comments"})
    ++ Active({"delete_comment"})
PostReactions == Needs({"post.like"}, {"react_to_post", "remove_post_reaction"})
Posts ==
    Needs({"post.create"}, {"create_post"})
    ++ Needs(OrGuest("post.view"), {"list_posts", "get_post", "list_post_media"})
    ++ Active({"update_post", "delete_post", "delete_post_media"})
SavedPosts == Needs({"post.save"}, {"save_post", "unsave_post", "list_saved_posts"})
PostShares == Needs({"post.share"}, {"share_post"})
Realtime == Active({"realtime_socket"})
AdminUpgradeRequests ==
    Needs({"role_upgrade_request.view_any", "role_upgrade_request.review_promoter"},
        {"list_pending_role_upgrade_requests", "get_role_upgrade_request"})
    ++ Needs({"role_upgrade_request.approve", "role_upgrade_request.review_promoter"},
        {"approve_role_upgrade_request"})
    ++ Needs({"role_upgrade_request.reject", "role_upgrade_request.review_promoter"},
        {"reject_role_upgrade_request"})
UpgradeRequests ==
    Needs({"role_upgrade_request.create"},
        {"submit_role_upgrade_request", "list_requestable_roles",
         "add_role_upgrade_request_document"})
    ++ Needs({"role_upgrade_request.view_own"},
        {"list_own_role_upgrade_requests", "get_own_role_upgrade_request"})
    ++ Active({"download_role_upgrade_request_document"})
AdminRoleRoutes ==
    Needs({"role.create"}, {"create_role"})
    ++ Needs({"role.view"}, {"list_roles", "edit_role"})
    ++ Needs({"role.update"}, {"update_role", "set_role_permissions"})
    ++ Needs({"role.delete"}, {"delete_role"})
AdminSettings ==
    Needs({"setting.create"}, {"create_setting"})
    ++ Needs({"setting.view"}, {"list_settings", "edit_setting", "get_setting_by_key"})
    ++ Needs({"setting.update"}, {"update_setting"})
    ++ Needs({"setting.delete"}, {"delete_setting"})
Updates == Needs({"post.view"}, {"list_updates"})
UserSettings ==
    Active({"get_my_settings", "update_my_settings", "get_my_ai_settings",
            "update_my_ai_settings", "get_my_notification_settings",
            "update_my_notification_settings", "get_my_privacy_settings",
            "update_my_privacy_settings", "get_my_content_settings",
            "update_my_content_settings"})
AddressRoutes ==
    Active({"list_my_addresses", "get_address_map_center", "create_my_address",
            "update_my_address", "set_my_default_address", "delete_my_address"})
Blocks == Active({"block_user", "unblock_user", "list_blocked_users"})
FollowRoutes ==
    Active({"follow_user", "unfollow_user", "get_follow_status", "accept_follow_request",
            "decline_follow_request", "list_followers", "list_following",
            "get_follow_counts", "list_incoming_follow_requests"})
UserRoutes ==
    Anybody({"register_user"})
    ++ Active({"list_users", "update_me", "update_me_image", "get_user_profile"})
WebsocketDocs == Anybody({"websocket_docs"})
----------------------------------------------------------------------------
(* plugins/product/ecommerce *)
ExploreProducts == Active({"explore_products", "explore_categories", "get_explore_product"})
Inventory ==
    Needs({"plugin.ecommerce.inventory.view"},
        {"list_stock", "list_low_stock", "list_business_stock_movements", "get_stock",
         "list_stock_movements"})
    ++ Needs({"plugin.ecommerce.inventory.manage"},
        {"adjust_stock", "update_stock_threshold"})
Products ==
    Needs({"plugin.ecommerce.products.view"},
        {"list_products", "get_product", "list_product_images", "list_product_categories"})
    ++ Needs({"plugin.ecommerce.products.manage"},
        {"create_product", "update_product", "activate_product", "deactivate_product",
         "upload_product_image", "remove_product_image", "create_product_category"})
PluginSettings ==
    Needs({"plugin.ecommerce.settings.view"},
        {"get_settings"})
    ++ Needs({"plugin.ecommerce.settings.manage"},
        {"update_settings"})

----------------------------------------------------------------------------
(* core/permissions.py, scripts/seed.py *)

BaseRole == "individual-user"
VerifiedAccountRoles == {"promoter", "club-community", "business-service-provider"}
AdminRoles == {"super-admin", "native-admin"}
BuiltIn == AdminRoles \cup {BaseRole} \cup VerifiedAccountRoles
KnownRoles   == BuiltIn \cup {"moderator"}  \* one that an administrator made

MobileAccountPermissions ==
    {"post.view", "page.read", "post.create", "post.like", "post.comment", "post.share", "post.save",
     "lost_found.view", "lost_found.create", "events.view", "events.create", "deal.create",
     "category.suggest", "native_place.suggest",
     "role_upgrade_request.create", "role_upgrade_request.view_own"}
NativeAdminPermissions ==
    {"post.view", "post.create_any", "post.view_any", "post.block", "page.read", "user.view",
     "lost_found.view", "events.view", "events.update_any", "events.delete_any", "events.feature",
     "role_upgrade_request.review_promoter",
     "community.view_pending", "community.approve", "community.reject",
     "business.review", "business.escalate", "business.create_any"}

\* What a super administrator's role grants does not matter: see Tokens.
RoleDefinitions ==
    [r \in KnownRoles |->
        CASE r = "native-admin" -> NativeAdminPermissions
          [] r = "promoter" -> MobileAccountPermissions \cup {"business.search"}
          [] r = "club-community" -> MobileAccountPermissions \cup {"community.create"}
          [] r = "business-service-provider" -> MobileAccountPermissions \cup {"business.create"}
          [] r = BaseRole -> MobileAccountPermissions
          [] OTHER -> {}]

\* The plugin's seeder grants what plugin.toml declares.
PluginPermissions ==
    UNION UNION {{t[h] : h \in DOMAIN t} : t \in {Inventory, Products, PluginSettings}}
DefaultRoles == {"business-service-provider", "native-admin"}
Seeded == [r \in KnownRoles |-> RoleDefinitions[r]
                           \cup (IF plugin /\ r \in DefaultRoles THEN PluginPermissions ELSE {})]

----------------------------------------------------------------------------
(* The account, its roles and what they grant *)

TypeOK ==
    /\ status \in {"active", "inactive"} /\ village \in BOOLEAN /\ plugin \in BOOLEAN
    /\ held \subseteq KnownRoles /\ verified \subseteq held \cap VerifiedAccountRoles
    /\ DOMAIN grants = KnownRoles

Init ==
    /\ status = "active" /\ held = {BaseRole} /\ verified = {} /\ village = FALSE
    /\ grants = RoleDefinitions /\ plugin = FALSE

\* AccountRoleService.select: administrators do not.
Select(r) ==
    /\ held \cap AdminRoles = {} /\ held \cap VerifiedAccountRoles # {r} \ {BaseRole}
    /\ held' = {BaseRole, r} /\ verified' = verified \cap {r}
    /\ UNCHANGED <<status, village, grants, plugin>>

\* RoleUpgradeRequestService: an approved role replaces the base role.
Approve(r) ==
    /\ r \in (held \cap VerifiedAccountRoles) \ verified
    /\ verified' = verified \cup {r} /\ held' = held \ {BaseRole}
    /\ UNCHANGED <<status, village, grants, plugin>>
Reject(r) ==
    /\ r \in (held \cap VerifiedAccountRoles) \ verified
    /\ held' = held \ {r}
    /\ UNCHANGED <<status, verified, village, grants, plugin>>

\* UserService.assign_roles; roles kept keep their verification.
Assign(roles) ==
    /\ held' = roles /\ verified' = verified \cap roles
    /\ UNCHANGED <<status, village, grants, plugin>>

\* NativeAdminService: the village's administrator is a new account with the role,
\* and loses it with the village.
NameAdmin ==
    /\ ~village /\ village' = TRUE
    /\ held' = {"native-admin"} /\ verified' = {} /\ status' = "active"
    /\ UNCHANGED <<grants, plugin>>
RemoveAdmin ==
    /\ village /\ village' = FALSE /\ held' = held \ {"native-admin"}
    /\ UNCHANGED <<status, verified, grants, plugin>>

\* UserService.update
SetStatus ==
    /\ status' = IF status = "active" THEN "inactive" ELSE "active"
    /\ UNCHANGED <<held, verified, village, grants, plugin>>

\* RoleService.set_permissions
Grant(r, p) ==
    /\ grants = Seeded
    /\ grants' = [grants EXCEPT ![r] = @ \cup {p}]
    /\ UNCHANGED <<status, held, verified, village, plugin>>

ApplyPlugin ==
    /\ ~plugin /\ plugin' = TRUE
    /\ grants' = [r \in KnownRoles |-> grants[r] \cup (IF r \in DefaultRoles THEN PluginPermissions ELSE {})]
    /\ UNCHANGED <<status, held, verified, village>>

Next ==
    \/ \E r \in {BaseRole} \cup VerifiedAccountRoles : Select(r)
    \/ \E r \in VerifiedAccountRoles : Approve(r) \/ Reject(r)
    \/ \E roles \in SUBSET KnownRoles : Cardinality(roles) <= MaxRoles /\ Assign(roles)
    \/ NameAdmin \/ RemoveAdmin \/ SetStatus \/ ApplyPlugin
    \/ \E r \in KnownRoles \ {"super-admin"}, p \in Granted : Grant(r, p)

Spec == Init /\ [][Next]_vars

----------------------------------------------------------------------------
(* Guards *)

\* User.approved_roles
ApprovedRoles(roles, proved) == {r \in roles : r \in VerifiedAccountRoles => r \in proved}

SuperAdmin(roles) == "super-admin" \in roles
Permissions(roles) == UNION {grants[r] : r \in roles}

\* has_permission, has_any_permission
May(roles, oneOf) == SuperAdmin(roles) \/ oneOf \cap Permissions(roles) # {}

\* The settings name the promoter for both.
AcceptingRoles == {"promoter"}
DeliveryRoles  == {"promoter"}
Standing(roles, proved) ==
    {"anybody", "guest", "signed_in", "active"}
    \cup (IF SuperAdmin(roles) THEN {"super_admin"} ELSE {})
    \cup (IF roles \cap proved \cap AcceptingRoles # {} THEN {"deal_acceptor"} ELSE {})
    \cup (IF roles \cap proved \cap DeliveryRoles # {} THEN {"delivery_role"} ELSE {})
ByStanding == {"anybody", "guest", "signed_in", "active", "super_admin", "deal_acceptor", "delivery_role"}

\* The dependency of the handler h of the file t, for a caller with a token.
Passes(t, h, roles, proved) ==
    IF status = "active"
    THEN \/ t[h] \cap Standing(roles, proved) # {}
         \/ t[h] \ ByStanding # {} /\ May(ApprovedRoles(roles, proved), t[h] \ ByStanding)
    ELSE t[h] \cap {"anybody", "signed_in"} # {}

\* BusinessPluginService.authorize_access, for a business of the caller's.
ManagesPlugin(roles) == May(roles, {"business.view_any", "business.update_any", "business.create"})
ScopedRoutes == {Inventory, Products, PluginSettings}

Calls(t, h, roles, proved) ==
    /\ Passes(t, h, roles, proved)
    /\ t \in ScopedRoutes => ManagesPlugin(ApprovedRoles(roles, proved))

----------------------------------------------------------------------------
(* Services that decide again *)

\* The override permissions of EventService, LostFoundService, PostService,
\* PostCommentService and the business services: their holder may do to what is
\* another's what its owner may.
Overrides ==
    {<<EventRoutes, "update_event", "events.update_any">>,
     <<EventRoutes, "cancel_event", "events.update_any">>,
     <<EventRoutes, "delete_event", "events.delete_any">>,
     <<EventImages, "add_event_images", "events.update_any">>,
     <<EventImages, "delete_event_image", "events.update_any">>,
     <<LostFoundReports, "update_report", "lost_found.update_any">>,
     <<LostFoundReports, "resolve_report", "lost_found.update_any">>,
     <<LostFoundReports, "delete_report", "lost_found.delete_any">>,
     <<LostFoundImages, "add_report_images", "lost_found.update_any">>,
     <<LostFoundImages, "delete_report_image", "lost_found.update_any">>,
     <<Posts, "delete_post", "post.delete_any">>, <<PostComments, "delete_comment", "comment.delete_any">>,
     <<Businesses, "update_business", "business.update_any">>,
     <<Businesses, "delete_business", "business.delete_any">>,
     <<BusinessImages, "add_business_image", "business.update_any">>,
     <<BusinessDocuments, "add_business_document", "business.update_any">>,
     <<BusinessPluginRoutes, "enable_business_plugin", "business.update_any">>,
     <<BusinessOrders, "update_business_order_status", "business.update_any">>,
     <<Deals, "get_deal", "deal.view_any">>}

\* What users submit, who lists it and who decides.
Submitted == {"promoter", "other_role", "category", "business", "community"}
Lists(kind) ==
    CASE kind \in {"promoter", "other_role"} -> <<AdminUpgradeRequests, "list_pending_role_upgrade_requests">>
      [] kind = "category"  -> <<AdminCategories, "list_pending_categories">>
      [] kind = "business"  -> <<AdminBusinesses, "list_businesses_for_review">>
      [] kind = "community" -> <<AdminCommunities, "list_pending_communities">>
Approves(kind) ==
    CASE kind \in {"promoter", "other_role"} -> <<AdminUpgradeRequests, "approve_role_upgrade_request">>
      [] kind = "category"  -> <<AdminCategories, "approve_category">>
      [] kind = "business"  -> <<AdminBusinesses, "approve_business">>
      [] kind = "community" -> <<AdminCommunities, "approve_community">>

\* RoleUpgradeRequestService._can_review
CanReview(kind, permission) ==
    \/ May(ApprovedRoles(held, verified), {permission})
    \/ kind = "promoter" /\ May(ApprovedRoles(held, verified), {"role_upgrade_request.review_promoter"})

\* BusinessVerificationService._jurisdiction: a native administrator's is his
\* village; others with the permission have no limits.
InJurisdiction ==
    LET roles == ApprovedRoles(held, verified) IN
    SuperAdmin(roles) \/ "native-admin" \notin roles \/ village

CanUse(route) == Calls(route[1], route[2], held, verified)
CanSee(kind) ==
    /\ CanUse(Lists(kind))
    /\ kind \in {"promoter", "other_role"} => CanReview(kind, "role_upgrade_request.view_any")
    /\ kind = "business" => InJurisdiction
CanApprove(kind) ==
    /\ CanUse(Approves(kind))
    /\ kind \in {"promoter", "other_role"} => CanReview(kind, "role_upgrade_request.approve")
    /\ kind = "business" => InJurisdiction

\* NotificationService.notify_..., UserRepository.list_active_with_permission: by
\* all roles, verified or not.
ReviewerPermissions(kind) ==
    CASE kind = "promoter"   -> {"role_upgrade_request.approve", "role_upgrade_request.review_promoter"}
      [] kind = "other_role" -> {"role_upgrade_request.approve"}
      [] kind = "category"   -> {"category.approve"}
      [] kind = "business"   -> {"business.review"}
      [] kind = "community"  -> {"community.approve"}
Listed(kind) == status = "active" /\ May(held, ReviewerPermissions(kind))
Told(kind) ==
    /\ Listed(kind)
    /\ kind = "business" => SuperAdmin(ApprovedRoles(held, verified)) \/ village

----------------------------------------------------------------------------
HostRoutes ==
    {AadhaarDocuments, AccountRoleRoutes, Assistant, GoogleRoutes, PhoneRoutes, AuthRoutes,
     BusinessPluginRoutes, BusinessDocuments, BusinessImages, Businesses, Categories, Chats, Collections,
     CommunityMessages, CommunityPollRoutes, CommunityRoutes, CommunityTimeline, DealInvitations,
     DeliverySettings, ExploreDeals, DealImages, DealItems, DealOrders, DealParticipants, Deals,
     CustomerDeliveries, DeliveryRequestRoutes, DeliveryRoutes, RouteTracking, Vehicles, EventImages,
     EventRoutes, ExploreBusinesses, Geography, Health, LostFoundImages, LostFoundReports, MyNativePlaces,
     NativePlaces, Devices, Notifications, BusinessOrders, CartRoutes, Orders, SellerOrders,
     PublishedPages, PopularPlaceRoutes, PostComments, PostReactions, Posts, SavedPosts, PostShares,
     Realtime, UpgradeRequests, Updates, UserSettings, AddressRoutes, Blocks, FollowRoutes, UserRoutes,
     WebsocketDocs}
AdminRoutes ==
    {AdminGeography, AdminUsers, AdminBusinesses, AdminCategories, AdminCommunities, AdminNativePlaces,
     AdminSuggestions, AdminPages, AdminPermissions, AdminPlugins, AdminPopularPlaces, AdminPosts,
     AdminUpgradeRequests, AdminRoleRoutes, AdminSettings}
AllRoutes == HostRoutes \cup AdminRoutes \cup ScopedRoutes \cup {ExploreProducts}

AsSeeded == grants = Seeded
Reach(routes, roles, proved) ==
    {c \in UNION {{t} \X DOMAIN t : t \in routes} : Calls(c[1], c[2], roles, proved)}

\* docs/roles-and-permissions.md: until an admin approves it, a selected role
\* opens nothing that the base role does not.
PendingIsIndividual ==
    held \cap AdminRoles = {} /\ "moderator" \notin held /\ BaseRole \in held /\ verified = {} =>
        Reach(AllRoutes, held, verified) = Reach(AllRoutes, {BaseRole}, {})

\* Nothing under /admin is open to accounts without a role for it.
AdminRoutesClosed ==
    held \subseteq {BaseRole} \cup VerifiedAccountRoles /\ AsSeeded => Reach(AdminRoutes, held, verified) = {}

\* Who has an override permission, and it alone, passes the guard of the handler
\* behind which it is asked for.
OverridesReach ==
    \A o \in Overrides :
        status = "active" /\ May(ApprovedRoles(held, verified), {o[3]}) => CanUse(<<o[1], o[2]>>)

\* Who is told of a submission may approve it, unless told for a role that is not
\* verified; and as long as the roles grant what is seeded, sees it in his list,
\* and who may approve it is told, or is a native administrator of elsewhere.
ToldMayApprove ==
    \A kind \in Submitted : Told(kind) =>
        \/ CanApprove(kind)
        \/ \E r \in held \ ApprovedRoles(held, verified) : grants[r] \cap ReviewerPermissions(kind) # {}
ToldWhatTheySee ==
    AsSeeded => \A kind \in Submitted : Told(kind) = CanApprove(kind) /\ Told(kind) = CanSee(kind)

\* Approval takes the base role away, but nothing the account could do.
ApprovalKeepsAccess ==
    \A r \in VerifiedAccountRoles :
        Approve(r) /\ AsSeeded =>
            Reach(AllRoutes, held, verified) \subseteq Reach(AllRoutes, held', verified')
=============================================================================
