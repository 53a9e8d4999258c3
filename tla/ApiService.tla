----------------------------- MODULE ApiService -----------------------------
(* The calls of the Rellm service as the front end makes them, the tables of all
   messages and enums, and the messages a call can carry. *)
EXTENDS ApiContent, ApiPeople, ApiServer, ApiMarket, TLC, SequencesExt

AccountRpcs == {
    Rpc("getServiceVersion", "Empty", "GetServiceVersionResponse"),
    Rpc("getServerConfiguration", "Empty", "ServerConfiguration"),
    Rpc("createAccount", "CreateAccountRequest", "RefreshTokenResponse"),
    Rpc("login", "LoginRequest", "RefreshTokenResponse"),
    Rpc("accessToken", "AccessTokenRequest", "AccessTokenResponse"),
    Rpc("getCurrentUser", "Empty", "User"),
    Rpc("resetPassword", "ResetPasswordRequest", "Empty")}

MediaRpcs == {
    Rpc("getMedia", "GetMediaRequest", "GetMediaResponse"),
    Rpc("deleteMedia", "Media", "Empty"), Rpc("updateMedia", "Media", "Media"),
    Rpc("deleteMediaSizes", "Media", "Media")}

UserRpcs == {
    Rpc("getUsers", "GetUsersRequest", "GetUsersResponse"), Rpc("updateUser", "User", "User"),
    Rpc("startContactMethodVerification", "ContactMethod", "ContactMethod"),
    Rpc("verifyContactMethod", "VerifyContactMethodRequest", "ContactMethod"),
    Rpc("deleteUser", "User", "Empty")}

MessageRpcs == {
    Rpc("sendMessage", "SendMessageRequest", "Message"),
    Rpc("getMessages", "GetMessagesRequest", "GetMessagesResponse"),
    Rpc("markMessagesRead", "MarkMessagesReadRequest", "MarkMessagesReadResponse"),
    Rpc("registerPushSubscription", "RegisterPushSubscriptionRequest", "PushSubscription"),
    Rpc("unregisterPushSubscription", "UnregisterPushSubscriptionRequest", "Empty"),
    Rpc("getPushSubscriptionStatus", "GetPushSubscriptionStatusRequest", "GetPushSubscriptionStatusResponse")}

FollowAndGroupRpcs == {
    Rpc("createFollow", "Follow", "Follow"), Rpc("updateFollow", "Follow", "Follow"),
    Rpc("deleteFollow", "Follow", "Empty"),
    Rpc("getGroups", "GetGroupsRequest", "GetGroupsResponse"),
    Rpc("createGroup", "Group", "Group"), Rpc("updateGroup", "Group", "Group"),
    Rpc("deleteGroup", "Group", "Empty"),
    Rpc("getMembers", "GetMembersRequest", "GetMembersResponse"),
    Rpc("createMembership", "Membership", "Membership"),
    Rpc("updateMembership", "Membership", "Membership"),
    Rpc("deleteMembership", "Membership", "Empty")}

PostRpcs == {
    Rpc("getPosts", "GetPostsRequest", "GetPostsResponse"), Rpc("createPost", "Post", "Post"),
    Rpc("updatePost", "Post", "Post"), Rpc("deletePost", "Post", "Post"),
    Rpc("starPost", "Post", "Post"), Rpc("unstarPost", "Post", "Post"),
    Rpc("syncPost", "SyncPostRequest", "Post"),
    Rpc("deletePostSyncDestination", "DeletePostSyncDestinationRequest", "Empty"),
    Rpc("getGroupPosts", "GetGroupPostsRequest", "GetGroupPostsResponse"),
    Rpc("createGroupPost", "GroupPost", "GroupPost"),
    Rpc("updateGroupPost", "GroupPost", "GroupPost"),
    Rpc("deleteGroupPost", "GroupPost", "Empty")}

EventRpcs == {
    Rpc("getEvents", "GetEventsRequest", "GetEventsResponse"),
    Rpc("createEvent", "Event", "Event"), Rpc("updateEvent", "Event", "Event"),
    Rpc("deleteEvent", "Event", "Event"), Rpc("updateEventDetails", "Event", "Event"),
    Rpc("createNewOccasions", "Event", "Event"), Rpc("updateOccasions", "Event", "Event"),
    Rpc("deleteRemovedOccasions", "Event", "Event")}

SyncRpcs == {
    Rpc("getSyncSources", "User", "GetSyncSourcesResponse"),
    Rpc("createSyncSource", "SyncSource", "SyncSource"),
    Rpc("updateSyncSource", "SyncSource", "SyncSource"),
    Rpc("deleteSyncSource", "DeleteSyncSourceRequest", "Empty"),
    Rpc("getSyncDestinations", "User", "GetSyncDestinationsResponse"),
    Rpc("createSyncDestination", "SyncDestination", "SyncDestination"),
    Rpc("updateSyncDestination", "SyncDestination", "SyncDestination"),
    Rpc("deleteSyncDestination", "DeleteSyncDestinationRequest", "Empty"),
    Rpc("syncOccasion", "SyncOccasionRequest", "Occasion"),
    Rpc("deleteOccasionSyncDestination", "DeleteOccasionSyncDestinationRequest", "Empty")}

AIRpcs == {
    Rpc("getAIProviders", "User", "GetAIProvidersResponse"),
    Rpc("createAIProvider", "AIProvider", "AIProvider"),
    Rpc("updateAIProvider", "AIProvider", "AIProvider"),
    Rpc("deleteAIProvider", "DeleteAIProviderRequest", "Empty"),
    Rpc("grantAIProvider", "GrantAIProviderRequest", "AIProviderGrant"),
    Rpc("revokeAIProvider", "RevokeAIProviderRequest", "Empty")}

MarketRpcs == {
    Rpc("getMarketProducts", "GetMarketProductsRequest", "GetMarketProductsResponse"),
    Rpc("createMarketProduct", "MarketProduct", "MarketProduct"),
    Rpc("updateMarketProduct", "MarketProduct", "MarketProduct"),
    Rpc("getMarketSubscriptions", "GetMarketSubscriptionsRequest", "GetMarketSubscriptionsResponse"),
    Rpc("makeMarketPurchase", "MakeMarketPurchaseRequest", "MakeMarketPurchaseResponse"),
    Rpc("cancelMarketSubscription", "MarketSubscription", "MarketSubscription"),
    Rpc("updateMarketSubscription", "MarketSubscription", "MarketSubscription"),
    Rpc("generateMedia", "GenerateMediaRequest", "Media")}

RsvpAndProfileRpcs == {
    Rpc("getRsvps", "GetRsvpsRequest", "Rsvps"), Rpc("upsertRsvp", "Rsvp", "Rsvp"),
    Rpc("deleteRsvp", "Rsvp", "Empty"),
    Rpc("federateProfile", "FederatedAccount", "FederatedAccount"),
    Rpc("defederateProfile", "FederatedAccount", "Empty")}

ServerRpcs == {
    Rpc("configureServer", "ServerConfiguration", "ServerConfiguration"),
    Rpc("getCustomCSS", "Empty", "CustomCSSConfiguration"),
    Rpc("configureCustomCSS", "CustomCSSConfiguration", "CustomCSSConfiguration"),
    Rpc("deleteLinkPreviewImages", "Empty", "Empty"),
    Rpc("deleteUnownedMedia", "Empty", "Empty"),
    Rpc("lockClusterResources", "LockClusterResourcesRequest", "LockClusterResourcesResponse"),
    Rpc("freeClusterResources", "FreeClusterResourcesRequest", "Empty"),
    Rpc("resetData", "Empty", "Empty"), Rpc("streamReplies", "Post", "Post")}

Rpcs ==
    UNION {AccountRpcs, MediaRpcs, UserRpcs, MessageRpcs, FollowAndGroupRpcs, PostRpcs,
           EventRpcs, SyncRpcs, AIRpcs, MarketRpcs, RsvpAndProfileRpcs, ServerRpcs}

ApiSchemas == ContentMessages @@ PeopleMessages @@ ServerMessages @@ MarketMessages
ApiEnums == ContentEnums @@ PeopleEnums @@ ServerEnums @@ MarketEnums

(* The messages that a call carries, in its request or its response, directly or
   inside another message. *)
Inside(t) == {f.of : f \in {g \in Range(ApiSchemas[t]) : g.k \in {"msg", "time"}}}
Reachable[n \in Nat] ==
    IF n = 0 THEN UNION {{r.request, r.response} : r \in Rpcs}
    ELSE Reachable[n - 1] \cup UNION {Inside(t) : t \in Reachable[n - 1]}
Carried == Reachable[6]

(* The properties of a message that its .proto declares as one choice. *)
ApiChoices == [
    SyncDestination |->
        {{"facebookPage", "instagramAccount", "mastodonAccount", "blueskyAccount",
        "xTwitterAccount", "threadsAccount"}},
    SyncSource |->
        {{"icsSubscriptionUrl", "stellarwpIcsSubscriptionUrl", "rssSubscriptionUrl",
        "atomSubscriptionUrl"}},
    Rsvp |-> {{"userAttendee", "anonymousAttendee"}},
    GenerateMediaRequest |-> {{"postId", "occasionId"}},
    AIProvider |->
        {{"geminiCredentials", "openaiCredentials", "anthropicCredentials",
        "digitaloceanCredentials"}},
    MarketProduct |->
        {{"mediaStorageSubscriptionDetails", "aiGrantSubscriptionDetails",
        "rellmHostingSubscriptionDetails", "permissionsAccessSubscriptionDetails"}},
    MarketPurchase |->
        {{"mediaStoragePurchaseDetails", "aiGrantPurchaseDetails",
        "rellmHostingPurchaseDetails", "permissionsAccessPurchaseDetails"}},
    MarketSubscription |->
        {{"mediaStorageSubscriptionDetails", "aiGrantSubscriptionDetails",
        "rellmHostingSubscriptionDetails", "permissionsAccessSubscriptionDetails"}},
    CustomHomePage |-> {{"tab", "postId"}},
    CustomNavigationTab |->
        {{"tab", "postId", "isProfile"}, {"emojiIcon", "iconMediaId"}} ]
=============================================================================
