------------------------------ MODULE ApiPeople ------------------------------
(* The messages and enums the front end exchanges with a server about
   accounts, users, permissions, messages and federation, and the two
   messages of the protobuf library.
   A message is the sequence of its fields in the order the codec writes them; an
   enum is the record of its names and numbers (without UNRECOGNIZED, -1). *)
EXTENDS Protobuf

(* authentication.ts *)

CreateAccountRequest == <<
    Plain(1, "username", Str), Plain(2, "password", Str), Opt(3, "email", Msg("ContactMethod")),
    Opt(4, "phone", Msg("ContactMethod")), Opt(5, "expiresAt", Time), Opt(6, "deviceName", Str) >>

LoginRequest == <<
    Plain(1, "username", Str), Plain(2, "password", Str), Opt(3, "expiresAt", Time),
    Opt(4, "deviceName", Str), Opt(5, "userId", Str) >>

CreateThirdPartyRefreshTokenRequest == <<
    Opt(2, "expiresAt", Time), Plain(3, "userId", Str), Plain(4, "deviceName", Str) >>

RefreshTokenResponse == <<
    Opt(1, "refreshToken", Msg("ExpirableToken")), Opt(2, "accessToken", Msg("ExpirableToken")),
    Opt(3, "user", Msg("User")) >>

ExpirableToken == << Plain(1, "token", Str), Opt(2, "expiresAt", Time) >>

AccessTokenRequest == << Plain(1, "refreshToken", Str), Opt(2, "expiresAt", Time) >>

AccessTokenResponse == <<
    Opt(1, "refreshToken", Msg("ExpirableToken")), Opt(2, "accessToken", Msg("ExpirableToken")) >>

ResetPasswordRequest == << Opt(1, "userId", Str), Plain(3, "password", Str) >>

UserRefreshTokensResponse == << Rep(1, "refreshTokens", Msg("RefreshTokenMetadata")) >>

RefreshTokenMetadata == <<
    Plain(1, "id", Uint64), Opt(2, "expiresAt", Time), Opt(3, "deviceName", Str),
    Plain(4, "isThisDevice", Bool), Plain(5, "thirdParty", Bool) >>

(* users.ts *)

ContactConsentState == [ CONTACT_CONSENT_REVOKED |-> 0, CONTACT_CONSENT_GRANTED |-> 1 ]

UserListingType == [
    EVERYONE |-> 0, FOLLOWING |-> 1, FRIENDS |-> 2, FOLLOWERS |-> 3, FOLLOW_REQUESTS |-> 4,
    USERS_TEXT_SEARCH |-> 5, FOLLOWERS_TEXT_SEARCH |-> 6, FOLLOWING_TEXT_SEARCH |-> 7,
    FRIENDS_TEXT_SEARCH |-> 8, FOLLOW_REQUESTS_TEXT_SEARCH |-> 9, ADMINS |-> 10 ]

User == <<
    Plain(1, "id", Str), Plain(2, "username", Str), Plain(3, "realName", Str),
    Opt(4, "email", Msg("ContactMethod")), Opt(5, "phone", Msg("ContactMethod")),
    Packed(6, "permissions", Enum("Permission")), Opt(7, "avatar", Msg("MediaReference")),
    Plain(8, "bio", Str), Opt(10, "mediaStorageLimitBytes", Uint64),
    Plain(11, "mediaStorageBytesUsed", Uint64), Plain(20, "visibility", Enum("Visibility")),
    Plain(21, "moderation", Enum("Moderation")),
    Plain(30, "defaultFollowModeration", Enum("Moderation")), Opt(31, "followerCount", Int32),
    Opt(32, "followingCount", Int32), Opt(33, "friendCount", Int32),
    Opt(34, "groupCount", Int32), Opt(35, "postCount", Int32), Opt(36, "responseCount", Int32),
    Opt(37, "eventCount", Int32), Opt(38, "occasionCount", Int32),
    Opt(50, "currentUserFollow", Msg("Follow")),
    Opt(51, "targetCurrentUserFollow", Msg("Follow")),
    Opt(52, "currentGroupMembership", Msg("Membership")),
    Rep(81, "federatedProfiles", Msg("FederatedAccount")),
    Rep(82, "syncDestinations", Msg("SyncDestination")),
    Rep(83, "syncSources", Msg("SyncSource")), Rep(84, "aiModels", Msg("AIModel")),
    Rep(85, "marketSubscriptions", Msg("MarketSubscription")), Opt(100, "createdAt", Time),
    Opt(101, "updatedAt", Time) >>

Follow == <<
    Plain(1, "userId", Str), Plain(2, "targetUserId", Str),
    Plain(3, "targetUserModeration", Enum("Moderation")), Opt(4, "createdAt", Time),
    Opt(5, "updatedAt", Time) >>

Membership == <<
    Plain(1, "userId", Str), Plain(2, "groupId", Str),
    Packed(3, "permissions", Enum("Permission")),
    Plain(4, "groupModeration", Enum("Moderation")),
    Plain(5, "userModeration", Enum("Moderation")), Opt(6, "createdAt", Time),
    Opt(7, "updatedAt", Time) >>

ContactMethod == <<
    Opt(1, "value", Str), Plain(2, "visibility", Enum("Visibility")),
    Plain(3, "supportedByServer", Bool), Opt(4, "verifiedAt", Time),
    Opt(5, "verificationInProgress", Msg("ContactMethodVerification")),
    Plain(6, "consentState", Enum("ContactConsentState")),
    Rep(7, "consentHistory", Msg("ContactConsentChange")) >>

ContactConsentChange == <<
    Plain(1, "state", Enum("ContactConsentState")), Opt(2, "changedAt", Time) >>

ContactMethodVerification == <<
    Plain(1, "verificationCode", Str), Opt(2, "verificationStartedAt", Time),
    Plain(3, "attempts", Int32) >>

GetUsersRequest == <<
    Opt(1, "username", Str), Opt(2, "userId", Str), Opt(3, "searchText", Str),
    Opt(99, "page", Int32), Plain(100, "listingType", Enum("UserListingType")) >>

GetUsersResponse == << Rep(1, "users", Msg("User")), Plain(2, "hasNextPage", Bool) >>

VerifyContactMethodRequest == << Plain(1, "value", Str), Plain(2, "code", Str) >>

(* permissions.ts *)

Permission == [
    PERMISSION_UNKNOWN |-> 0, VIEW_USERS |-> 1, PUBLISH_USERS_LOCALLY |-> 2,
    PUBLISH_USERS_GLOBALLY |-> 3, MODERATE_USERS |-> 4, FOLLOW_USERS |-> 5,
    GRANT_BASIC_PERMISSIONS |-> 6, VIEW_GROUPS |-> 10, CREATE_GROUPS |-> 11,
    PUBLISH_GROUPS_LOCALLY |-> 12, PUBLISH_GROUPS_GLOBALLY |-> 13, MODERATE_GROUPS |-> 14,
    JOIN_GROUPS |-> 15, INVITE_GROUP_MEMBERS |-> 16, VIEW_POSTS |-> 20, CREATE_POSTS |-> 21,
    PUBLISH_POSTS_LOCALLY |-> 22, PUBLISH_POSTS_GLOBALLY |-> 23, MODERATE_POSTS |-> 24,
    REPLY_TO_POSTS |-> 25, EDIT_POST_TITLES_AND_LINKS |-> 26, VIEW_EVENTS |-> 30,
    CREATE_EVENTS |-> 31, PUBLISH_EVENTS_LOCALLY |-> 32, PUBLISH_EVENTS_GLOBALLY |-> 33,
    MODERATE_EVENTS |-> 34, RSVP_TO_EVENTS |-> 35, VIEW_MEDIA |-> 40, CREATE_MEDIA |-> 41,
    PUBLISH_MEDIA_LOCALLY |-> 42, PUBLISH_MEDIA_GLOBALLY |-> 43, MODERATE_MEDIA |-> 44,
    READ_PERSONAL_MESSAGES |-> 50, READ_ALL_SYSTEM_MESSAGES |-> 51, CREATE_AI_PROVIDERS |-> 60,
    SYNC_EVENTS_FROM_ICS |-> 700, SYNC_POSTS_FROM_RSS |-> 701, SYNC_POSTS_FROM_ATOM |-> 702,
    SYNC_EVENTS_TO_FACEBOOK |-> 1000, SYNC_POSTS_TO_FACEBOOK |-> 1001,
    SYNC_EVENTS_TO_INSTAGRAM |-> 1010, SYNC_POSTS_TO_INSTAGRAM |-> 1011,
    SYNC_EVENTS_TO_MASTODON |-> 1020, SYNC_POSTS_TO_MASTODON |-> 1021,
    SYNC_EVENTS_TO_BLUESKY |-> 1030, SYNC_POSTS_TO_BLUESKY |-> 1031,
    SYNC_EVENTS_TO_X_TWITTER |-> 1040, SYNC_POSTS_TO_X_TWITTER |-> 1041,
    SYNC_EVENTS_TO_THREADS |-> 1050, SYNC_POSTS_TO_THREADS |-> 1051, BUSINESS |-> 9998,
    RUN_BOTS |-> 9999, ADMIN |-> 10000, VIEW_PRIVATE_CONTACT_METHODS |-> 10001,
    EDIT_CLUSTER_SETTINGS |-> 10002, EDIT_SERVER_MEDIA_ALLOCATION |-> 10003,
    VIEW_SERVER_LOGS |-> 10004 ]

(* visibility_moderation.ts *)

Visibility == [
    VISIBILITY_UNKNOWN |-> 0, PRIVATE |-> 1, LIMITED |-> 2, SERVER_PUBLIC |-> 3,
    GLOBAL_PUBLIC |-> 4, DIRECT |-> 5, LICENSED |-> 6 ]

Moderation == [
    MODERATION_UNKNOWN |-> 0, UNMODERATED |-> 1, PENDING |-> 2, APPROVED |-> 3, REJECTED |-> 4 ]

(* messages.ts *)

MessageListingType == [
    PERSONAL_MESSAGES |-> 0, PERSONAL_MESSAGES_TEXT_SEARCH |-> 1, ALL_SYSTEM_MESSAGES |-> 10,
    ALL_SYSTEM_MESSAGES_TEXT_SEARCH |-> 11 ]

Message == <<
    Plain(1, "id", Str), Opt(2, "sender", Msg("Author")),
    Opt(3, "messagingGroup", Msg("MessagingGroup")), Plain(4, "bodyText", Str),
    Opt(5, "subject", Str), Opt(6, "emailMessageId", Str), Opt(7, "from", Str),
    Opt(8, "to", Str), Opt(9, "cc", Str), Opt(10, "bcc", Str),
    Opt(19, "currentUserRead", Msg("MessageRead")), Opt(20, "createdAt", Time) >>

MessageRead == <<
    Plain(1, "messageId", Str), Plain(2, "userId", Str), Opt(20, "readAt", Time) >>

MarkMessagesReadRequest == << Plain(1, "unread", Bool), Rep(2, "messageIds", Str) >>

MarkMessagesReadResponse == << Rep(1, "messageReads", Msg("MessageRead")) >>

SendMessageRequest == <<
    Rep(1, "toUserIds", Str), Opt(2, "subject", Str), Opt(3, "bodyText", Str) >>

MessagingGroup == <<
    Plain(1, "id", Str), Rep(2, "members", Msg("Author")), Opt(10, "createdAt", Time) >>

GetMessagesRequest == <<
    Plain(1, "listingType", Enum("MessageListingType")), Opt(2, "messageId", Str),
    Opt(3, "messageGroupId", Str), Opt(7, "searchText", Str), Opt(8, "sentBefore", Time),
    Opt(9, "fromEmail", Str) >>

GetMessagesResponse == << Rep(1, "messages", Msg("Message")) >>

PushSubscription == <<
    Plain(1, "id", Str), Plain(2, "endpoint", Str), Opt(20, "createdAt", Time) >>

RegisterPushSubscriptionRequest == <<
    Plain(1, "endpoint", Str), Plain(2, "p256dhKey", Str), Plain(3, "authKey", Str) >>

UnregisterPushSubscriptionRequest == << Plain(1, "endpoint", Str) >>

GetPushSubscriptionStatusRequest == << Plain(1, "endpoint", Str) >>

GetPushSubscriptionStatusResponse == << Plain(1, "registered", Bool) >>

(* federation.ts *)

GetServiceVersionResponse == << Plain(1, "version", Str) >>

FederationInfo == <<
    Rep(1, "servers", Msg("FederatedServer")),
    Opt(5, "unsecureLocalhostFederatedAuthEnabled", Bool),
    Opt(2, "facebookAuthConfig", Msg("FacebookAuthConfig")),
    Opt(3, "xTwitterAuthConfig", Msg("XTwitterAuthConfig")),
    Rep(4, "mastodonServers", Msg("MastodonServer")),
    Rep(6, "blueskyServers", Msg("BlueskyServer")) >>

FederatedServer == <<
    Plain(1, "host", Str), Opt(2, "configuredByDefault", Bool), Opt(3, "pinnedByDefault", Bool) >>

FederatedAccount == << Plain(1, "host", Str), Plain(2, "userId", Str) >>

FacebookAuthConfig == << Plain(1, "appId", Str), Plain(2, "appSecret", Str) >>

XTwitterAuthConfig == << Plain(1, "clientId", Str), Plain(2, "clientSecret", Str) >>

MastodonServer == <<
    Plain(1, "domain", Str), Plain(2, "appId", Str), Plain(3, "appSecret", Str),
    Opt(4, "configuredByDefault", Bool), Opt(5, "pinnedByDefault", Bool) >>

BlueskyServer == <<
    Plain(1, "host", Str), Opt(2, "configuredByDefault", Bool), Opt(3, "pinnedByDefault", Bool),
    Opt(4, "logoUrl", Str) >>

(* google/protobuf/empty.ts *)

Empty == <<  >>

(* google/protobuf/timestamp.ts *)

Timestamp == << Plain(1, "seconds", Int64), Plain(2, "nanos", Int32) >>

-------------------------------------------------------------------------------
PeopleMessages == [
    CreateAccountRequest |-> CreateAccountRequest, LoginRequest |-> LoginRequest,
    CreateThirdPartyRefreshTokenRequest |-> CreateThirdPartyRefreshTokenRequest,
    RefreshTokenResponse |-> RefreshTokenResponse, ExpirableToken |-> ExpirableToken,
    AccessTokenRequest |-> AccessTokenRequest, AccessTokenResponse |-> AccessTokenResponse,
    ResetPasswordRequest |-> ResetPasswordRequest,
    UserRefreshTokensResponse |-> UserRefreshTokensResponse,
    RefreshTokenMetadata |-> RefreshTokenMetadata,
    GetServiceVersionResponse |-> GetServiceVersionResponse, FederationInfo |-> FederationInfo,
    FederatedServer |-> FederatedServer, FederatedAccount |-> FederatedAccount,
    FacebookAuthConfig |-> FacebookAuthConfig, XTwitterAuthConfig |-> XTwitterAuthConfig,
    MastodonServer |-> MastodonServer, BlueskyServer |-> BlueskyServer, Empty |-> Empty,
    Timestamp |-> Timestamp, Message |-> Message, MessageRead |-> MessageRead,
    MarkMessagesReadRequest |-> MarkMessagesReadRequest,
    MarkMessagesReadResponse |-> MarkMessagesReadResponse,
    SendMessageRequest |-> SendMessageRequest, MessagingGroup |-> MessagingGroup,
    GetMessagesRequest |-> GetMessagesRequest, GetMessagesResponse |-> GetMessagesResponse,
    PushSubscription |-> PushSubscription,
    RegisterPushSubscriptionRequest |-> RegisterPushSubscriptionRequest,
    UnregisterPushSubscriptionRequest |-> UnregisterPushSubscriptionRequest,
    GetPushSubscriptionStatusRequest |-> GetPushSubscriptionStatusRequest,
    GetPushSubscriptionStatusResponse |-> GetPushSubscriptionStatusResponse, User |-> User,
    Follow |-> Follow, Membership |-> Membership, ContactMethod |-> ContactMethod,
    ContactConsentChange |-> ContactConsentChange,
    ContactMethodVerification |-> ContactMethodVerification,
    GetUsersRequest |-> GetUsersRequest, GetUsersResponse |-> GetUsersResponse,
    VerifyContactMethodRequest |-> VerifyContactMethodRequest ]

PeopleEnums == [
    MessageListingType |-> MessageListingType, Permission |-> Permission,
    ContactConsentState |-> ContactConsentState, UserListingType |-> UserListingType,
    Visibility |-> Visibility, Moderation |-> Moderation ]
===============================================================================
