------------------------------ MODULE ApiServer ------------------------------
(* The messages and enums the front end exchanges with a server about
   the server's configuration, its sync sources and destinations, and
   AI providers.
   A message is the sequence of its fields in the order the codec writes them; an
   enum is the record of its names and numbers (without UNRECOGNIZED, -1). *)
EXTENDS Protobuf

(* server_configuration.ts *)

ClusterResource == [
    CLUSTER_RESOURCE_BROWSER |-> 0, CLUSTER_RESOURCE_FFMPEG |-> 1,
    CLUSTER_RESOURCE_IMAGEMAGICK |-> 2 ]

AuthenticationFeature == [
    AUTHENTICATION_FEATURE_UNKNOWN |-> 0, CREATE_ACCOUNT |-> 1, LOGIN |-> 2 ]

DefaultPostsSort == [
    DEFAULT_POSTS_SORT_RECENT |-> 0, DEFAULT_POSTS_SORT_POPULAR |-> 1,
    DEFAULT_POSTS_SORT_FOLLOWING |-> 2 ]

CalendarDisplayMode == [
    CALENDAR_DISPLAY_WEEK |-> 0, CALENDAR_DISPLAY_MONTH |-> 1, CALENDAR_DISPLAY_DAY |-> 3 ]

PrivateUserStrategy == [
    ACCOUNT_IS_FROZEN |-> 0, LIMITED_CREEPINESS |-> 1, LET_ME_CREEP_ON_PPL |-> 2 ]

WebUserInterface == [
    FLUTTER_WEB |-> 0, HANDLEBARS_TEMPLATES |-> 1, REACT_TAMAGUI |-> 2, ELM_SPA |-> 3 ]

NavigationTabStyle == [
    NAVIGATION_TAB_ICON_ONLY |-> 0, NAVIGATION_TAB_TEXT_ONLY |-> 1,
    NAVIGATION_TAB_ICON_AND_TEXT_BELOW |-> 2, NAVIGATION_TAB_ICON_AND_TEXT_RIGHT |-> 3 ]

NavigationTab == [
    HOME_TAB |-> 0, EVENTS_TAB |-> 10, POSTS_TAB |-> 11, PEOPLE_TAB |-> 12, ABOUT_TAB |-> 15,
    MARKET_TAB |-> 16, MEDIA_TAB |-> 17, VIDEO_TAB |-> 18, AUDIO_TAB |-> 19, IMAGES_TAB |-> 20 ]

ContactProtocol == [ CONTACT_PROTOCOL_TEL |-> 0, CONTACT_PROTOCOL_MAILTO |-> 1 ]

ContactVerificationAPI == [
    CONTACT_VERIFICATION_API_TWILIO |-> 0, CONTACT_VERIFICATION_API_BIRD |-> 1,
    CONTACT_VERIFICATION_API_TELNYX |-> 2 ]

ServerConfiguration == <<
    Opt(1, "serverInfo", Msg("ServerInfo")), Opt(2, "federationInfo", Msg("FederationInfo")),
    Packed(10, "anonymousUserPermissions", Enum("Permission")),
    Packed(11, "defaultUserPermissions", Enum("Permission")),
    Packed(12, "basicUserPermissions", Enum("Permission")),
    Opt(19, "customTabs", Msg("CustomNavigationTabSet")),
    Opt(20, "peopleSettings", Msg("FeatureSettings")),
    Opt(21, "groupSettings", Msg("FeatureSettings")),
    Opt(22, "postSettings", Msg("PostSettings")),
    Opt(23, "eventSettings", Msg("EventSettings")),
    Opt(24, "mediaSettings", Msg("MediaSettings")),
    Opt(25, "marketSettings", Msg("MarketSettings")),
    Opt(90, "externalCdnConfig", Msg("ExternalCDNConfig")),
    Opt(91, "clusterResources", Msg("ClusterResources")),
    Plain(100, "privateUserStrategy", Enum("PrivateUserStrategy")),
    Packed(101, "authenticationFeatures", Enum("AuthenticationFeature")),
    Opt(110, "webPushConfig", Msg("WebPushConfig")),
    Packed(119, "supportedContactProtocols", Enum("ContactProtocol")),
    Packed(120, "preferredVerificationApis", Enum("ContactVerificationAPI")),
    Packed(121, "availableVerificationApis", Enum("ContactVerificationAPI")),
    Opt(122, "twilioConfig", Msg("TwilioConfig")), Opt(123, "birdConfig", Msg("BirdConfig")),
    Opt(124, "stripeConfig", Msg("StripeConfig")),
    Opt(125, "telnyxConfig", Msg("TelnyxConfig")),
    Opt(126, "stalwartConfig", Msg("StalwartConfig")),
    Opt(127, "customCssConfiguration", Msg("CustomCSSConfiguration")) >>

ClusterResources == <<
    Plain(1, "namespaceId", Str), Plain(2, "conductorHost", Str),
    Plain(3, "clusterSharedSecret", Str), Opt(4, "conductorState", Msg("ClusterConductorState")) >>

ClusterConductorState == <<
    Rep(1, "locks", Msg("ClusterResourceLock")), Rep(2, "limits", Msg("ClusterResourceLimit")) >>

ClusterResourceLock == <<
    Plain(1, "lockHolderNamespaceId", Str), Packed(2, "resources", Enum("ClusterResource")),
    Opt(20, "acquiredAt", Time) >>

ClusterResourceLimit == <<
    Packed(1, "resource", Enum("ClusterResource")), Packed(2, "limit", Uint32) >>

LockClusterResourcesRequest == <<
    Plain(1, "namespaceId", Str), Packed(2, "resources", Enum("ClusterResource")) >>

LockClusterResourcesResponse == << Plain(1, "granted", Bool), Opt(2, "holder", Str) >>

FreeClusterResourcesRequest == <<
    Plain(1, "namespaceId", Str), Packed(2, "resources", Enum("ClusterResource")) >>

ExternalCDNConfig == <<
    Plain(1, "frontendHost", Str), Plain(2, "backendHost", Str), Plain(3, "secureMedia", Bool),
    Opt(4, "mediaIpv4Allowlist", Str), Opt(5, "mediaIpv6Allowlist", Str),
    Plain(6, "cdnGrpc", Bool) >>

MediaSettings == <<
    Plain(1, "visible", Bool), Plain(2, "defaultModeration", Enum("Moderation")),
    Plain(3, "defaultVisibility", Enum("Visibility")),
    Plain(4, "defaultUserMediaAllocationBytes", Uint64),
    Plain(20, "blockCorsAnonymousMediaAccess", Bool),
    Plain(21, "licensedMediaVisibleGlobally", Bool), Plain(22, "hlsStreamingEnabled", Bool),
    Plain(5, "serverMediaAllocationBytes", Uint64), Plain(6, "serverMediaUsageBytes", Uint64),
    Opt(7, "serverMediaUsageCalculatedAt", Time),
    Plain(8, "serverObjectStorageUsageBytes", Uint64),
    Opt(9, "serverObjectStorageUsageCalculatedAt", Time),
    Plain(10, "disableLinkPreviewImages", Bool),
    Plain(11, "preferMetadataForLinkPreviewImages", Bool) >>

MarketSettings == << Plain(1, "enabled", Bool), Plain(2, "stripeConfigured", Bool) >>

FeatureSettings == <<
    Plain(1, "visible", Bool), Plain(2, "defaultModeration", Enum("Moderation")),
    Plain(3, "defaultVisibility", Enum("Visibility")), Opt(4, "aliasSingular", Str),
    Opt(5, "aliasPlural", Str) >>

PostSettings == <<
    Plain(1, "visible", Bool), Plain(2, "defaultModeration", Enum("Moderation")),
    Plain(3, "defaultVisibility", Enum("Visibility")), Opt(4, "aliasSingular", Str),
    Opt(5, "aliasPlural", Str), Opt(6, "enableReplies", Bool),
    Plain(7, "defaultSort", Enum("DefaultPostsSort")) >>

EventSettings == <<
    Plain(1, "visible", Bool), Plain(2, "defaultModeration", Enum("Moderation")),
    Plain(3, "defaultVisibility", Enum("Visibility")), Opt(4, "aliasSingular", Str),
    Opt(5, "aliasPlural", Str), Opt(6, "enableReplies", Bool),
    Opt(7, "calendarLookbackDays", Uint32),
    Plain(8, "defaultCalendarDisplayMode", Enum("CalendarDisplayMode")),
    Plain(9, "showStartedOrLongEventsByDefault", Bool) >>

ServerInfo == <<
    Opt(1, "name", Str), Opt(2, "shortName", Str), Opt(3, "description", Str),
    Opt(4, "privacyPolicy", Str), Opt(5, "logo", Msg("ServerLogo")),
    Opt(6, "webUserInterface", Enum("WebUserInterface")), Opt(7, "colors", Msg("ServerColors")),
    Opt(8, "mediaPolicy", Str), Opt(9, "disableCountabilibar", Bool) >>

ServerLogo == <<
    Opt(1, "squareMediaId", Str), Opt(2, "squareMediaIdDark", Str), Opt(3, "wideMediaId", Str),
    Opt(4, "wideMediaIdDark", Str) >>

CustomCSSConfiguration == <<
    Rep(1, "mediaIds", Str), Opt(2, "customCss", Str), Plain(3, "forceLightTheme", Bool),
    Plain(4, "forceDarkTheme", Bool) >>

CustomNavigationTabSet == <<
    Opt(1, "home", Msg("CustomHomePage")), Rep(2, "tabs", Msg("CustomNavigationTab")),
    Plain(3, "tabStyle", Enum("NavigationTabStyle")) >>

CustomHomePage == <<
    Opt(1, "tab", Enum("NavigationTab")), Opt(2, "postId", Str), Rep(3, "pinnedPostIds", Str),
    Plain(4, "showEventsStrip", Bool), Plain(5, "defaultEventsStripToRow", Bool),
    Plain(6, "defaultEventsStripCalendarDisplayMode", Enum("CalendarDisplayMode")) >>

CustomNavigationTab == <<
    Opt(1, "tab", Enum("NavigationTab")), Opt(2, "postId", Str), Opt(3, "isProfile", Bool),
    Opt(10, "emojiIcon", Str), Opt(11, "iconMediaId", Str), Opt(12, "title", Str),
    Plain(13, "path", Str) >>

ServerColors == <<
    Opt(1, "primary", Uint32), Opt(2, "navigation", Uint32), Opt(3, "author", Uint32),
    Opt(4, "admin", Uint32), Opt(5, "moderator", Uint32) >>

WebPushConfig == << Plain(1, "publicVapidKey", Str), Plain(2, "privateVapidKey", Str) >>

TwilioConfig == <<
    Plain(1, "twilioEnabled", Bool), Plain(3, "twilioAccountSid", Str),
    Plain(5, "twilioApiKeySid", Str), Plain(2, "twilioApiKeySecret", Str),
    Plain(4, "twilioFromNumber", Str), Plain(6, "twilioWebhookSigningKey", Str),
    Plain(7, "useTwilioWebhookSigningKey", Bool) >>

TelnyxConfig == <<
    Plain(1, "telnyxEnabled", Bool), Plain(2, "telnyxApiKey", Str),
    Plain(3, "telnyxFromNumber", Str), Plain(4, "telnyxMessagingProfileId", Str),
    Plain(5, "telnyxWebhookSigningKey", Str), Plain(6, "useTelnyxWebhookSigningKey", Bool) >>

BirdConfig == <<
    Plain(1, "birdEnabled", Bool), Plain(2, "birdAccessKey", Str), Plain(3, "birdFrom", Str),
    Plain(4, "birdRegion", Str), Plain(5, "birdWebhookSigningKey", Str),
    Plain(6, "useBirdWebhookSigningKey", Bool) >>

StripeConfig == <<
    Plain(1, "stripeEnabled", Bool), Plain(2, "stripeSecretKey", Str),
    Plain(3, "stripePublishableKey", Str), Plain(4, "stripeWebhookSigningSecret", Str) >>

StalwartConfig == << Plain(1, "stalwartReceivingEnabled", Bool) >>

(* sync.ts *)

SyncSourceUserAgent == [ NO_USER_AGENT |-> 0, RELLM |-> 1, CURL |-> 2 ]

SyncDestination == <<
    Plain(1, "id", Str), Opt(2, "owner", Msg("Author")), Opt(4, "createdAt", Time),
    Opt(5, "updatedAt", Time), Opt(6, "syncedOccasionCount", Uint64),
    Opt(7, "syncedPostCount", Uint64), Opt(9, "facebookPage", Msg("FacebookPage")),
    Opt(10, "instagramAccount", Msg("InstagramAccount")),
    Opt(11, "mastodonAccount", Msg("MastodonAccount")),
    Opt(12, "blueskyAccount", Msg("BlueskyAccount")),
    Opt(13, "xTwitterAccount", Msg("XTwitterAccount")),
    Opt(14, "threadsAccount", Msg("ThreadsAccount")) >>

GetSyncDestinationsResponse == << Rep(1, "destinations", Msg("SyncDestination")) >>

DeleteSyncDestinationRequest == <<
    Opt(1, "destination", Msg("SyncDestination")), Plain(2, "deleteSyncedPosts", Bool) >>

FacebookPage == <<
    Plain(1, "pageId", Str), Plain(2, "pageName", Str), Opt(3, "shortLivedUserAccessToken", Str) >>

InstagramAccount == <<
    Plain(1, "instagramBusinessAccountId", Str), Plain(2, "username", Str),
    Plain(3, "pageId", Str), Opt(4, "shortLivedUserAccessToken", Str) >>

MastodonAccount == <<
    Plain(1, "instanceHost", Str), Plain(2, "username", Str), Opt(3, "accessToken", Str) >>

BlueskyAccount == <<
    Plain(1, "handle", Str), Plain(2, "did", Str), Opt(3, "appPassword", Str) >>

XTwitterAccount == <<
    Plain(1, "username", Str), Plain(3, "xUserId", Str), Opt(4, "authorizationCode", Str),
    Opt(5, "codeVerifier", Str) >>

ThreadsAccount == <<
    Plain(1, "threadsUserId", Str), Plain(2, "username", Str), Opt(3, "authorizationCode", Str) >>

SyncDestinationStatus == <<
    Plain(1, "syncDestinationId", Str), Opt(2, "destinationInstanceId", Str),
    Opt(3, "destinationUrl", Str), Opt(4, "syncedAt", Time) >>

SyncSource == <<
    Plain(1, "id", Str), Opt(2, "owner", Msg("Author")),
    Plain(3, "syncIntervalSeconds", Uint64), Opt(4, "createdAt", Time),
    Opt(5, "updatedAt", Time), Opt(6, "lastSyncedAt", Time), Plain(7, "eventCount", Uint64),
    Plain(8, "occasionCount", Uint64), Plain(9, "postCount", Uint64),
    Opt(13, "userAgent", Enum("SyncSourceUserAgent")), Opt(20, "icsSubscriptionUrl", Str),
    Opt(21, "stellarwpIcsSubscriptionUrl", Str), Opt(22, "rssSubscriptionUrl", Str),
    Opt(23, "atomSubscriptionUrl", Str) >>

GetSyncSourcesResponse == << Rep(1, "sources", Msg("SyncSource")) >>

DeleteSyncSourceRequest == <<
    Opt(1, "source", Msg("SyncSource")), Plain(2, "deleteSyncedEvents", Bool) >>

(* ai_providers.ts *)

AIModelCapability == [
    AI_MODEL_CAPABILITY_UNKNOWN |-> 0, AI_MODEL_CAPABILITY_TEXT_GENERATION |-> 1,
    AI_MODEL_CAPABILITY_IMAGE_GENERATION |-> 2, AI_MODEL_CAPABILITY_IMAGE_EDITING |-> 3 ]

AIModel == <<
    Plain(1, "modelName", Str), Packed(2, "capabilities", Enum("AIModelCapability")),
    Opt(3, "grant", Msg("AIProviderGrant")), Opt(4, "provider", Msg("AIProvider")) >>

GenerateMediaRequest == <<
    Opt(1, "model", Msg("AIModel")), Plain(2, "userPrompt", Str), Rep(3, "mediaIds", Str),
    Opt(5, "postId", Str), Opt(6, "occasionId", Str) >>

AIProvider == <<
    Plain(1, "id", Str), Opt(2, "owner", Msg("Author")), Plain(3, "name", Str),
    Opt(4, "geminiCredentials", Msg("GeminiCredentials")),
    Opt(5, "openaiCredentials", Msg("OpenAICredentials")),
    Opt(6, "anthropicCredentials", Msg("AnthropicCredentials")),
    Opt(7, "digitaloceanCredentials", Msg("DigitalOceanCredentials")),
    Rep(14, "grants", Msg("AIProviderGrant")), Opt(15, "createdAt", Time),
    Opt(16, "updatedAt", Time) >>

AIProviderGrant == <<
    Plain(1, "aiProviderId", Str), Opt(2, "aiModelGrantee", Msg("Author")),
    Rep(3, "modelNames", Str), Plain(4, "tokensRemaining", Uint64), Plain(5, "overage", Uint64),
    Opt(15, "createdAt", Time), Opt(16, "updatedAt", Time) >>

GetAIProvidersResponse == <<
    Rep(1, "providers", Msg("AIProvider")), Rep(2, "aiModels", Msg("AIModel")) >>

DeleteAIProviderRequest == << Opt(1, "provider", Msg("AIProvider")) >>

GrantAIProviderRequest == <<
    Plain(1, "userId", Str), Plain(2, "aiProviderId", Str), Plain(3, "tokens", Uint64),
    Rep(4, "modelNames", Str) >>

RevokeAIProviderRequest == << Plain(1, "userId", Str), Plain(2, "aiProviderId", Str) >>

GeminiCredentials == << Opt(1, "geminiApiKey", Str) >>

OpenAICredentials == << Opt(1, "openaiApiKey", Str) >>

DigitalOceanCredentials == << Opt(1, "digitaloceanApiKey", Str) >>

AnthropicCredentials == << Opt(1, "anthropicApiKey", Str) >>

-------------------------------------------------------------------------------
ServerMessages == [
    AIModel |-> AIModel, GenerateMediaRequest |-> GenerateMediaRequest,
    AIProvider |-> AIProvider, AIProviderGrant |-> AIProviderGrant,
    GetAIProvidersResponse |-> GetAIProvidersResponse,
    DeleteAIProviderRequest |-> DeleteAIProviderRequest,
    GrantAIProviderRequest |-> GrantAIProviderRequest,
    RevokeAIProviderRequest |-> RevokeAIProviderRequest,
    GeminiCredentials |-> GeminiCredentials, OpenAICredentials |-> OpenAICredentials,
    DigitalOceanCredentials |-> DigitalOceanCredentials,
    AnthropicCredentials |-> AnthropicCredentials, ServerConfiguration |-> ServerConfiguration,
    ClusterResources |-> ClusterResources, ClusterConductorState |-> ClusterConductorState,
    ClusterResourceLock |-> ClusterResourceLock, ClusterResourceLimit |-> ClusterResourceLimit,
    LockClusterResourcesRequest |-> LockClusterResourcesRequest,
    LockClusterResourcesResponse |-> LockClusterResourcesResponse,
    FreeClusterResourcesRequest |-> FreeClusterResourcesRequest,
    ExternalCDNConfig |-> ExternalCDNConfig, MediaSettings |-> MediaSettings,
    MarketSettings |-> MarketSettings, FeatureSettings |-> FeatureSettings,
    PostSettings |-> PostSettings, EventSettings |-> EventSettings, ServerInfo |-> ServerInfo,
    ServerLogo |-> ServerLogo, CustomCSSConfiguration |-> CustomCSSConfiguration,
    CustomNavigationTabSet |-> CustomNavigationTabSet, CustomHomePage |-> CustomHomePage,
    CustomNavigationTab |-> CustomNavigationTab, ServerColors |-> ServerColors,
    WebPushConfig |-> WebPushConfig, TwilioConfig |-> TwilioConfig,
    TelnyxConfig |-> TelnyxConfig, BirdConfig |-> BirdConfig, StripeConfig |-> StripeConfig,
    StalwartConfig |-> StalwartConfig, SyncDestination |-> SyncDestination,
    GetSyncDestinationsResponse |-> GetSyncDestinationsResponse,
    DeleteSyncDestinationRequest |-> DeleteSyncDestinationRequest,
    FacebookPage |-> FacebookPage, InstagramAccount |-> InstagramAccount,
    MastodonAccount |-> MastodonAccount, BlueskyAccount |-> BlueskyAccount,
    XTwitterAccount |-> XTwitterAccount, ThreadsAccount |-> ThreadsAccount,
    SyncDestinationStatus |-> SyncDestinationStatus, SyncSource |-> SyncSource,
    GetSyncSourcesResponse |-> GetSyncSourcesResponse,
    DeleteSyncSourceRequest |-> DeleteSyncSourceRequest ]

ServerEnums == [
    AIModelCapability |-> AIModelCapability, ClusterResource |-> ClusterResource,
    AuthenticationFeature |-> AuthenticationFeature, DefaultPostsSort |-> DefaultPostsSort,
    CalendarDisplayMode |-> CalendarDisplayMode, PrivateUserStrategy |-> PrivateUserStrategy,
    WebUserInterface |-> WebUserInterface, NavigationTabStyle |-> NavigationTabStyle,
    NavigationTab |-> NavigationTab, ContactProtocol |-> ContactProtocol,
    ContactVerificationAPI |-> ContactVerificationAPI,
    SyncSourceUserAgent |-> SyncSourceUserAgent ]
===============================================================================
