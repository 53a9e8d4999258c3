------------------------------ MODULE ApiContent ------------------------------
(* The messages and enums the front end exchanges with a server about
   places, media, posts, events and groups.
   A message is the sequence of its fields in the order the codec writes them; an
   enum is the record of its names and numbers (without UNRECOGNIZED, -1). *)
EXTENDS Protobuf

(* location.ts *)

Location == <<
    Plain(1, "id", Str), Plain(2, "creatorId", Str), Plain(3, "uniformlyFormattedAddress", Str) >>

(* media.ts *)

MediaConversion == [
    MEDIA_CONVERSION_ORIGINAL |-> 0, MEDIA_CONVERSION_SMALL |-> 1,
    MEDIA_CONVERSION_MEDIUM |-> 2, MEDIA_CONVERSION_LARGE |-> 3,
    VIDEO_PREVIEW_THUMBNAIL_SMALL |-> 5, VIDEO_PREVIEW_THUMBNAIL_MEDIUM |-> 6,
    VIDEO_PREVIEW_THUMBNAIL_LARGE |-> 7, AUDIO_PREVIEW_THUMBNAIL_SMALL |-> 10,
    AUDIO_PREVIEW_THUMBNAIL_MEDIUM |-> 11, AUDIO_PREVIEW_THUMBNAIL_LARGE |-> 12,
    UNLICENSED_PREVIEW_MEDIUM |-> 13, AUDIO_COVER_ART_SMALL |-> 15,
    AUDIO_COVER_ART_MEDIUM |-> 16, AUDIO_COVER_ART_LARGE |-> 17 ]

Media == <<
    Plain(1, "id", Str), Opt(2, "author", Msg("Author")), Opt(4, "name", Str),
    Opt(5, "description", Str), Plain(6, "visibility", Enum("Visibility")),
    Plain(7, "moderation", Enum("Moderation")), Plain(8, "generated", Bool),
    Plain(9, "processed", Bool), Opt(15, "createdAt", Time), Opt(16, "updatedAt", Time),
    Opt(17, "metadata", Msg("MediaMetadata")), Opt(18, "url", Str),
    Rep(19, "sizes", Msg("MediaSize")) >>

MediaSize == <<
    Plain(1, "conversion", Enum("MediaConversion")), Plain(2, "sizeBytes", Uint64),
    Opt(3, "aspectRatio", Float), Plain(4, "contentType", Str) >>

MediaMetadata == <<
    Opt(1, "videoPreviewTimeMs", Uint64), Opt(2, "artist", Str), Opt(3, "album", Str),
    Opt(4, "composer", Str), Opt(5, "director", Str), Opt(6, "producer", Str),
    Opt(7, "starring", Str), Opt(8, "cast", Str), Opt(9, "crew", Str), Opt(10, "narrator", Str),
    Opt(11, "publisher", Str), Opt(12, "unlicensedPreviewStartMs", Uint64),
    Opt(13, "unlicensedPreviewEndMs", Uint64), Opt(14, "coverArtMediaId", Str),
    Opt(15, "startBpm", Float), Opt(16, "endBpm", Float), Opt(17, "minBpm", Float),
    Opt(18, "maxBpm", Float), Opt(19, "startKey", Str), Opt(20, "endKey", Str) >>

License == <<
    Plain(1, "id", Str), Opt(2, "licensedTo", Msg("Author")),
    Opt(3, "media", Msg("MediaReference")), Opt(4, "createdAt", Time), Opt(5, "revokedAt", Time) >>

MediaReference == <<
    Plain(2, "id", Str), Opt(3, "name", Str), Plain(4, "generated", Bool),
    Opt(5, "metadata", Msg("MediaMetadata")), Rep(6, "sizes", Msg("MediaSize")),
    Opt(11, "url", Str), Opt(12, "description", Str), Opt(13, "author", Msg("Author")),
    Plain(14, "visibility", Enum("Visibility")) >>

Author == <<
    Plain(1, "userId", Str), Opt(2, "username", Str), Opt(3, "avatar", Msg("MediaReference")),
    Opt(4, "realName", Str), Packed(5, "permissions", Enum("Permission")) >>

GetMediaRequest == <<
    Opt(1, "mediaId", Str), Opt(2, "userId", Str), Opt(3, "contentType", Str),
    Opt(4, "searchText", Str), Plain(11, "page", Uint32) >>

GetMediaResponse == << Rep(1, "media", Msg("Media")), Plain(2, "hasNextPage", Bool) >>

(* posts.ts *)

PostListingType == [
    ALL_ACCESSIBLE_POSTS |-> 0, FOLLOWING_POSTS |-> 1, MY_GROUPS_POSTS |-> 2,
    DIRECT_POSTS |-> 3, POSTS_PENDING_MODERATION |-> 4, TEXT_SEARCH |-> 5,
    RECENTLY_POPULAR_POSTS |-> 6, GROUP_POSTS |-> 10, GROUP_POSTS_PENDING_MODERATION |-> 11 ]

PostContext == [ POST |-> 0, REPLY |-> 1, EVENT |-> 2, OCCASION |-> 3, FEDERATED_REPLY |-> 10 ]

PostMediaLayout == [ MEDIA_LAYOUT_STANDARD |-> 0, MEDIA_LAYOUT_DYNAMIC_VERTICAL_SCROLL |-> 1 ]

GetPostsRequest == <<
    Opt(1, "postId", Str), Opt(2, "authorUserId", Str), Rep(16, "excludedAuthorUserIds", Str),
    Opt(3, "groupId", Str), Opt(4, "replyDepth", Uint32),
    Opt(5, "context", Enum("PostContext")), Opt(9, "postIds", Str),
    Plain(10, "listingType", Enum("PostListingType")), Plain(15, "page", Uint32),
    Opt(7, "searchText", Str), Opt(8, "publishedOrCreatedBefore", Time) >>

GetPostsResponse == << Rep(1, "posts", Msg("Post")) >>

Post == <<
    Plain(1, "id", Str), Opt(2, "author", Msg("Author")), Opt(3, "replyToPostId", Str),
    Opt(4, "title", Str), Opt(5, "link", Str), Opt(6, "content", Str),
    Plain(7, "responseCount", Int32), Plain(8, "replyCount", Int32),
    Plain(9, "groupCount", Int32), Rep(10, "media", Msg("MediaReference")),
    Plain(11, "mediaGenerated", Bool), Plain(13, "shareable", Bool),
    Plain(14, "context", Enum("PostContext")), Plain(15, "visibility", Enum("Visibility")),
    Plain(16, "moderation", Enum("Moderation")),
    Plain(17, "postMediaLayout", Enum("PostMediaLayout")),
    Opt(18, "currentGroupPost", Msg("GroupPost")), Rep(19, "replies", Msg("Post")),
    Opt(20, "createdAt", Time), Opt(21, "updatedAt", Time), Opt(22, "publishedAt", Time),
    Opt(23, "lastActivityAt", Time), Plain(24, "unauthenticatedStarCount", Int64),
    Rep(25, "syncDestinations", Msg("SyncDestinationStatus")),
    Opt(26, "syncSource", Msg("SyncSource")), Opt(27, "quotedPost", Msg("Post")) >>

SyncPostRequest == << Plain(1, "postId", Str), Plain(2, "syncDestinationId", Str) >>

DeletePostSyncDestinationRequest == <<
    Plain(1, "postId", Str), Plain(2, "syncDestinationId", Str) >>

GroupPost == <<
    Plain(1, "groupId", Str), Plain(2, "postId", Str), Plain(3, "userId", Str),
    Plain(4, "groupModeration", Enum("Moderation")), Opt(5, "createdAt", Time),
    Opt(6, "sharedBy", Msg("Author")) >>

UserPost == << Plain(1, "userId", Str), Plain(2, "postId", Str), Opt(3, "createdAt", Time) >>

GetGroupPostsRequest == << Plain(1, "postId", Str), Opt(2, "groupId", Str) >>

GetGroupPostsResponse == << Rep(1, "groupPosts", Msg("GroupPost")) >>

(* events.ts *)

EventListingType == [
    ALL_ACCESSIBLE_EVENTS |-> 0, FOLLOWING_EVENTS |-> 1, MY_GROUPS_EVENTS |-> 2,
    DIRECT_EVENTS |-> 3, EVENTS_PENDING_MODERATION |-> 4, EVENT_TEXT_SEARCH |-> 5,
    GROUP_EVENTS |-> 10, GROUP_EVENTS_PENDING_MODERATION |-> 11, NEWLY_ADDED_EVENTS |-> 20 ]

RsvpStatus == [ INTERESTED |-> 0, REQUESTED |-> 1, GOING |-> 2, NOT_GOING |-> 3 ]

GetEventsRequest == <<
    Opt(2, "authorUserId", Str), Rep(14, "excludedAuthorUserIds", Str), Opt(3, "groupId", Str),
    Opt(5, "timeFilter", Msg("TimeFilter")), Opt(6, "attendeeId", Str),
    Packed(7, "rsvpStatuses", Enum("RsvpStatus")), Opt(8, "postId", Str),
    Plain(10, "listingType", Enum("EventListingType")), Opt(11, "searchText", Str),
    Rep(12, "occasionPostIds", Str), Opt(13, "anonymousAttendeeAuthToken", Str) >>

TimeFilter == <<
    Opt(1, "startsAfter", Time), Opt(2, "endsAfter", Time), Opt(3, "startsBefore", Time),
    Opt(4, "endsBefore", Time) >>

GetEventsResponse == << Rep(1, "events", Msg("Event")) >>

Event == <<
    Opt(2, "post", Msg("Post")), Opt(3, "info", Msg("EventInfo")),
    Rep(4, "occasions", Msg("Occasion")), Plain(5, "occasionCount", Uint64) >>

SyncOccasionRequest == << Plain(1, "occasionId", Str), Plain(2, "syncDestinationId", Str) >>

DeleteOccasionSyncDestinationRequest == <<
    Plain(1, "occasionId", Str), Plain(2, "syncDestinationId", Str) >>

EventInfo == <<
    Opt(1, "allowsRsvps", Bool), Opt(2, "allowsAnonymousRsvps", Bool),
    Opt(3, "maxAttendees", Uint32), Opt(4, "hideLocationUntilRsvpApproved", Bool),
    Opt(5, "defaultRsvpModeration", Enum("Moderation")) >>

Occasion == <<
    Plain(2, "eventId", Str), Opt(3, "post", Msg("Post")), Opt(4, "info", Msg("OccasionInfo")),
    Opt(5, "startsAt", Time), Opt(6, "endsAt", Time), Opt(7, "location", Msg("Location")),
    Opt(9, "syncMissingSince", Time), Opt(10, "rsvps", Msg("Rsvps")),
    Opt(11, "currentUserRsvp", Msg("Rsvp")),
    Rep(12, "syncDestinations", Msg("SyncDestinationStatus")), Opt(13, "timezone", Str) >>

OccasionInfo == << Opt(1, "rsvpInfo", Msg("OccasionRsvpInfo")) >>

OccasionRsvpInfo == <<
    Opt(1, "allowsRsvps", Bool), Opt(2, "allowsAnonymousRsvps", Bool),
    Opt(3, "maxAttendees", Uint32), Opt(4, "goingRsvps", Uint32),
    Opt(5, "goingAttendees", Uint32), Opt(6, "interestedRsvps", Uint32),
    Opt(7, "interestedAttendees", Uint32), Opt(8, "invitedRsvps", Uint32),
    Opt(9, "invitedAttendees", Uint32) >>

GetRsvpsRequest == << Plain(1, "occasionId", Str), Opt(2, "anonymousAttendeeAuthToken", Str) >>

Rsvps == <<
    Rep(1, "rsvps", Msg("Rsvp")), Opt(2, "hiddenLocation", Msg("Location")),
    Plain(3, "goingCount", Uint32), Plain(4, "goingAttendees", Uint32),
    Plain(5, "interestedCount", Uint32), Plain(6, "interestedAttendees", Uint32),
    Plain(7, "requestedCount", Uint32), Plain(8, "requestedAttendees", Uint32),
    Plain(9, "notGoingCount", Uint32), Plain(10, "notGoingAttendees", Uint32),
    Plain(11, "pendingCount", Uint32), Plain(12, "pendingAttendees", Uint32) >>

Rsvp == <<
    Plain(1, "id", Str), Plain(2, "occasionId", Str),
    Opt(3, "userAttendee", Msg("UserAttendee")),
    Opt(4, "anonymousAttendee", Msg("AnonymousAttendee")), Plain(5, "numberOfGuests", Uint32),
    Plain(6, "status", Enum("RsvpStatus")), Opt(7, "invitingUserId", Str),
    Plain(8, "privateNote", Str), Plain(9, "publicNote", Str),
    Plain(10, "moderation", Enum("Moderation")), Opt(11, "createdAt", Time),
    Opt(12, "updatedAt", Time) >>

AnonymousAttendee == <<
    Plain(1, "name", Str), Rep(2, "contactMethods", Msg("ContactMethod")),
    Opt(3, "authToken", Str) >>

UserAttendee == <<
    Plain(1, "userId", Str), Opt(2, "username", Str), Opt(3, "avatar", Msg("MediaReference")),
    Opt(4, "realName", Str), Packed(5, "permissions", Enum("Permission")) >>

(* groups.ts *)

GroupListingType == [
    ALL_GROUPS |-> 0, MY_GROUPS |-> 1, REQUESTED_GROUPS |-> 2, INVITED_GROUPS |-> 3 ]

Group == <<
    Plain(1, "id", Str), Plain(2, "name", Str), Plain(3, "shortname", Str),
    Plain(4, "description", Str), Opt(5, "avatar", Msg("MediaReference")),
    Packed(6, "defaultMembershipPermissions", Enum("Permission")),
    Plain(7, "defaultMembershipModeration", Enum("Moderation")),
    Plain(8, "defaultPostModeration", Enum("Moderation")),
    Plain(9, "defaultEventModeration", Enum("Moderation")),
    Plain(10, "visibility", Enum("Visibility")), Plain(11, "memberCount", Uint32),
    Plain(12, "postCount", Uint32), Plain(13, "eventCount", Uint32),
    Packed(18, "nonMemberPermissions", Enum("Permission")),
    Opt(19, "currentUserMembership", Msg("Membership")), Opt(20, "createdAt", Time),
    Opt(21, "updatedAt", Time) >>

GetGroupsRequest == <<
    Opt(1, "groupId", Str), Opt(2, "groupName", Str), Opt(3, "groupShortname", Str),
    Plain(10, "listingType", Enum("GroupListingType")), Opt(11, "page", Int32) >>

GetGroupsResponse == << Rep(1, "groups", Msg("Group")), Plain(2, "hasNextPage", Bool) >>

Member == << Opt(1, "user", Msg("User")), Opt(2, "membership", Msg("Membership")) >>

GetMembersRequest == <<
    Plain(1, "groupId", Str), Opt(2, "username", Str),
    Opt(3, "groupModeration", Enum("Moderation")), Opt(10, "page", Int32) >>

GetMembersResponse == << Rep(1, "members", Msg("Member")), Plain(2, "hasNextPage", Bool) >>

-------------------------------------------------------------------------------
ContentMessages == [
    GetEventsRequest |-> GetEventsRequest, TimeFilter |-> TimeFilter,
    GetEventsResponse |-> GetEventsResponse, Event |-> Event,
    SyncOccasionRequest |-> SyncOccasionRequest,
    DeleteOccasionSyncDestinationRequest |-> DeleteOccasionSyncDestinationRequest,
    EventInfo |-> EventInfo, Occasion |-> Occasion, OccasionInfo |-> OccasionInfo,
    OccasionRsvpInfo |-> OccasionRsvpInfo, GetRsvpsRequest |-> GetRsvpsRequest, Rsvps |-> Rsvps,
    Rsvp |-> Rsvp, AnonymousAttendee |-> AnonymousAttendee, UserAttendee |-> UserAttendee,
    Group |-> Group, GetGroupsRequest |-> GetGroupsRequest,
    GetGroupsResponse |-> GetGroupsResponse, Member |-> Member,
    GetMembersRequest |-> GetMembersRequest, GetMembersResponse |-> GetMembersResponse,
    Location |-> Location, Media |-> Media, MediaSize |-> MediaSize,
    MediaMetadata |-> MediaMetadata, License |-> License, MediaReference |-> MediaReference,
    Author |-> Author, GetMediaRequest |-> GetMediaRequest,
    GetMediaResponse |-> GetMediaResponse, GetPostsRequest |-> GetPostsRequest,
    GetPostsResponse |-> GetPostsResponse, Post |-> Post, SyncPostRequest |-> SyncPostRequest,
    DeletePostSyncDestinationRequest |-> DeletePostSyncDestinationRequest,
    GroupPost |-> GroupPost, UserPost |-> UserPost,
    GetGroupPostsRequest |-> GetGroupPostsRequest,
    GetGroupPostsResponse |-> GetGroupPostsResponse ]

ContentEnums == [
    EventListingType |-> EventListingType, RsvpStatus |-> RsvpStatus,
    GroupListingType |-> GroupListingType, MediaConversion |-> MediaConversion,
    PostListingType |-> PostListingType, PostContext |-> PostContext,
    PostMediaLayout |-> PostMediaLayout ]
===============================================================================
