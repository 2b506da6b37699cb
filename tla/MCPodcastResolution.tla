------------------------ MODULE MCPodcastResolution ------------------------
(* TLC instance of PodcastResolution: two feeds of the index.               *)
EXTENDS MCPlatformRelay, PodcastResolution

CONSTANTS e1, e2, e3, e4

Entry(id, like) == [id |-> id, like |-> like, audio |-> TRUE, guid |-> TRUE, known |-> TRUE]
Catalog(a, b, c, audio) ==
    [f \in 1..2 |-> IF f = 1 THEN <<[Entry(e1, a) EXCEPT !.audio = audio], Entry(e2, b)>>
                    ELSE <<Entry(e3, c)>>]

NoLink == [source |-> "spotify", named |-> TRUE, byId |-> FALSE, show |-> 1,
           feeds |-> Catalog(0, 0, 0, TRUE)]

Catalogs ==
    {Catalog(a, b, c, audio) : a \in 0..3, b \in 0..3, c \in {0, 1, 3}, audio \in BOOLEAN}

\* An RSS feed of two items and what the index knows of them.
RssFeeds ==
    {[f \in 1..2 |-> IF f = 2 THEN <<>>
        ELSE <<[Entry(e1, 0) EXCEPT !.guid = guid, !.known = known, !.audio = audio],
               [Entry(e2, 0) EXCEPT !.known = TRUE]>>] :
        guid \in BOOLEAN, known \in BOOLEAN, audio \in BOOLEAN}

MCLinks ==
    {[NoLink EXCEPT !.source = "apple", !.named = FALSE]}
        \cup {[NoLink EXCEPT !.source = source, !.feeds = feeds] :
                 source \in {"spotify", "deezer"}, feeds \in Catalogs}
        \cup {[NoLink EXCEPT !.source = "apple", !.feeds = feeds, !.byId = byId, !.show = 2] :
                 feeds \in Catalogs, byId \in BOOLEAN}
        \cup {[NoLink EXCEPT !.source = "rss", !.feeds = feeds] : feeds \in RssFeeds}
=============================================================================
