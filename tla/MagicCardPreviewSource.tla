--------------------------- MODULE MagicCardPreviewSource ---------------------------
(* Scryfall: one search by name and set; it has no print detection.             *)
EXTENDS PreviewLookup

\* parseResponse: only the best match counts, with or without an image.
ParseResponse(reply) ==
  CASE ~Spoke(reply) -> Transient
    [] Spoke(reply) /\ (reply = <<>> \/ ~Head(reply).img) -> NotFound
    [] OTHER -> Image(Head(reply))

BuildSearchUrl == Starts("image") /\ Ask("search")

FetchImageUrl ==
  /\ at = "search"
  /\ \E reply \in ListReplies : Hears(reply) /\ Answer(ParseResponse(reply))

Next == BuildSearchUrl \/ FetchImageUrl
====
