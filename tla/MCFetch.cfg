\* Four chunks, one more than text() takes of a response; a stream that pulls for
\* its reads alone, and two that keep chunks ahead of them; one request.
SPECIFICATION MCSpec
CONSTANTS
  BodyChunks = 4
  BodyReads = 4
  MaxBody = 3
  SourceMarks = {0, 1, 2}
  Urls <- MCUrls
  RawCookies <- MCRawCookies
  Answered <- MCAnswered
  Timeout = 1
  MaxRetries = 1
  MaxRedirects = 2
  None = unused
CHECK_DEADLOCK FALSE
INVARIANT BodiesAreWhole
INVARIANT RequestsAreGoverned
