SPECIFICATION FairSpec
CONSTANTS
  f1 = f1
  h1 = h1
  j1 = j1
  None = None
  File <- MCFile
  Hit <- MCHit
  Candidate <- MCCandidate
  Visits <- MCVisits
  Listed <- MCListed
  Anime <- MCAnime
CHECK_DEADLOCK FALSE
INVARIANTS
  CreateTypeOK
  FilePreviewsNotLeaked
  DraftNamesStagedCover
  RedirectComplete
  RedirectSparesOwnSubmission
PROPERTIES
  SubmissionEnds
