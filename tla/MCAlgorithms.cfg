SPECIFICATION Spec
CONSTANTS
  MaxChunk = 6
  Overlap = 2
  RrfK = 60
  CandidateLimit = 2
  EmbedBatch = 2
  Queues = 3
INVARIANTS
  CanonicalText
  ChunksFit
  DiffIsFaithful
  DiffIsMirrored
  FusionAgrees
  ImpactsFollowRetrieval
  ExtractionCites
  ExplanationsFit
  
  VectorsAligned
  
  NoQueueStarves
  SpendAddsUp
