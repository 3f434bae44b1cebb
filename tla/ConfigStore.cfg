SPECIFICATION StoreSpec
CONSTANTS
  Payload = {p1, p2, p3}
  Default = p1
  None = None
  Gens = 6
INVARIANT Durable
INVARIANT SavedMeansRestored
