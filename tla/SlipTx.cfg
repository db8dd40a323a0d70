SPECIFICATION Spec
CONSTANTS
  WordBytes = 2
  Plain <- OnePlain
  MaxBeats = 3
INVARIANT RoundTrip
