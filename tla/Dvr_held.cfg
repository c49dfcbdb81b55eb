SPECIFICATION Spec
CONSTANTS
    live = live
    file = file
    listener = listener
    NoRec = NoRec
    Recs = {live, file}
    Readers = {listener}
    Segmented = {live}
    Analysed = {live}
    Maximum <- MCMaximum
    Quota = 3
    Ceiling = 2
    MaxSegments = 2
    MaxActive = 1
    MaxReaders = 1
    MaxAsks = 2
    MaxMishaps = 1
PROPERTIES
    HeldSegmentsKept
