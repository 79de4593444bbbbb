SPECIFICATION Spec
CONSTANTS
    MaxSize = 1
    Samples = {s1}
    None = None
    Retries = 1
INVARIANT ReleasesSample
