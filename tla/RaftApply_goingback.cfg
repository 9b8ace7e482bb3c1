CONSTANTS
    MaxIndex = 3
    h1 = h1
    h2 = h2
    Handler = {h1, h2}
SPECIFICATION Spec
PROPERTY NoGoingBack
